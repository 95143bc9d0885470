----------------------------- MODULE BtDevTable -----------------------------
(***************************************************************************)
(* The table bt_dev of the Bluetooth host (host.c, host.h): one slot per   *)
(* Bluetooth device, and the look-ups every event handler starts with.     *)
(* Each look-up returns a slot, or BT_NONE when it leaves *device alone.   *)
(***************************************************************************)
EXTENDS Integers

CONSTANTS BT_MAX_DEV,    \* number of slots
          Addrs,         \* the Bluetooth addresses around
          NoAddr         \* the address of a slot that was memset to 0

ASSUME TableAssumption ==
    /\ BT_MAX_DEV \in Nat \ {0}
    /\ NoAddr \notin Addrs

BT_NONE == -1

Slots == 0 .. BT_MAX_DEV - 1

(***************************************************************************)
(* What establishing a connection reads of struct bt_dev: found and page   *)
(* are the flags BT_DEV_DEVICE_FOUND and BT_DEV_PAGE (the device paged the *)
(* adapter, or sent it a directed advertisement), named is ids.type as set *)
(* from the name of the device.                                            *)
(***************************************************************************)
Device(Handles, Retries) ==
    [found : BOOLEAN, page : BOOLEAN, named : BOOLEAN, addr : Addrs \cup {NoAddr},
     acl_handle : Handles \cup {0}, pkt_retry : Retries]

\* bt_host_reset_dev: memset to 0; handle 0 is a handle like any other.
Blank == [found |-> FALSE, page |-> FALSE, named |-> FALSE, addr |-> NoAddr,
          acl_handle |-> 0, pkt_retry |-> 0]

\* The slot a handler claims for a device it has not seen before.
Claimed(a, paged) == [Blank EXCEPT !.found = TRUE, !.page = paged, !.addr = a]

\* The loops over bt_dev return the first slot that satisfies the test.
FirstOf(S) == IF S = {} THEN BT_NONE ELSE CHOOSE i \in S : \A j \in S : i <= j

NewDev(t) == FirstOf({i \in Slots : ~t[i].found})
ActiveDev(t) == FirstOf({i \in Slots : t[i].found})
\* Mutants (wrong on purpose, to see that a property notices): connected devices only; any of them.
DevFromBdaddrLinked(t, a) ==
    FirstOf({i \in Slots : t[i].found /\ t[i].addr = a /\ t[i].acl_handle # 0})
DevFromAnyHandle(t, h) == FirstOf({i \in Slots : t[i].found /\ t[i].acl_handle # 0})

DevFromBdaddr(t, a) == FirstOf({i \in Slots : t[i].found /\ t[i].addr = a})
DevFromHandle(t, h) == FirstOf({i \in Slots : t[i].found /\ t[i].acl_handle = h})

=============================================================================
