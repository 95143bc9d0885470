--------------------------- MODULE BtConnections ---------------------------
(***************************************************************************)
(* How the Bluetooth host finds controllers, connects to them and lets go  *)
(* of them: the HCI event handlers of hci.c that claim, fill and reset the *)
(* slots of bt_dev, the search (BR/EDR inquiry and LE scan), and the BLE   *)
(* interface of the web configuration.                                     *)
(*                                                                         *)
(* An event handler runs to its end in the task of the Bluetooth           *)
(* controller, so each is one action.  sys_mgr_task, of lower priority on  *)
(* the same core, starts and stops the inquiry too and is preempted by the *)
(* handlers, so its two operations are split.  The controller itself is    *)
(* external: it answers the commands of the host in any order.             *)
(*                                                                         *)
(* Definitions marked as mutants are wrong on purpose, to see that a       *)
(* property notices the mistake.                                           *)
(***************************************************************************)
EXTENDS BtDevTable

CONSTANTS BrPeers,       \* BR/EDR game controllers
          LePeers,       \* BLE game controllers
          Centrals,      \* browsers that open the web configuration over BLE
          Handles,       \* connection handles the Bluetooth controller assigns
          InqAuto,       \* config.global_cfg.inquiry_mode is INQ_AUTO
          BT_MAX_RETRY,
          BT_INQUIRY_MAX

Peers == BrPeers \cup LePeers

ASSUME ConnAssumption ==
    /\ Addrs = Peers \cup Centrals
    /\ BrPeers \cap LePeers = {}
    /\ Peers \cap Centrals = {}
    /\ Handles \subseteq Nat
    /\ InqAuto \in BOOLEAN
    /\ BT_MAX_RETRY \in Nat \ {0}
    /\ BT_INQUIRY_MAX \in Nat

VARIABLES
    dev,                 \* bt_dev
    conf,                \* bt_dev_conf: its FOUND flag and acl_handle
    inquiry_state,       \* what the host believes of the inquiry
    nb_inquiry,          \* bt_nb_inquiry, saturated where the code stops comparing
    mgr,                 \* what sys_mgr_task is in the middle of
    \* the Bluetooth controller:
    inquiring,           \* a periodic inquiry is going on
    scan,                \* the LE scan: "off", "active" or "passive"
    adv,                 \* the advertisement of the configuration interface is on
    reports,             \* LE devices whose advertising report is on its way to the host
    link,                \* per address: "down", "asked" (a connection is being made), "up"
    handleOf,            \* the handle of each link that is up
    naming,              \* addresses with a remote name request under way
    \* What properties ask of the past:
    misled,              \* whose link went down with the reset of another device's slot
    refused              \* whose LE connection the controller refused to make

hostVars == <<dev, conf, inquiry_state, nb_inquiry>>
searchVars == <<inquiry_state, nb_inquiry, inquiring, scan>>
ctrlVars == <<inquiring, scan, adv, reports, link, handleOf, naming>>
accidents == <<misled, refused>>
vars == <<hostVars, mgr, ctrlVars, accidents>>

\* The end of bt_hci_config: bt_hci_start_inquiry_cfg_check and advertising on.
Init ==
    /\ dev = [i \in Slots |-> Blank]
    /\ conf = [found |-> FALSE, acl_handle |-> 0]
    /\ inquiry_state = InqAuto
    /\ nb_inquiry = 0
    /\ mgr = "idle"
    /\ inquiring = InqAuto
    /\ scan = IF InqAuto THEN "active" ELSE "passive"
    /\ adv = TRUE
    /\ reports = {}
    /\ link = [a \in Addrs |-> "down"]
    /\ handleOf = [a \in Addrs |-> 0]
    /\ naming = {}
    /\ misled = {}
    /\ refused = {}

-----------------------------------------------------------------------------
(* What the handlers call.                                                 *)

StartInquiry ==
    /\ inquiry_state' = TRUE
    /\ nb_inquiry' = 0
    /\ scan' = "active"
    /\ inquiring' = TRUE

StopInquiry ==
    /\ inquiring' = FALSE
    /\ scan' = "passive"
    /\ inquiry_state' = FALSE

Scan(mode) == scan' = mode /\ UNCHANGED <<inquiry_state, nb_inquiry, inquiring>>

\* What a handler does after it has reset a slot, t being the table that is left.
ResumeSearchEarly(t) ==            \* mutant: looks at the table before the reset
    IF InqAuto /\ ActiveDev(dev) = BT_NONE THEN StartInquiry ELSE UNCHANGED searchVars

ResumeSearch(t) ==
    IF InqAuto /\ ActiveDev(t) = BT_NONE THEN StartInquiry ELSE UNCHANGED searchVars

Up(a, h) ==
    /\ link' = [link EXCEPT ![a] = "up"]
    /\ handleOf' = [handleOf EXCEPT ![a] = h]

\* HCI_Create_Connection and HCI_Accept_Connection_Request.
Connect(l, a) == IF l[a] = "down" THEN [l EXCEPT ![a] = "asked"] ELSE l

(***************************************************************************)
(* HCI_LE_Create_Connection: the controller makes one LE connection at a   *)
(* time and refuses a second request with a Command Status event, of which *)
(* bt_hci_evt_hdlr only prints the error.                                  *)
(***************************************************************************)
LeConnect(l, a) ==
    IF \E b \in LePeers : l[b] = "asked" THEN l ELSE Connect(l, a)

LeRefused(l, a) ==
    IF \E b \in LePeers : l[b] = "asked" THEN refused \cup {a} ELSE refused

NeverRetry(s) == FALSE                                \* mutant

\* if (device->pkt_retry < BT_MAX_RETRY), after the failure is counted.
Retry(s) == dev[s].pkt_retry + 1 < BT_MAX_RETRY

NoCount(s) == dev                                     \* mutant: the failure is not counted
CountFailure(s) == [dev EXCEPT ![s].pkt_retry = @ + 1]

GiveUpKeepingSlot(s) ==            \* mutant: the slot is not reset
    /\ dev' = [dev EXCEPT ![s].pkt_retry = 0]
    /\ ResumeSearch(dev')

GiveUp(s) ==
    /\ dev' = [dev EXCEPT ![s] = Blank]
    /\ ResumeSearch(dev')

FreeHandles == Handles \ {handleOf[a] : a \in {b \in Addrs : link[b] = "up"}}

-----------------------------------------------------------------------------
(* BR/EDR devices.                                                         *)

\* BT_HCI_EVT_INQUIRY_COMPLETE
InquiryComplete ==
    /\ inquiring
    /\ nb_inquiry' = IF nb_inquiry > BT_INQUIRY_MAX THEN nb_inquiry ELSE nb_inquiry + 1
    /\ IF ActiveDev(dev) > BT_NONE /\ nb_inquiry' > BT_INQUIRY_MAX
       THEN StopInquiry
       ELSE UNCHANGED <<inquiry_state, inquiring, scan>>
    /\ UNCHANGED <<dev, conf, mgr, adv, reports, link, handleOf, naming, accidents>>

\* BT_HCI_EVT_INQUIRY_RESULT
InquiryResult(a) ==
    /\ inquiring
    /\ link[a] = "down"
    /\ DevFromBdaddr(dev, a) = BT_NONE
    /\ NewDev(dev) # BT_NONE
    /\ dev' = [dev EXCEPT ![NewDev(dev)] = Claimed(a, FALSE)]
    /\ link' = Connect(link, a)
    /\ UNCHANGED <<conf, mgr, searchVars, adv, reports, handleOf, naming, accidents>>

\* BT_HCI_EVT_CONN_REQUEST
ConnRequest(a) ==
    /\ link[a] = "down"
    /\ DevFromBdaddr(dev, a) = BT_NONE
    /\ NewDev(dev) # BT_NONE
    /\ dev' = [dev EXCEPT ![NewDev(dev)] = Claimed(a, TRUE)]
    /\ link' = Connect(link, a)
    /\ UNCHANGED <<conf, mgr, searchVars, adv, reports, handleOf, naming, accidents>>

\* BT_HCI_EVT_CONN_COMPLETE with an error
ConnFailed(a) ==
    LET s == DevFromBdaddr(dev, a)
        gone == [link EXCEPT ![a] = "down"]
    IN /\ link[a] = "asked"
       /\ IF s = BT_NONE
          THEN link' = gone /\ UNCHANGED <<dev, searchVars>>
          ELSE IF ~dev[s].page /\ Retry(s)
          THEN /\ dev' = CountFailure(s)
               /\ link' = Connect(gone, a)
               /\ UNCHANGED searchVars
          ELSE GiveUp(s) /\ link' = gone
       /\ UNCHANGED <<conf, mgr, adv, reports, handleOf, naming, accidents>>

\* BT_HCI_EVT_CONN_COMPLETE without error
ConnSucceeded(a, h) ==
    LET s == DevFromBdaddr(dev, a)
    IN /\ link[a] = "asked"
       /\ h \in FreeHandles
       /\ Up(a, h)
       /\ IF s = BT_NONE
          THEN UNCHANGED <<dev, nb_inquiry, adv, naming>>
          ELSE /\ nb_inquiry' = BT_INQUIRY_MAX
               /\ dev' = [dev EXCEPT ![s].acl_handle = h, ![s].pkt_retry = 0]
               /\ adv' = FALSE
               /\ naming' = naming \cup {a}
       /\ UNCHANGED <<conf, mgr, inquiry_state, inquiring, scan, reports, accidents>>

(***************************************************************************)
(* BT_HCI_EVT_REMOTE_NAME_REQ_COMPLETE.  The request does not depend on    *)
(* the link, and its answer may come when the link is down again.          *)
(***************************************************************************)
NameFailed(a) ==
    LET s == DevFromBdaddr(dev, a)
    IN /\ a \in naming
       /\ IF s # BT_NONE /\ Retry(s)
          THEN dev' = CountFailure(s) /\ UNCHANGED <<naming, searchVars>>
          ELSE /\ naming' = naming \ {a}
               /\ IF s = BT_NONE
                  THEN UNCHANGED <<dev, searchVars>>
                  ELSE GiveUp(s)
       /\ UNCHANGED <<conf, mgr, adv, reports, link, handleOf, accidents>>

NameFound(a) ==
    LET s == DevFromBdaddr(dev, a)
    IN /\ a \in naming
       /\ naming' = naming \ {a}
       /\ IF s = BT_NONE
          THEN UNCHANGED <<dev, searchVars>>
          ELSE /\ dev' = [dev EXCEPT ![s].named = TRUE]
               /\ StopInquiry
               /\ UNCHANGED nb_inquiry
       /\ UNCHANGED <<conf, mgr, adv, reports, link, handleOf, accidents>>

-----------------------------------------------------------------------------
(* BLE devices.                                                            *)

\* The controller hears an advertisement: its report is on its way to the host.
Advertise(a) ==
    /\ scan # "off"
    /\ link[a] = "down"
    /\ a \notin reports
    /\ reports' = reports \cup {a}
    /\ UNCHANGED <<hostVars, mgr, inquiring, scan, adv, link, handleOf, naming, accidents>>

\* BT_HCI_EVT_LE_ADVERTISING_REPORT of a HID device, or a directed one
LeAdvertisingReport(a, direct) ==
    /\ a \in reports
    /\ reports' = reports \ {a}
    /\ IF DevFromBdaddr(dev, a) = BT_NONE /\ NewDev(dev) # BT_NONE
       THEN /\ dev' = [dev EXCEPT ![NewDev(dev)] = Claimed(a, direct)]
            /\ Scan("off")
            /\ adv' = FALSE
            /\ link' = LeConnect(link, a)
            /\ refused' = LeRefused(link, a)
       ELSE UNCHANGED <<dev, searchVars, adv, link, refused>>
    /\ UNCHANGED <<conf, mgr, handleOf, naming, misled>>

\* BT_HCI_EVT_LE_CONN_COMPLETE with an error
LeConnFailed(a) ==
    LET s == DevFromBdaddr(dev, a)
        gone == [link EXCEPT ![a] = "down"]
    IN /\ link[a] = "asked"
       /\ a \notin reports
       /\ IF s = BT_NONE
          THEN link' = gone /\ UNCHANGED <<dev, searchVars, refused>>
          ELSE IF ~dev[s].page /\ Retry(s)
          THEN /\ dev' = CountFailure(s)
               /\ link' = LeConnect(gone, a)
               /\ refused' = LeRefused(gone, a)
               /\ UNCHANGED searchVars
          ELSE /\ dev' = [dev EXCEPT ![s] = Blank]
               /\ link' = gone
               /\ UNCHANGED refused
               /\ IF InqAuto /\ ActiveDev(dev') = BT_NONE THEN StartInquiry
                                                          ELSE Scan("passive")
       /\ UNCHANGED <<conf, mgr, adv, reports, handleOf, naming, misled>>

\* The branch of BT_HCI_EVT_LE_CONN_COMPLETE for an address that has no slot.
ConfConnected(h) ==
    conf' = IF conf.found THEN conf ELSE [found |-> TRUE, acl_handle |-> h]

\* BT_HCI_EVT_LE_CONN_COMPLETE without error
LeConnSucceeded(a, h) ==
    LET s == DevFromBdaddr(dev, a)
    IN /\ link[a] = "asked"
       /\ a \notin reports
       /\ h \in FreeHandles
       /\ Up(a, h)
       /\ IF s = BT_NONE
          THEN ConfConnected(h) /\ UNCHANGED <<dev, searchVars>>
          ELSE /\ nb_inquiry' = BT_INQUIRY_MAX
               /\ dev' = [dev EXCEPT ![s].acl_handle = h, ![s].pkt_retry = 0]
               /\ scan' = "active"
               /\ UNCHANGED <<conf, inquiry_state, inquiring>>
       /\ UNCHANGED <<mgr, adv, reports, naming, accidents>>

\* A browser connects to the advertised configuration interface.
CentralConnected(c, h) ==
    /\ adv
    /\ link[c] = "down"
    /\ h \in FreeHandles
    /\ Up(c, h)
    /\ adv' = FALSE      \* the controller stops advertising when it is connected to
    /\ ConfConnected(h)
    /\ UNCHANGED <<dev, searchVars, mgr, reports, naming, accidents>>

-----------------------------------------------------------------------------
(* BT_HCI_EVT_DISCONN_COMPLETE.  bt_host_reset_dev does nothing for        *)
(* bt_dev_conf, which is no slot of bt_dev: conf is left as it is.  The    *)
(* slot is looked up by the handle, and a slot without a link has handle 0 *)
(* like that of a link the controller gave handle 0.                       *)

Disconnected(a) ==
    LET h == handleOf[a]
        s == DevFromHandle(dev, h)
    IN /\ link[a] = "up"
       /\ link' = [link EXCEPT ![a] = "down"]
       /\ handleOf' = [handleOf EXCEPT ![a] = 0]
       /\ IF s # BT_NONE
          THEN /\ dev' = [dev EXCEPT ![s] = Blank]
               /\ ResumeSearch(dev')
               /\ adv' = (adv \/ ActiveDev(dev') = BT_NONE)
               /\ misled' = IF dev[s].addr = a THEN misled ELSE misled \cup {a}
          ELSE /\ adv' = (adv \/ (/\ conf.found
                                  /\ conf.acl_handle = h
                                  /\ ActiveDev(dev) = BT_NONE))
               /\ UNCHANGED <<dev, searchVars, misled>>
       /\ UNCHANGED <<conf, mgr, reports, naming, refused>>

-----------------------------------------------------------------------------
(* sys_mgr_task: the BOOT button and the system commands.                  *)

MgrStartInquiry ==
    /\ mgr = "idle"
    /\ mgr' = "starting"
    /\ inquiry_state' = TRUE
    /\ nb_inquiry' = 0
    /\ UNCHANGED <<dev, conf, ctrlVars, accidents>>

MgrInquiryStarted ==
    /\ mgr = "starting"
    /\ mgr' = "idle"
    /\ scan' = "active"
    /\ inquiring' = TRUE
    /\ UNCHANGED <<hostVars, adv, reports, link, handleOf, naming, accidents>>

MgrStopInquiry ==
    /\ mgr = "idle"
    /\ inquiry_state
    /\ mgr' = "stopping"
    /\ inquiring' = FALSE
    /\ scan' = "passive"
    /\ UNCHANGED <<hostVars, adv, reports, link, handleOf, naming, accidents>>

MgrInquiryStopped ==
    /\ mgr = "stopping"
    /\ mgr' = "idle"
    /\ inquiry_state' = FALSE
    /\ UNCHANGED <<dev, conf, nb_inquiry, ctrlVars, accidents>>

-----------------------------------------------------------------------------
BrCompletes(a) == ConnFailed(a) \/ \E h \in Handles : ConnSucceeded(a, h)

Next ==
    \/ InquiryComplete
    \/ \E a \in BrPeers :
          InquiryResult(a) \/ ConnRequest(a) \/ BrCompletes(a) \/ NameFailed(a) \/ NameFound(a)
    \/ \E a \in LePeers :
          \/ Advertise(a)
          \/ \E direct \in BOOLEAN : LeAdvertisingReport(a, direct)
          \/ LeConnFailed(a)
          \/ \E h \in Handles : LeConnSucceeded(a, h)
    \/ \E c \in Centrals, h \in Handles : CentralConnected(c, h)
    \/ \E a \in Addrs : Disconnected(a)
    \/ MgrStartInquiry
    \/ MgrInquiryStarted
    \/ MgrStopInquiry
    \/ MgrInquiryStopped

Spec == Init /\ [][Next]_vars

\* A page ends by the page timeout at the latest; an LE connection attempt has no timeout.
FairSpec == Spec /\ \A a \in BrPeers : WF_vars(BrCompletes(a))

-----------------------------------------------------------------------------
(* Properties.                                                             *)

TypeOK ==
    /\ dev \in [Slots -> Device(Handles, 0 .. BT_MAX_RETRY - 1)]
    /\ conf \in [found : BOOLEAN, acl_handle : Handles \cup {0}]
    /\ inquiry_state \in BOOLEAN
    /\ nb_inquiry \in 0 .. BT_INQUIRY_MAX + 1
    /\ mgr \in {"idle", "starting", "stopping"}
    /\ inquiring \in BOOLEAN
    /\ scan \in {"off", "active", "passive"}
    /\ adv \in BOOLEAN
    /\ reports \subseteq LePeers
    /\ link \in [Addrs -> {"down", "asked", "up"}]
    /\ handleOf \in [Addrs -> Handles \cup {0}]
    /\ naming \subseteq BrPeers
    /\ misled \subseteq Addrs
    /\ refused \subseteq LePeers

\* No device is ever given two slots.
OneSlotPerDevice ==
    \A i, j \in Slots :
        dev[i].found /\ dev[j].found /\ dev[i].addr = dev[j].addr => i = j

Linked(a) == link[a] = "up"
HasSlot(a) == \E i \in Slots : dev[i].found /\ dev[i].addr = a

(***************************************************************************)
(* Packets and events of a link carry its handle only: while the link of a *)
(* device that has a slot is up, its handle leads to that very slot, and a *)
(* slot that has a handle has its link up.  Handle 0, which the controller *)
(* may assign too, can lead to a slot that has no link instead, but never  *)
(* to that of another connected device.                                    *)
(***************************************************************************)
HandleFindsDevice ==
    /\ \A a \in Peers :
          Linked(a) /\ DevFromBdaddr(dev, a) # BT_NONE =>
              \E s \in Slots :
                  /\ s = DevFromHandle(dev, handleOf[a])
                  /\ dev[s].addr = a \/ (handleOf[a] = 0 /\ ~Linked(dev[s].addr))
    /\ \A i \in Slots : dev[i].found /\ dev[i].acl_handle # 0 => Linked(dev[i].addr)

\* The device of slot i is being connected to, or is connected; and when a
\* BR/EDR device is connected its name is known or has been asked for.
Attended(i) ==
    /\ link[dev[i].addr] \in {"asked", "up"}
    /\ dev[i].addr \in BrPeers /\ Linked(dev[i].addr) =>
          dev[i].named \/ dev[i].addr \in naming

\* No slot waits for an answer that will not come.
NoSlotStranded == \A i \in Slots : dev[i].found => Attended(i)

(***************************************************************************)
(* Two accidents strand a slot, and no other sequence of failures, retries *)
(* and departures does: the controller refused to make the LE connection   *)
(* (it was making another), or the link went down under handle 0 and the   *)
(* handler reset another slot in place of the device's own.                *)
(***************************************************************************)
StrandedByAccidentOnly ==
    \A i \in Slots : dev[i].found => Attended(i) \/ dev[i].addr \in misled \cup refused

\* The LE scan is off only while an LE connection is being made.
DeafOnlyWhileConnecting == scan = "off" => \E a \in LePeers : link[a] = "asked"

(***************************************************************************)
(* The handlers and sys_mgr_task race on inquiry_state, yet it never says  *)
(* (by the LED, and to the BOOT button) that an inquiry is going on when   *)
(* there is none, except while sys_mgr_task is about to start or stop it.  *)
(***************************************************************************)
InquiryStateTrue == inquiry_state => inquiring \/ mgr # "idle"

(***************************************************************************)
(* What makes the invariants above inductive: a slot has the handle of its *)
(* link and no other; no two links share a handle; a device that is        *)
(* reported is not connected.  A slot reset in place of another is that of *)
(* a device being connected to: as long as none was, whoever is being      *)
(* connected to over LE has a slot, and the scan comes back on.            *)
(***************************************************************************)
SlotsFollowLinks ==
    \A i \in Slots : dev[i].found =>
        /\ dev[i].addr \in Peers
        /\ dev[i].acl_handle = IF Linked(dev[i].addr) THEN handleOf[dev[i].addr] ELSE 0

HandlesDiffer ==
    \A a \in Addrs : Linked(a) =>
        /\ handleOf[a] \in Handles
        /\ \A b \in Addrs : Linked(b) /\ handleOf[b] = handleOf[a] => a = b

ReportsUnlinked == \A a \in reports : ~Linked(a)

LeAskedHasSlot == \A a \in LePeers : link[a] = "asked" => HasSlot(a)

IndInv ==
    /\ TypeOK
    /\ OneSlotPerDevice
    /\ SlotsFollowLinks
    /\ HandlesDiffer
    /\ ReportsUnlinked
    /\ misled = {} => LeAskedHasSlot /\ DeafOnlyWhileConnecting

\* When the last device goes, in INQ_AUTO mode, the adapter searches for devices again.
SearchResumes ==
    [][InqAuto /\ ActiveDev(dev) # BT_NONE /\ ActiveDev(dev') = BT_NONE =>
          inquiring' /\ inquiry_state' /\ scan' = "active"]_vars

(***************************************************************************)
(* A link that is up loses its slot to three failed name requests only.    *)
(* The host does not disconnect it, and bt_hci_evt_hdlr dereferences a     *)
(* null pointer if that device then asks for a link key or a PIN code.     *)
(***************************************************************************)
OrphanedByNameOnly ==
    [][\A a \in Peers :
          /\ link[a] = "up" /\ link'[a] = "up"
          /\ DevFromBdaddr(dev, a) # BT_NONE
          /\ DevFromBdaddr(dev', a) = BT_NONE
          => a \in naming \ naming' /\ dev[DevFromBdaddr(dev, a)].pkt_retry = BT_MAX_RETRY - 1]_vars

\* Connecting to a BR/EDR device ends: it is connected, or its slot is free again.
BrAttemptEnds ==
    \A a \in BrPeers :
        (link[a] = "asked" /\ DevFromBdaddr(dev, a) # BT_NONE) ~>
            (link[a] = "up" \/ DevFromBdaddr(dev, a) = BT_NONE)

=============================================================================
