------------------------------ MODULE LinkKeys ------------------------------
(***************************************************************************)
(* The keys of bonded controllers: an array in RAM, filled in turn, that   *)
(* is written to its file as a whole whenever an entry changes.  There is  *)
(* one for BR/EDR, which this module follows through renewals and losses   *)
(* of power, and one for LE, whose entries have two parts that come in two *)
(* messages (SmpPairing).                                                  *)
(*                                                                         *)
(* Definitions marked as mutants are wrong on purpose, to see that a       *)
(* property notices the mistake.                                           *)
(***************************************************************************)
EXTENDS Integers, FiniteSets

CONSTANTS Remotes,       \* the controllers, by their address
          NOBODY,        \* the address of an entry that is not used
          KeySlots,      \* the entries of an array
          MaxKeys,       \* bound: keys that are ever made
          MaxCuts        \* bound: losses of power

ASSUME LinkKeysAssumption ==
    /\ NOBODY \notin Remotes
    /\ KeySlots \in Nat \ {0}
    /\ MaxKeys \in Nat
    /\ MaxCuts \in Nat

Entries == 0 .. KeySlots - 1

\* Keys are numbered as they are made; key is the link key, or the LTK, and ident what LE adds to it.
BlankKey == [dev |-> NOBODY, key |-> 0, ident |-> 0]
BlankKeys == [index |-> 0, keys |-> [i \in Entries |-> BlankKey]]

\* Where an entry of a device is, or has to go.
Having(a, d) == {i \in Entries : a.keys[i].dev = d}
LastOf(S) == CHOOSE i \in S : \A j \in S : j <= i
IndexOfFresh(a, d) == a.index                              \* mutant: no entry is looked for
IndexOf(a, d) == IF Having(a, d) = {} THEN a.index ELSE LastOf(Having(a, d))

\* bt_host_store_link_key, bt_host_store_le_ltk and bt_host_store_le_ident, but for the file.
Moved(a, i) == IF i = a.index THEN (a.index + 1) % KeySlots ELSE a.index

Put(a, d, part, k) ==
    LET i == IndexOf(a, d)
    IN [index |-> Moved(a, i),
        keys  |-> [a.keys EXCEPT ![i] = [[@ EXCEPT ![part] = k] EXCEPT !.dev = d]]]

\* bt_host_load_link_key, bt_host_load_le_ltk
Find(a, d) == IF Having(a, d) = {} THEN BlankKey ELSE a.keys[LastOf(Having(a, d))]

-----------------------------------------------------------------------------
VARIABLES link_keys,     \* in RAM
          keys_file,     \* what its file brings of it: the entries that are missing stay zero
          latest,        \* per controller: its newest key
          made,          \* keys made so far
          cuts,
          spoilt         \* for the properties: the controllers whose entry, in RAM and in the file,
                         \* is not their newest key because a store failed

keyvars == <<link_keys, keys_file, latest, made, cuts, spoilt>>

KeysInit ==
    /\ link_keys = BlankKeys
    /\ keys_file = BlankKeys
    /\ latest = [d \in Remotes |-> 0]
    /\ made = 0
    /\ cuts = 0
    /\ spoilt = [ram |-> {}, file |-> {}]

\* The bytes of an array that get into its file before the flash is full or the power goes: the
\* index (n is not -1), n entries, and of the next one (half) the address and part of the key.
\* A part of an address is nobody's.
Written(a, n, half) ==
    [index |-> IF n < 0 THEN 0 ELSE a.index,
     keys  |-> [i \in Entries |-> IF i < n THEN a.keys[i]
                                  ELSE IF i = n /\ half THEN [a.keys[i] EXCEPT !.key = 0]
                                  ELSE BlankKey]]

HalfOf(a, n, half) == IF half /\ n \in Entries THEN {a.keys[n].dev} \cap Remotes ELSE {}

\* bt_host_store_keys_on_file, after a key of d has changed: nobody looks at how much was written,
\* which is all of it if n is KeySlots.
StoreKeys(d, n, half) ==
    /\ keys_file' = Written(link_keys', n, half)
    /\ spoilt' = [ram  |-> spoilt.ram \ {d},
                  file |-> (spoilt.ram \ {d}) \cup HalfOf(link_keys', n, half)]

\* fopen failed: the file keeps the array of before.
StoreNothing(d) ==
    /\ spoilt' = [ram  |-> spoilt.ram \ {d},
                  file |-> spoilt.file \cup (IF Having(keys_file, d) = {} THEN {} ELSE {d})]
    /\ UNCHANGED keys_file

\* BT_HCI_EVT_LINK_KEY_NOTIFY
LinkKeyNotify(d) ==
    /\ made < MaxKeys
    /\ made' = made + 1
    /\ latest' = [latest EXCEPT ![d] = made']
    /\ link_keys' = Put(link_keys, d, "key", made')
    /\ StoreNothing(d) \/ \E n \in -1 .. KeySlots, half \in BOOLEAN : StoreKeys(d, n, half)
    /\ UNCHANGED cuts

\* The power goes, at any moment, and bt_host_load_keys_from_file reads what there is, or cannot
\* open the file.
PowerCut ==
    /\ cuts < MaxCuts
    /\ cuts' = cuts + 1
    /\ \/ link_keys' = keys_file /\ spoilt' = [spoilt EXCEPT !.ram = spoilt.file]
       \/ link_keys' = BlankKeys /\ spoilt' = [spoilt EXCEPT !.ram = {}]
    /\ UNCHANGED <<keys_file, latest, made>>

KeysNext == (\E d \in Remotes : LinkKeyNotify(d)) \/ PowerCut

KeysSpec == KeysInit /\ [][KeysNext]_keyvars

-----------------------------------------------------------------------------
(* Properties.                                                             *)

KeyEntry == [dev : Remotes \cup {NOBODY}, key : 0 .. MaxKeys, ident : {0}]
KeyArray == [index : Entries, keys : [Entries -> KeyEntry]]

KeysTypeOK ==
    /\ link_keys \in KeyArray
    /\ keys_file \in KeyArray
    /\ latest \in [Remotes -> 0 .. MaxKeys]
    /\ made \in 0 .. MaxKeys
    /\ cuts \in 0 .. MaxCuts
    /\ spoilt \in [ram : SUBSET Remotes, file : SUBSET Remotes]

(***************************************************************************)
(* A controller that pages is answered with its newest key or with none,   *)
(* never with an older one that the controller has forgotten: through      *)
(* renewals, evictions, and stores that are cut short or fail.  Excepted   *)
(* is a controller of which the file that was read has an old key, since   *)
(* it could not be opened when the key was renewed, or half a key.  No     *)
(* controller has two entries.                                             *)
(***************************************************************************)
NewestKeyOrNone ==
    /\ \A d \in Remotes \ spoilt.ram : Having(link_keys, d) # {} => Find(link_keys, d).key = latest[d]
    /\ \A i, j \in Entries :
          link_keys.keys[i].dev = link_keys.keys[j].dev /\ i # j => link_keys.keys[i].dev = NOBODY

(***************************************************************************)
(* What keeps it: the array in RAM and the one that the file brings have   *)
(* one entry per controller, with its newest key, but for those that are   *)
(* spoilt there.                                                           *)
(***************************************************************************)
OnePerDevice(a) ==
    \A m, n \in Entries : a.keys[m].dev = a.keys[n].dev /\ m # n => a.keys[m].dev = NOBODY

Newest(a, keyOf, but) ==
    \A n \in Entries : a.keys[n].dev \in Remotes \ but => a.keys[n].key = keyOf[a.keys[n].dev]

KeysInv ==
    /\ KeysTypeOK
    /\ OnePerDevice(link_keys) /\ Newest(link_keys, latest, spoilt.ram)
    /\ OnePerDevice(keys_file) /\ Newest(keys_file, latest, spoilt.file)

=============================================================================
