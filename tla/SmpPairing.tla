----------------------------- MODULE SmpPairing -----------------------------
(***************************************************************************)
(* Pairing with BLE controllers.  What is random and what is encrypted is  *)
(* left to the Bluetooth controller, by commands that are answered in      *)
(* order; who asked, and how to go on, is kept in two rings, randq and     *)
(* encryptq, by slot.  An answer is for whatever is in the slot when it    *)
(* comes.                                                                  *)
(*                                                                         *)
(* A value is named by what it was made from; try numbers the pairings.    *)
(*                                                                         *)
(* Definitions marked as mutants are wrong on purpose, to see that a       *)
(* property notices the mistake.                                           *)
(***************************************************************************)
EXTENDS LinkKeys, Sequences

CONSTANTS Slots,         \* of bt_dev
          RingLen,       \* the entries randq and encryptq have room for
          MaxTries,      \* bound: pairings
          MaxErrors      \* bound: commands that fail

ASSUME SmpAssumption == RingLen \in Nat /\ MaxTries \in Nat /\ MaxErrors \in Nat

VARIABLES
    try, who,            \* per slot: the pairing or connection it is used for, and with whom; 0 if it is free
    mem,                 \* per slot: pres, rand, ltk and rdist of its struct bt_dev
    hid,                 \* per slot: bt_att_hid_init was called
    phase,               \* per slot: what the remote end does next
    conf,                \* per slot: the confirm value the remote end got
    ctrl,                \* the commands the Bluetooth controller has not answered
    randq, encryptq,
    le_keys,             \* bt_host_le_link_keys
    bond,                \* per remote: the pairing its keys are of
    tries, errors,
    \* For the properties:
    stale,               \* slots that were claimed while answers for their last link were outstanding
    trouble              \* what else went wrong

rings == <<ctrl, randq, encryptq>>
slots == <<try, who, mem, hid, phase, conf, stale>>
smpvars == <<slots, rings, le_keys, bond, tries, errors, trouble>>

NO_VALUE == [rand |-> <<0, 0>>, of |-> 0]
BlankMem == [pres |-> 0, rand |-> <<0, 0>>, ltk |-> NO_VALUE, rdist |-> 0]
ENC_KEY == 1

SmpInit ==
    /\ try = [s \in Slots |-> 0]
    /\ who = [s \in Slots |-> NOBODY]
    /\ mem = [s \in Slots |-> BlankMem]
    /\ hid = [s \in Slots |-> FALSE]
    /\ phase = [s \in Slots |-> "none"]
    /\ conf = [s \in Slots |-> NO_VALUE]
    /\ ctrl = <<>> /\ randq = <<>> /\ encryptq = <<>>
    /\ le_keys = BlankKeys
    /\ bond = [d \in Remotes |-> 0]
    /\ tries = 0 /\ errors = 0
    /\ stale = {} /\ trouble = {}

Say(s, p) == phase' = [phase EXCEPT ![s] = p]

-----------------------------------------------------------------------------
(* Asking the Bluetooth controller                                         *)

\* bt_hci_get_encrypt: without room in the ring nothing is asked, and nobody told.
GetEncrypt(s, cb, value) ==
    IF Len(encryptq) < RingLen
    THEN /\ encryptq' = Append(encryptq, [slot |-> s, cb |-> cb])
         /\ ctrl' = Append(ctrl, [op |-> "encrypt", value |-> value])
    ELSE UNCHANGED <<encryptq, ctrl>>

\* bt_hci_get_random, once for each half.
HalvesSwapped(s) == <<[slot |-> s, cb |-> "mrand_complete"], [slot |-> s, cb |-> "mrand_half"]>>  \* mutant
Halves(s) == <<[slot |-> s, cb |-> "mrand_half"], [slot |-> s, cb |-> "mrand_complete"]>>

GetRandomTwice(s) ==
    LET n == IF RingLen - Len(randq) < 2 THEN RingLen - Len(randq) ELSE 2
    IN /\ randq' = randq \o SubSeq(Halves(s), 1, n)
       /\ trouble' = IF n < 2 THEN trouble \cup {"full"} ELSE trouble
       /\ ctrl' = ctrl \o [i \in 1 .. n |-> [op |-> "rand", value |-> [rand |-> <<try[s], try[s]>>, of |-> 0]]]

-----------------------------------------------------------------------------
(* bt_smp_hdlr, and what starts it                                         *)

Claim(s, d) ==
    /\ try[s] = 0
    /\ \A t \in Slots : who[t] # d
    /\ tries < MaxTries
    /\ tries' = tries + 1
    /\ try' = [try EXCEPT ![s] = tries']
    /\ who' = [who EXCEPT ![s] = d]
    /\ mem' = [mem EXCEPT ![s] = BlankMem]
    /\ conf' = [conf EXCEPT ![s] = NO_VALUE]
    /\ stale' = IF \E q \in {randq, encryptq} : \E i \in 1 .. Len(q) : q[i].slot = s
                THEN stale \cup {s} ELSE stale \ {s}

\* BT_HCI_EVT_LE_CONN_COMPLETE of a controller that advertises itself: bt_smp_pairing_start
Connect(s, d) ==
    /\ Claim(s, d)
    /\ hid' = [hid EXCEPT ![s] = FALSE]
    /\ Say(s, "rsp")
    /\ UNCHANGED <<rings, le_keys, bond, errors, trouble>>

\* The same of one that calls for the adapter, and has a key.
Reconnect(s, d) ==
    /\ Having(le_keys, d) # {}
    /\ Claim(s, d)
    /\ hid' = [hid EXCEPT ![s] = TRUE]
    /\ LET e == Find(le_keys, d)
       IN Say(s, IF e.key = bond[d] /\ e.ident = bond[d] THEN "done" ELSE "refused")
    /\ UNCHANGED <<rings, le_keys, bond, errors, trouble>>

\* BT_SMP_CMD_PAIRING_RSP; the remote end may send its keys or not.
PairingRsp(s) ==
    /\ phase[s] = "rsp"
    /\ \E r \in {0, ENC_KEY} : mem' = [mem EXCEPT ![s].pres = try[s], ![s].rdist = r]
    /\ GetRandomTwice(s)
    /\ Say(s, "await confirm")
    /\ UNCHANGED <<try, who, stale, hid, conf, encryptq, le_keys, bond, tries, errors>>

\* BT_SMP_CMD_PAIRING_CONFIRM: the random value is sent, against which the remote end checks.
PairingConfirm(s) ==
    /\ phase[s] = "confirm"
    /\ Say(s, IF conf[s] = [rand |-> mem[s].rand, of |-> try[s]] THEN "random" ELSE "failed")
    /\ UNCHANGED <<try, who, stale, mem, hid, conf, rings, le_keys, bond, tries, errors, trouble>>

PairingRandomMute(s) ==            \* mutant: the keys of the remote end are always waited for
    /\ phase[s] = "random"
    /\ GetEncrypt(s, "stk_complete", [rand |-> mem[s].rand, of |-> try[s]])
    /\ Say(s, "await encryption")
    /\ UNCHANGED <<try, who, stale, mem, hid, conf, randq, le_keys, bond, tries, errors, trouble>>

\* BT_SMP_CMD_PAIRING_RANDOM; without keys to wait for the keys of this end are sent at once.
PairingRandom(s) ==
    /\ phase[s] = "random"
    /\ GetEncrypt(s, "stk_complete", [rand |-> mem[s].rand, of |-> try[s]])
    /\ hid' = [hid EXCEPT ![s] = @ \/ mem[s].rdist = 0]
    /\ Say(s, "await encryption")
    /\ UNCHANGED <<try, who, stale, mem, conf, randq, le_keys, bond, tries, errors, trouble>>

\* BT_SMP_CMD_ENCRYPT_INFO, ...
EncryptInfo(s) ==
    /\ phase[s] = "info"
    /\ le_keys' = Put(le_keys, who[s], "key", try[s])
    /\ bond' = [bond EXCEPT ![who[s]] = try[s]]
    /\ trouble' = IF \E t \in Slots \ {s} : phase[t] = "ident" /\ Having(le_keys', who[t]) = {}
                  THEN trouble \cup {"half a key"} ELSE trouble
    /\ Say(s, "ident")
    /\ UNCHANGED <<try, who, stale, mem, hid, conf, rings, tries, errors>>

MasterIdentFirst(s) ==             \* mutant: it goes where the next new key would go
    /\ phase[s] = "ident"
    /\ le_keys' = [le_keys EXCEPT !.keys[le_keys.index] = [dev |-> who[s], key |-> @.key, ident |-> try[s]]]
    /\ mem' = [mem EXCEPT ![s].rdist = 0]
    /\ hid' = [hid EXCEPT ![s] = TRUE]
    /\ Say(s, "done")
    /\ UNCHANGED <<try, who, stale, conf, rings, bond, tries, errors, trouble>>

\* ... BT_SMP_CMD_MASTER_IDENT
MasterIdent(s) ==
    /\ phase[s] = "ident"
    /\ le_keys' = Put(le_keys, who[s], "ident", try[s])
    /\ mem' = [mem EXCEPT ![s].rdist = 0]
    /\ hid' = [hid EXCEPT ![s] = TRUE]
    /\ Say(s, "done")
    /\ UNCHANGED <<try, who, stale, conf, rings, bond, tries, errors, trouble>>

\* BT_SMP_CMD_PAIRING_FAIL, at any point: it is printed.  The link stays, and the remote end sends
\* no more of this pairing.
PairingFail(s) ==
    /\ phase[s] \in {"rsp", "await confirm", "confirm", "random", "await encryption", "info", "ident"}
    /\ Say(s, "quit")
    /\ trouble' = IF phase[s] = "ident" THEN trouble \cup {"half a key"} ELSE trouble
    /\ UNCHANGED <<try, who, stale, mem, hid, conf, rings, le_keys, bond, tries, errors>>

\* BT_HCI_EVT_DISCONN_COMPLETE
LinkLost(s) ==
    /\ try[s] # 0
    /\ try' = [try EXCEPT ![s] = 0]
    /\ who' = [who EXCEPT ![s] = NOBODY]
    /\ mem' = [mem EXCEPT ![s] = BlankMem]
    /\ hid' = [hid EXCEPT ![s] = FALSE]
    /\ conf' = [conf EXCEPT ![s] = NO_VALUE]
    /\ Say(s, "none")
    /\ trouble' = IF phase[s] = "ident" THEN trouble \cup {"half a key"} ELSE trouble
    /\ UNCHANGED <<stale, rings, le_keys, bond, tries, errors>>

-----------------------------------------------------------------------------
(* BT_HCI_EVT_CMD_COMPLETE                                                 *)

NextIs(op) == ctrl # <<>> /\ Head(ctrl).op = op

\* BT_HCI_OP_LE_RAND: bt_smp_mrand_half, bt_smp_mrand_complete
RandDone ==
    /\ NextIs("rand") /\ randq # <<>>
    /\ LET s == Head(randq).slot
           v == Head(ctrl).value.rand[1]
       IN IF Head(randq).cb = "mrand_half"
          THEN mem' = [mem EXCEPT ![s].rand[1] = v] /\ ctrl' = Tail(ctrl) /\ UNCHANGED encryptq
          ELSE LET c1 == [rand |-> <<mem[s].rand[1], v>>, of |-> mem[s].pres]
               IN /\ mem' = [mem EXCEPT ![s].rand[2] = v, ![s].ltk = c1]
                  /\ IF Len(encryptq) < RingLen
                     THEN /\ encryptq' = Append(encryptq, [slot |-> s, cb |-> "confirm_half"])
                          /\ ctrl' = Append(Tail(ctrl), [op |-> "encrypt", value |-> c1])
                     ELSE ctrl' = Tail(ctrl) /\ UNCHANGED encryptq
    /\ randq' = Tail(randq)
    /\ UNCHANGED <<try, who, stale, hid, phase, conf, le_keys, bond, tries, errors, trouble>>

\* BT_HCI_OP_LE_ENCRYPT
Callback(cb) == encryptq # <<>> /\ Head(encryptq).cb = cb /\ NextIs("encrypt")

\* bt_smp_confirm_half: the second half of the function is asked for.
ConfirmHalf ==
    /\ Callback("confirm_half")
    /\ LET s == Head(encryptq).slot
       IN /\ mem' = [mem EXCEPT ![s].ltk = Head(ctrl).value]
          /\ encryptq' = Append(Tail(encryptq), [slot |-> s, cb |-> "confirm_complete"])
    /\ ctrl' = Append(Tail(ctrl), Head(ctrl))
    /\ UNCHANGED <<try, who, stale, hid, phase, conf, randq, le_keys, bond, tries, errors, trouble>>

\* bt_smp_confirm_complete: the confirm value goes to whoever is in the slot.
ConfirmComplete ==
    /\ Callback("confirm_complete")
    /\ LET s == Head(encryptq).slot
       IN /\ mem' = [mem EXCEPT ![s].ltk = Head(ctrl).value]
          /\ IF try[s] # 0 THEN conf' = [conf EXCEPT ![s] = Head(ctrl).value] ELSE UNCHANGED conf
          /\ Say(s, IF phase[s] = "await confirm" THEN "confirm" ELSE phase[s])
    /\ encryptq' = Tail(encryptq)
    /\ ctrl' = Tail(ctrl)
    /\ UNCHANGED <<try, who, stale, hid, randq, le_keys, bond, tries, errors, trouble>>

\* bt_smp_stk_complete: the link is encrypted with what came.
StkComplete ==
    /\ Callback("stk_complete")
    /\ LET s == Head(encryptq).slot
       IN /\ mem' = [mem EXCEPT ![s].ltk = Head(ctrl).value]
          /\ ctrl' = Append(Tail(ctrl), [op |-> "start", slot |-> s, of |-> try[s], value |-> Head(ctrl).value])
    /\ encryptq' = Tail(encryptq)
    /\ UNCHANGED <<try, who, stale, hid, phase, conf, randq, le_keys, bond, tries, errors, trouble>>

\* The link is encrypted, if both ends have the same key and the link is still there.
Encrypted ==
    /\ NextIs("start")
    /\ LET c == Head(ctrl)
           s == c.slot
           good == c.value = [rand |-> conf[s].rand, of |-> try[s]]
       IN IF try[s] # 0 /\ c.of = try[s] /\ phase[s] = "await encryption"
          THEN Say(s, IF ~good THEN "refused" ELSE IF mem[s].rdist = 0 THEN "done" ELSE "info")
          ELSE UNCHANGED phase
    /\ ctrl' = Tail(ctrl)
    /\ UNCHANGED <<try, who, stale, mem, hid, conf, randq, encryptq, le_keys, bond, tries, errors, trouble>>

\* A command fails: its entry stays in the ring, for the next answer.
CommandFails ==
    /\ errors < MaxErrors
    /\ ctrl # <<>> /\ Head(ctrl).op \in {"rand", "encrypt"}
    /\ errors' = errors + 1
    /\ trouble' = trouble \cup {"error"}
    /\ ctrl' = Tail(ctrl)
    /\ UNCHANGED <<slots, randq, encryptq, le_keys, bond, tries>>

Answers == RandDone \/ ConfirmHalf \/ ConfirmComplete \/ StkComplete \/ Encrypted
Remote(s) == PairingRsp(s) \/ PairingConfirm(s) \/ PairingRandom(s) \/ EncryptInfo(s) \/ MasterIdent(s)

SmpNext ==
    \/ \E s \in Slots, d \in Remotes : Connect(s, d) \/ Reconnect(s, d)
    \/ \E s \in Slots : PairingRsp(s) \/ PairingConfirm(s) \/ PairingRandom(s)
                        \/ EncryptInfo(s) \/ MasterIdent(s) \/ PairingFail(s) \/ LinkLost(s)
    \/ RandDone \/ ConfirmHalf \/ ConfirmComplete \/ StkComplete \/ Encrypted
    \/ CommandFails

SmpSpec == SmpInit /\ [][SmpNext]_smpvars

\* The Bluetooth controller answers its commands, and a remote end the host.
SmpFairness == WF_smpvars(Answers) /\ \A s \in Slots : WF_smpvars(Remote(s))

-----------------------------------------------------------------------------
(* Properties.                                                             *)

\* What the random values, the confirm values and the keys are named by.
Value == [rand : (0 .. MaxTries) \X (0 .. MaxTries), of : 0 .. MaxTries]
Mem == [pres : 0 .. MaxTries, rand : (0 .. MaxTries) \X (0 .. MaxTries), ltk : Value, rdist : {0, ENC_KEY}]
Phases == {"none", "rsp", "await confirm", "confirm", "random", "await encryption", "info", "ident",
           "done", "quit", "failed", "refused"}
RandEntry == [slot : Slots, cb : {"mrand_half", "mrand_complete"}]
EncryptEntry == [slot : Slots, cb : {"confirm_half", "confirm_complete", "stk_complete"}]
Command == [op : {"rand", "encrypt"}, value : Value]
           \cup [op : {"start"}, slot : Slots, of : 0 .. MaxTries, value : Value]
LeKeyArray ==
    [index : Entries,
     keys  : [Entries -> [dev : Remotes \cup {NOBODY}, key : 0 .. MaxTries, ident : 0 .. MaxTries]]]

SmpTypeOK ==
    /\ try \in [Slots -> 0 .. MaxTries]
    /\ who \in [Slots -> Remotes \cup {NOBODY}]
    /\ mem \in [Slots -> Mem]
    /\ hid \in [Slots -> BOOLEAN]
    /\ phase \in [Slots -> Phases]
    /\ conf \in [Slots -> Value]
    /\ stale \subseteq Slots
    /\ trouble \subseteq {"half a key", "full", "error"}
    /\ randq \in Seq(RandEntry) /\ Len(randq) <= RingLen
    /\ encryptq \in Seq(EncryptEntry) /\ Len(encryptq) <= RingLen
    /\ ctrl \in Seq(Command)
    /\ le_keys \in LeKeyArray
    /\ bond \in [Remotes -> 0 .. MaxTries]
    /\ tries \in 0 .. MaxTries /\ errors \in 0 .. MaxErrors

(***************************************************************************)
(* The random value that is sent to a remote end is the one its confirm    *)
(* value was made from, and the key its link is encrypted with is of the   *)
(* same pairing, although the answers of several pairings come through the *)
(* same two rings, and links are lost meanwhile: unless its slot was       *)
(* claimed with an answer for the link before outstanding, or a command    *)
(* failed, which leaves every later answer with the wrong entry.           *)
(***************************************************************************)
ConfirmsItsRandom ==
    \A s \in Slots : phase[s] \in {"failed", "refused"} => s \in stale \/ trouble # {}

(***************************************************************************)
(* The two parts of an LE key that come in two messages are of the same    *)
(* pairing, and the remote end's, unless its link was lost or it gave up   *)
(* between them, or so many others paired between them that the entry was  *)
(* evicted; wherever the index of the array is.                            *)
(***************************************************************************)
KeysOfOnePairing ==
    "half a key" \notin trouble =>
        \A d \in Remotes : Having(le_keys, d) # {} =>
            \/ Find(le_keys, d).key = bond[d] /\ Find(le_keys, d).ident = bond[d]
            \/ \E s \in Slots : who[s] = d /\ phase[s] = "ident"

(***************************************************************************)
(* A pairing leads to the discovery of the reports, or its link is lost or *)
(* the remote end says that it has failed, after which the adapter does    *)
(* nothing; with the same exceptions, and the one that randq was full,     *)
(* which takes more than two pairings at a time: then nobody asks again.   *)
(***************************************************************************)
PairingEnds ==
    \A s \in Slots :
        phase[s] = "rsp" ~> hid[s] \/ try[s] = 0 \/ phase[s] = "quit" \/ s \in stale \/ trouble # {}

(***************************************************************************)
(* What keeps these.  A slot is free, or used for one controller that no   *)
(* other slot is used for.                                                 *)
(***************************************************************************)
SlotsUsed ==
    \A s \in Slots :
        /\ try[s] <= tries
        /\ try[s] = 0 <=> who[s] = NOBODY
        /\ try[s] = 0 <=> phase[s] = "none"
        /\ \A t \in Slots : who[s] = who[t] /\ s # t => who[s] = NOBODY

\* An entry has the key of the last pairing, and its second part, unless that is still to come.
BondsStored ==
    /\ \A i \in Entries :
          LET e == le_keys.keys[i]
          IN e.dev # NOBODY =>
               /\ e.key = bond[e.dev]
               /\ e.ident = bond[e.dev] \/ \E s \in Slots : who[s] = e.dev /\ phase[s] = "ident"
    /\ \A s \in Slots :
          phase[s] = "ident" => try[s] = bond[who[s]] /\ Having(le_keys, who[s]) # {}

\* The commands of one kind in c and the entries of its ring go together, one by one and in order.
Pairing(q, c, op, Fits) ==
    \E f \in [1 .. Len(q) -> 1 .. Len(c)] :
        /\ \A i, j \in 1 .. Len(q) : i < j => f[i] < f[j]
        /\ \A k \in 1 .. Len(c) : c[k].op = op => \E i \in 1 .. Len(q) : f[i] = k
        /\ \A i \in 1 .. Len(q) : c[f[i]].op = op /\ <<q[i], c[f[i]]>> \in Fits

\* A slot in whose use nothing of its use before can come.
Sound(s) == try[s] # 0 /\ s \notin stale
ValueOf(t) == [rand |-> <<t, t>>, of |-> t]
Awaits(q, s) == \E i \in 1 .. Len(q) : q[i].slot = s
Left(q, s, cb) == \E i \in 1 .. Len(q) : q[i].slot = s /\ q[i].cb = cb
HalfFirst(q, s) ==
    \A i, j \in 1 .. Len(q) :
        q[i].slot = s /\ q[i].cb = "mrand_half" /\ q[j].slot = s /\ q[j].cb = "mrand_complete" => i < j

RandFits == {p \in RandEntry \X Command :
                Sound(p[1].slot) => p[2].value.rand = <<try[p[1].slot], try[p[1].slot]>>}
EncryptFits == {p \in EncryptEntry \X Command : Sound(p[1].slot) => p[2].value = ValueOf(try[p[1].slot])}

\* Its random value is made of two answers, the first for the first half, and all that is made of
\* it is of this pairing.
Progress(s) ==
    LET m == mem[s]
    IN /\ Awaits(randq, s) \/ Awaits(encryptq, s) => m.pres # 0
       /\ phase[s] = "rsp" => m.pres = 0
       /\ HalfFirst(randq, s)
       /\ m.pres # 0 =>
             /\ m.pres = try[s]
             /\ Left(randq, s, "mrand_half") \/ m.rand[1] = try[s]
             /\ Left(randq, s, "mrand_complete") \/ m.rand[2] = try[s]
       /\ Awaits(encryptq, s) => m.rand = <<try[s], try[s]>>
       /\ phase[s] \in {"confirm", "random", "await encryption"} =>
             m.pres # 0 /\ conf[s] = ValueOf(try[s]) /\ m.rand = <<try[s], try[s]>>
       /\ phase[s] \notin {"failed", "refused"}

\* A link is encrypted with the key of its own pairing.
StartsSound ==
    \A k \in 1 .. Len(ctrl) :
        LET c == ctrl[k]
        IN c.op = "start" => /\ c.of <= tries
                             /\ Sound(c.slot) /\ c.of = try[c.slot] => c.value = ValueOf(c.of)

RingsSound ==
    /\ Pairing(randq, ctrl, "rand", RandFits)
    /\ Pairing(encryptq, ctrl, "encrypt", EncryptFits)
    /\ \A s \in Slots : Sound(s) => Progress(s)
    /\ StartsSound

SmpInv ==
    /\ SmpTypeOK /\ SlotsUsed /\ OnePerDevice(le_keys)
    /\ "half a key" \notin trouble => BondsStored
    /\ trouble = {} => RingsSound

=============================================================================
