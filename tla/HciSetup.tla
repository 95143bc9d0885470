------------------------------ MODULE HciSetup ------------------------------
(***************************************************************************)
(* The setup of the Bluetooth controller: the host walks through the       *)
(* command table bt_hci_config, one command per Command Complete event,    *)
(* with retries and restarts (bt_hci_q_conf, bt_hci_init and the Command   *)
(* Complete branch of bt_hci_evt_hdlr).  The branch does not know who sent *)
(* a command: the LE scan and advertising commands of the connection       *)
(* handlers move bt_config_state, and count as failures of it, as well.    *)
(*                                                                         *)
(* The controller (external) completes the commands in the order it got    *)
(* them, with success or with an error.                                    *)
(*                                                                         *)
(* Definitions marked as mutants are wrong on purpose, to see that a       *)
(* property notices the mistake.                                           *)
(***************************************************************************)
EXTENDS Integers, Sequences

CONSTANTS NCmds,         \* ARRAY_SIZE(bt_hci_config)
          LoadList,      \* the entry bt_hci_load_le_accept_list
          ScanEnable,    \* the entry after which devices can connect
          NKeys,         \* number of stored LE keys
          BT_MAX_RETRY,
          MaxErrors,     \* bound: commands the controller fails
          MaxRuntime     \* bound: commands sent by the connection handlers

Last == NCmds - 1        \* the entry bt_hci_start_inquiry_cfg_check

ASSUME SetupAssumption ==
    /\ {NCmds, LoadList, ScanEnable, NKeys, BT_MAX_RETRY, MaxErrors, MaxRuntime} \subseteq Nat
    /\ 2 <= LoadList /\ LoadList < ScanEnable /\ ScanEnable < Last

Keys == 0 .. NKeys - 1

VARIABLES bt_config_state,
          bt_hci_pkt_retry,
          index,         \* the static cursor of bt_host_get_next_accept_le_bdaddr
          pending,       \* the commands the controller has not completed, oldest first
          accept,        \* the accept list of the controller
          acked,         \* entries completed without error since the last restart
          shared,        \* commands of another origin were pending during the walk
          errors,        \* commands failed so far
          runtime        \* commands of the handlers so far

vars == <<bt_config_state, bt_hci_pkt_retry, index, pending, accept, acked, shared,
          errors, runtime>>

\* The walk through the table is over.
Done == bt_config_state > Last

\* A command of entry n of the table, of key n for the accept list, or of a handler.
Command(k, n) == [kind |-> k, n |-> n]

\* What an entry other than LoadList sends: the last one sets the LE scan up in three steps.
Commands(s) ==
    IF s > Last THEN <<>>
    ELSE IF s < Last THEN <<Command("setup", s)>>
    ELSE <<Command("setup", s), Command("setup", s), Command("setup", s)>>

Init ==
    /\ bt_config_state = 0
    /\ bt_hci_pkt_retry = 0
    /\ index = 0
    /\ pending = Commands(0)
    /\ accept = {}
    /\ acked = {}
    /\ shared = FALSE
    /\ errors = 0
    /\ runtime = 0

-----------------------------------------------------------------------------
\* The entry s of the table is called, the retry counter being r; rest is still pending.
Call(s, r, rest) ==
    IF s # LoadList
    THEN /\ bt_config_state' = s
         /\ bt_hci_pkt_retry' = r
         /\ pending' = rest \o Commands(s)
         /\ UNCHANGED index
    ELSE IF index < NKeys
    THEN /\ bt_config_state' = s
         /\ bt_hci_pkt_retry' = r
         /\ pending' = Append(rest, Command("add", index))
         /\ index' = index + 1
    ELSE /\ bt_config_state' = s + 1
         /\ bt_hci_pkt_retry' = 0
         /\ pending' = rest \o Commands(s + 1)
         /\ UNCHANGED index

\* bt_hci_q_conf(1): bt_config_state grows without bound; past the table it is all the same.
SameEntry == bt_config_state       \* mutant: the state is not incremented
NextEntry == IF bt_config_state > Last THEN bt_config_state ELSE bt_config_state + 1

\* bt_hci_q_conf(1) after a success.
Advance == Call(NextEntry, 0, Tail(pending))

\* BT_HCI_OP_LE_ADD_DEV_TO_WL: the next key, or the next entry; the retries are kept.
AddNextButLast ==                  \* mutant: off by one
    IF index < NKeys - 1
    THEN /\ pending' = Append(Tail(pending), Command("add", index))
         /\ index' = index + 1
         /\ UNCHANGED <<bt_config_state, bt_hci_pkt_retry>>
    ELSE Advance

AddNext ==
    IF index < NKeys
    THEN /\ pending' = Append(Tail(pending), Command("add", index))
         /\ index' = index + 1
         /\ UNCHANGED <<bt_config_state, bt_hci_pkt_retry>>
    ELSE Advance

\* What the controller has done when it reports success.
Perform(c) ==
    /\ accept' = IF c.kind = "add" THEN accept \cup {c.n}
                 ELSE IF c.kind = "setup" /\ c.n \in {0, LoadList - 1} THEN {}
                 ELSE accept
    /\ acked' = IF c.kind = "setup" THEN acked \cup {c.n} ELSE acked

\* Command Complete without an error, or with BT_HCI_ERR_UNKNOWN_CMD.
Succeed ==
    /\ pending # <<>>
    /\ Perform(Head(pending))
    /\ IF Head(pending).kind = "add" THEN AddNext ELSE Advance
    /\ UNCHANGED <<shared, errors, runtime>>

TooMany == bt_hci_pkt_retry + 1 > BT_MAX_RETRY

\* bt_hci_q_conf(0) after an error.
AgainSkipping ==                   \* mutant: bt_hci_q_conf(1)
    Call(NextEntry, bt_hci_pkt_retry + 1, Tail(pending))
Again == Call(bt_config_state, bt_hci_pkt_retry + 1, Tail(pending))

\* Command Complete with an error: again, or, after too many errors, all from the start.
Fail ==
    /\ pending # <<>>
    /\ errors < MaxErrors
    /\ errors' = errors + 1
    /\ IF TooMany
       THEN /\ Call(0, 0, Tail(pending))
            /\ acked' = {}
            /\ shared' = (shared \/ Tail(pending) # <<>>)
       ELSE Again /\ UNCHANGED <<acked, shared>>
    /\ UNCHANGED <<accept, runtime>>

\* A connection handler turns the LE scan or the advertisement on or off.
HandlerCommand ==
    /\ ScanEnable < bt_config_state
    /\ runtime < MaxRuntime
    /\ runtime' = runtime + 1
    /\ pending' = Append(pending, Command("runtime", 0))
    /\ shared' = (shared \/ ~Done)
    /\ UNCHANGED <<bt_config_state, bt_hci_pkt_retry, index, accept, acked, errors>>

Complete == Succeed \/ Fail

Next == Complete \/ HandlerCommand

Spec == Init /\ [][Next]_vars

\* The controller completes every command it gets.
FairSpec == Spec /\ WF_vars(Complete)

-----------------------------------------------------------------------------
(* Properties.                                                             *)

AnyCommand == [kind : {"setup", "runtime"}, n : 0 .. Last] \cup [kind : {"add"}, n : Keys]

TypeOK ==
    /\ bt_config_state \in 0 .. NCmds
    /\ bt_hci_pkt_retry \in 0 .. BT_MAX_RETRY
    /\ index \in 0 .. NKeys
    /\ pending \in Seq(AnyCommand)
    /\ accept \subseteq Keys
    /\ acked \subseteq 0 .. Last
    /\ shared \in BOOLEAN
    /\ errors \in 0 .. MaxErrors
    /\ runtime \in 0 .. MaxRuntime

(***************************************************************************)
(* When the setup is over, the controller has accepted every command of    *)
(* the table since the last restart, however many retries it took, unless  *)
(* the walk shared the controller with commands of a handler, or with its  *)
(* own from before a restart: a completion is then taken for another's,    *)
(* and a command that fails may never be sent again.                       *)
(***************************************************************************)
AllAcknowledged == Done /\ ~shared => 0 .. Last \ {LoadList} \subseteq acked

(***************************************************************************)
(* All bonded LE controllers are on the accept list after the setup if no  *)
(* command failed.  (One that failed is skipped, and a restart clears the  *)
(* list but does not rewind the cursor.)                                   *)
(***************************************************************************)
BondedAccepted == Done /\ errors = 0 => accept = Keys

(***************************************************************************)
(* What holds of the walk while it has the controller to itself.  Up to    *)
(* the LE scan of the last entry exactly one command is under way although *)
(* bt_hci_evt_hdlr ignores how many the controller is ready to take, it is *)
(* the one of the current entry, and all entries before it were accepted.  *)
(***************************************************************************)
CurrentOnly ==
    /\ bt_config_state < Last =>
         /\ Len(pending) = 1
         /\ IF bt_config_state = LoadList THEN Head(pending).kind = "add"
            ELSE Head(pending) = Command("setup", bt_config_state)
    /\ bt_config_state = Last =>
         \A i \in 1 .. Len(pending) : pending[i] = Command("setup", Last)

EarlierDone ==
    \A e \in 0 .. bt_config_state - 1 : e # LoadList /\ e <= Last => e \in acked

Walk == ~shared => CurrentOnly /\ EarlierDone

(***************************************************************************)
(* What holds of the accept list as long as no command failed: before the  *)
(* keys are loaded the cursor is at the start, while they are loaded the   *)
(* list is one key behind the cursor, and afterwards it is complete and no *)
(* command that changes it is under way any more.                          *)
(***************************************************************************)
Before == index = 0 /\ pending = <<Command("setup", bt_config_state)>>

During == index > 0 /\ pending = <<Command("add", index - 1)>> /\ accept = 0 .. index - 2

After ==
    /\ accept = Keys
    /\ \A i \in 1 .. Len(pending) :
         /\ pending[i].kind # "add"
         /\ pending[i].kind = "setup" => pending[i].n > LoadList

Loading ==
    errors = 0 =>
      /\ bt_config_state < LoadList => Before
      /\ bt_config_state = LoadList => During
      /\ bt_config_state > LoadList => After

IndInv == TypeOK /\ Walk /\ Loading

\* The setup ends, whatever the controller fails before it recovers.
SetupEnds == <>[]Done

=============================================================================
