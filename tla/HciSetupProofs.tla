--------------------------- MODULE HciSetupProofs ---------------------------
(***************************************************************************)
(* Proofs about the setup of the controller for every table, number of     *)
(* keys, number of retries and number of failures.  IndInv is inductive;   *)
(* its part Walk follows the walk through the table, its part Loading the  *)
(* accept list.                                                            *)
(***************************************************************************)
EXTENDS HciSetup, TLAPS

\* The constants are natural numbers, and the entries are in the order of the table.
LEMMA ConstantFacts ==
    /\ NCmds \in Nat /\ Last \in Nat /\ NCmds = Last + 1
    /\ LoadList \in Nat /\ NKeys \in Nat /\ BT_MAX_RETRY \in Nat /\ MaxErrors \in Nat
    /\ MaxRuntime \in Nat
    /\ 2 <= LoadList /\ LoadList + 1 < Last
BY SetupAssumption DEF SetupAssumption, Last

\* What an entry of the table sends.
LEMMA CommandsFact ==
    ASSUME NEW s \in 0 .. NCmds
    PROVE  /\ Commands(s) \in Seq(AnyCommand)
           /\ s < Last => Commands(s) = <<Command("setup", s)>>
           /\ \A i \in 1 .. Len(Commands(s)) : Commands(s)[i] = Command("setup", s)
<1>1. s \in Int /\ (s \in 0 .. Last \/ s > Last)
  BY ConstantFacts
<1>2. CASE s > Last
  <2>1. Commands(s) = <<>>
    BY <1>2 DEF Commands
  <2>2. ~(s < Last)
    BY <1>2, ConstantFacts
  <2> QED
    BY <2>1, <2>2
<1>3. CASE s < Last
  <2>1. Commands(s) = <<Command("setup", s)>>
    BY <1>3, ConstantFacts DEF Commands
  <2>2. Command("setup", s) \in AnyCommand
    BY <1>3, ConstantFacts DEF Command, AnyCommand
  <2> QED
    BY <2>1, <2>2
<1>4. CASE s = Last
  <2>1. Commands(s) = <<Command("setup", s), Command("setup", s), Command("setup", s)>>
    BY <1>4, ConstantFacts DEF Commands
  <2>2. Command("setup", s) \in AnyCommand
    BY <1>4, ConstantFacts DEF Command, AnyCommand
  <2>3. ~(s < Last)
    BY <1>4, ConstantFacts
  <2> QED
    BY <2>1, <2>2, <2>3
<1> QED
  BY <1>2, <1>3, <1>4, ConstantFacts

\* Elements of a sequence without its first element, and of two sequences put together.
LEMMA TailFact ==
    ASSUME NEW S, NEW q \in Seq(S), q # <<>>
    PROVE  /\ Tail(q) \in Seq(S) /\ Head(q) \in S /\ Head(q) = q[1]
           /\ Len(q) \in Nat /\ Len(q) > 0 /\ Len(Tail(q)) = Len(q) - 1
           /\ \A i \in 1 .. Len(Tail(q)) : Tail(q)[i] = q[i + 1] /\ i + 1 \in 1 .. Len(q)
OBVIOUS

LEMMA ConcatFact ==
    ASSUME NEW S, NEW q \in Seq(S), NEW t \in Seq(S)
    PROVE  /\ q \o t \in Seq(S)
           /\ Len(q \o t) = Len(q) + Len(t)
           /\ \A i \in 1 .. Len(q \o t) :
                \/ (i \in 1 .. Len(q) /\ (q \o t)[i] = q[i])
                \/ (i - Len(q) \in 1 .. Len(t) /\ (q \o t)[i] = t[i - Len(q)])
OBVIOUS

LEMMA EmptyFact ==
    ASSUME NEW S, NEW q \in Seq(S), Len(q) = 0
    PROVE  /\ q = <<>>
           /\ \A t \in Seq(S) : q \o t = t
           /\ \A e \in S : Append(q, e) = <<e>>
OBVIOUS

-----------------------------------------------------------------------------
\* Calling an entry of the table keeps the types of what it assigns.
LEMMA CallTypes ==
    ASSUME TypeOK, NEW s \in 0 .. NCmds, NEW r \in 0 .. BT_MAX_RETRY,
           NEW rest \in Seq(AnyCommand), Call(s, r, rest)
    PROVE  /\ bt_config_state' \in 0 .. NCmds
           /\ bt_hci_pkt_retry' \in 0 .. BT_MAX_RETRY
           /\ pending' \in Seq(AnyCommand)
           /\ index' \in 0 .. NKeys
<1>1. CASE s # LoadList
  <2>1. Commands(s) \in Seq(AnyCommand)
    BY CommandsFact
  <2>2. rest \o Commands(s) \in Seq(AnyCommand)
    BY <2>1, ConcatFact
  <2> QED
    BY <1>1, <2>2 DEF Call, TypeOK
<1>2. CASE s = LoadList /\ index < NKeys
  <2>1. index \in Keys /\ index + 1 \in 0 .. NKeys
    BY <1>2, ConstantFacts DEF TypeOK, Keys
  <2>2. Command("add", index) \in AnyCommand
    BY <2>1 DEF Command, AnyCommand
  <2> QED
    BY <1>2, <2>1, <2>2 DEF Call, TypeOK
<1>3. CASE s = LoadList /\ ~(index < NKeys)
  <2>1. s + 1 \in 0 .. NCmds
    BY <1>3, ConstantFacts
  <2>2. Commands(s + 1) \in Seq(AnyCommand)
    BY <2>1, CommandsFact
  <2>3. rest \o Commands(s + 1) \in Seq(AnyCommand)
    BY <2>2, ConcatFact
  <2>4. /\ bt_config_state' = s + 1 /\ bt_hci_pkt_retry' = 0
        /\ pending' = rest \o Commands(s + 1) /\ index' = index
    BY <1>3 DEF Call
  <2>5. 0 \in 0 .. BT_MAX_RETRY /\ index \in 0 .. NKeys
    BY ConstantFacts DEF TypeOK
  <2> QED
    BY <2>1, <2>3, <2>4, <2>5
<1> QED
  BY <1>1, <1>2, <1>3

\* The entry after the current one.
LEMMA NextEntryFact ==
    ASSUME TypeOK
    PROVE  /\ NextEntry \in 0 .. NCmds
           /\ bt_config_state <= Last => NextEntry = bt_config_state + 1
           /\ bt_config_state > Last => NextEntry = bt_config_state /\ bt_config_state = NCmds
BY ConstantFacts DEF TypeOK, NextEntry

\* The command that is completed, and those after it.
LEMMA PendingFact ==
    ASSUME TypeOK, pending # <<>>
    PROVE  /\ Tail(pending) \in Seq(AnyCommand)
           /\ Head(pending) \in AnyCommand
           /\ Head(pending) = pending[1]
           /\ Len(pending) \in Nat /\ Len(pending) > 0
           /\ Len(Tail(pending)) = Len(pending) - 1
           /\ \A i \in 1 .. Len(Tail(pending)) :
                Tail(pending)[i] = pending[i + 1] /\ i + 1 \in 1 .. Len(pending)
BY TailFact DEF TypeOK

\* What follows a success: the next key, or the next entry.
LEMMA AddNextTypes ==
    ASSUME TypeOK, pending # <<>>, AddNext \/ Advance
    PROVE  /\ bt_config_state' \in 0 .. NCmds
           /\ bt_hci_pkt_retry' \in 0 .. BT_MAX_RETRY
           /\ pending' \in Seq(AnyCommand)
           /\ index' \in 0 .. NKeys
<1>1. CASE Advance
  <2>1. 0 \in 0 .. BT_MAX_RETRY /\ NextEntry \in 0 .. NCmds /\ Tail(pending) \in Seq(AnyCommand)
    BY NextEntryFact, PendingFact, ConstantFacts
  <2>2. Call(NextEntry, 0, Tail(pending))
    BY <1>1 DEF Advance
  <2> QED
    BY <2>1, <2>2, CallTypes
<1>2. CASE AddNext /\ index < NKeys
  <2>1. index \in Keys /\ index + 1 \in 0 .. NKeys
    BY <1>2, ConstantFacts DEF TypeOK, Keys
  <2>2. Command("add", index) \in AnyCommand
    BY <2>1 DEF Command, AnyCommand
  <2> QED
    BY <1>2, <2>1, <2>2, PendingFact DEF AddNext, TypeOK
<1> QED
  BY <1>1, <1>2 DEF AddNext

\* Every step keeps the types.
LEMMA TypeKept == TypeOK /\ [Next]_vars => TypeOK'
<1> SUFFICES ASSUME TypeOK, [Next]_vars PROVE TypeOK'
  OBVIOUS
<1>1. CASE Succeed
  <2>1. AddNext \/ Advance
    BY <1>1 DEF Succeed
  <2>2. accept' \subseteq Keys /\ acked' \subseteq 0 .. Last
    BY <1>1, PendingFact DEF Succeed, Perform, TypeOK, AnyCommand
  <2> QED
    BY <1>1, <2>1, <2>2, AddNextTypes DEF Succeed, TypeOK
<1>2. CASE Fail
  <2>0. /\ pending # <<>>
        /\ errors' \in 0 .. MaxErrors /\ accept' \subseteq Keys /\ runtime' \in 0 .. MaxRuntime
    BY <1>2, ConstantFacts DEF Fail, TypeOK
  <2>1. CASE TooMany
    <3>1. Call(0, 0, Tail(pending))
      BY <1>2, <2>1 DEF Fail
    <3>2. 0 \in 0 .. NCmds /\ 0 \in 0 .. BT_MAX_RETRY /\ Tail(pending) \in Seq(AnyCommand)
      BY <2>0, PendingFact, ConstantFacts
    <3>3. acked' \subseteq 0 .. Last /\ shared' \in BOOLEAN
      BY <1>2, <2>1 DEF Fail, TypeOK
    <3> QED
      BY <2>0, <3>1, <3>2, <3>3, CallTypes DEF TypeOK
  <2>2. CASE ~TooMany
    <3>1. Call(bt_config_state, bt_hci_pkt_retry + 1, Tail(pending))
      BY <1>2, <2>2 DEF Fail, Again
    <3>2. bt_hci_pkt_retry + 1 \in 0 .. BT_MAX_RETRY
      BY <2>2, ConstantFacts DEF TooMany, TypeOK
    <3>3. Tail(pending) \in Seq(AnyCommand) /\ bt_config_state \in 0 .. NCmds
      BY <2>0, PendingFact DEF TypeOK
    <3>4. acked' \subseteq 0 .. Last /\ shared' \in BOOLEAN
      BY <1>2, <2>2 DEF Fail, TypeOK
    <3> QED
      BY <2>0, <3>1, <3>2, <3>3, <3>4, CallTypes DEF TypeOK
  <2> QED
    BY <2>1, <2>2
<1>3. CASE HandlerCommand
  <2>1. Command("runtime", 0) \in AnyCommand
    BY ConstantFacts DEF Command, AnyCommand
  <2> QED
    BY <1>3, <2>1, ConstantFacts DEF HandlerCommand, TypeOK
<1>4. CASE UNCHANGED vars
  BY <1>4 DEF vars, TypeOK
<1> QED
  BY <1>1, <1>2, <1>3, <1>4 DEF Next, Complete

-----------------------------------------------------------------------------
\* The entry that is called becomes the only one under way.
LEMMA CallWalk ==
    ASSUME TypeOK, NEW s \in 0 .. NCmds, NEW r, NEW rest \in Seq(AnyCommand), Call(s, r, rest),
           s < Last => rest = <<>>,
           s = Last => \A i \in 1 .. Len(rest) : rest[i] = Command("setup", Last)
    PROVE  /\ CurrentOnly'
           /\ bt_config_state' = s \/ (s = LoadList /\ bt_config_state' = s + 1)
<1>1. CASE s # LoadList
  <2>1. bt_config_state' = s /\ pending' = rest \o Commands(s)
    BY <1>1 DEF Call
  <2>2. Commands(s) \in Seq(AnyCommand)
    BY CommandsFact
  <2>3. CASE s < Last
    <3>1. Commands(s) = <<Command("setup", s)>>
      BY <2>3, CommandsFact
    <3>2. pending' = <<Command("setup", s)>>
      BY <2>1, <2>2, <2>3, <3>1, EmptyFact
    <3> QED
      BY <1>1, <2>1, <2>3, <3>2, ConstantFacts DEF CurrentOnly
  <2>4. CASE s = Last
    <3>1. \A i \in 1 .. Len(Commands(s)) : Commands(s)[i] = Command("setup", Last)
      BY <2>4, CommandsFact
    <3>2. \A i \in 1 .. Len(pending') : pending'[i] = Command("setup", Last)
      BY <2>1, <2>2, <2>4, <3>1, ConcatFact
    <3> QED
      BY <2>1, <2>4, <3>2, ConstantFacts DEF CurrentOnly
  <2>5. CASE s > Last
    BY <2>1, <2>5, ConstantFacts DEF CurrentOnly
  <2> QED
    BY <2>1, <2>3, <2>4, <2>5, ConstantFacts
<1>2. CASE s = LoadList /\ index < NKeys
  <2>1. bt_config_state' = s /\ pending' = Append(rest, Command("add", index)) /\ rest = <<>>
    BY <1>2, ConstantFacts DEF Call
  <2>2. pending' = <<Command("add", index)>>
    BY <2>1 DEF Command
  <2>3. Len(pending') = 1 /\ Head(pending').kind = "add"
    BY <2>2 DEF Command
  <2> QED
    BY <1>2, <2>1, <2>3, ConstantFacts DEF CurrentOnly
<1>3. CASE s = LoadList /\ ~(index < NKeys)
  <2>1. bt_config_state' = s + 1 /\ pending' = rest \o Commands(s + 1) /\ rest = <<>>
    BY <1>3, ConstantFacts DEF Call
  <2>2. s + 1 \in 0 .. NCmds /\ s + 1 < Last /\ s + 1 # LoadList
    BY <1>3, ConstantFacts
  <2>3. Commands(s + 1) \in Seq(AnyCommand) /\ Commands(s + 1) = <<Command("setup", s + 1)>>
    BY <2>2, CommandsFact
  <2>4. pending' = <<Command("setup", s + 1)>>
    BY <2>1, <2>3, EmptyFact
  <2> QED
    BY <1>3, <2>1, <2>2, <2>4, ConstantFacts DEF CurrentOnly
<1> QED
  BY <1>1, <1>2, <1>3

\* A walk that has the controller to itself goes from one entry to the next.
LEMMA WalkKept == TypeOK /\ Walk /\ [Next]_vars => Walk'
<1> SUFFICES ASSUME TypeOK, Walk, [Next]_vars, ~shared'
             PROVE  CurrentOnly' /\ EarlierDone'
  BY DEF Walk
<1>0. ~shared /\ CurrentOnly /\ EarlierDone
  <2>1. ~shared
    <3>1. CASE Succeed
      BY <3>1 DEF Succeed
    <3>2. CASE Fail
      BY <3>2 DEF Fail
    <3>3. CASE HandlerCommand
      BY <3>3 DEF HandlerCommand
    <3>4. CASE UNCHANGED vars
      BY <3>4 DEF vars
    <3> QED
      BY <3>1, <3>2, <3>3, <3>4 DEF Next, Complete
  <2> QED
    BY <2>1 DEF Walk
<1>1. CASE Succeed
  <2>0. /\ pending # <<>> /\ Perform(Head(pending))
        /\ IF Head(pending).kind = "add" THEN AddNext ELSE Advance
    BY <1>1 DEF Succeed
  <2>1. acked \subseteq acked' /\ (Head(pending).kind = "setup" => Head(pending).n \in acked')
    BY <2>0 DEF Perform
  <2>2. bt_config_state \in 0 .. Last /\ bt_config_state # LoadList => bt_config_state \in acked'
    <3>1. CASE bt_config_state < Last
      BY <1>0, <2>1, <3>1 DEF CurrentOnly, Command
    <3>2. CASE bt_config_state = Last
      BY <1>0, <2>0, <2>1, <3>2, PendingFact DEF CurrentOnly, Command
    <3> QED
      BY <3>1, <3>2, ConstantFacts DEF TypeOK
  <2>3. CASE Advance
    <3>1. Call(NextEntry, 0, Tail(pending))
      BY <2>3 DEF Advance
    <3>2. NextEntry \in 0 .. NCmds /\ Tail(pending) \in Seq(AnyCommand)
      BY <2>0, NextEntryFact, PendingFact
    <3>3. NextEntry < Last => Tail(pending) = <<>>
      <4>1. NextEntry < Last => bt_config_state < Last
        BY NextEntryFact, ConstantFacts DEF TypeOK
      <4>2. bt_config_state < Last => Len(Tail(pending)) = 0
        BY <1>0, <2>0, PendingFact DEF CurrentOnly
      <4> QED
        BY <3>2, <4>1, <4>2, EmptyFact
    <3>4. NextEntry = Last =>
            \A i \in 1 .. Len(Tail(pending)) : Tail(pending)[i] = Command("setup", Last)
      <4>1. NextEntry = Last => bt_config_state < Last
        BY NextEntryFact, ConstantFacts DEF TypeOK
      <4>2. bt_config_state < Last => Len(Tail(pending)) = 0
        BY <1>0, <2>0, PendingFact DEF CurrentOnly
      <4> QED
        BY <4>1, <4>2
    <3>5. /\ CurrentOnly'
          /\ \/ bt_config_state' = NextEntry
             \/ (NextEntry = LoadList /\ bt_config_state' = NextEntry + 1)
      BY <3>1, <3>2, <3>3, <3>4, CallWalk
    <3>6. \A e \in 0 .. bt_config_state' - 1 : e # LoadList /\ e <= Last => e \in acked'
      <4> SUFFICES ASSUME NEW e \in 0 .. bt_config_state' - 1, e # LoadList, e <= Last
                   PROVE  e \in acked'
        OBVIOUS
      <4>1. e \in 0 .. bt_config_state - 1 \/ (e = bt_config_state /\ e \in 0 .. Last)
        BY <3>5, NextEntryFact, ConstantFacts DEF TypeOK
      <4> QED
        BY <1>0, <2>1, <2>2, <4>1 DEF EarlierDone
    <3> QED
      BY <3>5, <3>6 DEF EarlierDone
  <2>4. CASE AddNext /\ index < NKeys
    <3>1. /\ pending' = Append(Tail(pending), Command("add", index))
          /\ bt_config_state' = bt_config_state
      BY <2>4 DEF AddNext
    <3>2. CASE ~Advance /\ bt_config_state < Last
      <4>1. Head(pending).kind = "add"
        BY <2>0, <3>2
      <4>2. bt_config_state = LoadList
        BY <1>0, <3>2, <4>1 DEF CurrentOnly, Command
      <4>3. Len(Tail(pending)) = 0 /\ Tail(pending) \in Seq(AnyCommand)
        BY <1>0, <2>0, <3>2, PendingFact DEF CurrentOnly
      <4>4. Tail(pending) = <<>>
        BY <4>3, EmptyFact
      <4>5. pending' = Append(<<>>, Command("add", index))
        BY <3>1, <4>4
      <4>6. Len(pending') = 1 /\ Head(pending').kind = "add"
        BY <4>5 DEF Command
      <4> QED
        BY <1>0, <2>1, <3>1, <4>2, <4>6, ConstantFacts DEF CurrentOnly, EarlierDone
    <3>3. CASE ~Advance /\ bt_config_state = Last
      <4>1. Head(pending).kind = "add"
        BY <2>0, <3>3
      <4>2. Head(pending).kind = "setup"
        BY <1>0, <2>0, <3>3, PendingFact DEF CurrentOnly, Command
      <4> QED
        BY <4>1, <4>2
    <3>4. CASE ~Advance /\ bt_config_state > Last
      BY <1>0, <2>1, <3>1, <3>4, ConstantFacts DEF CurrentOnly, EarlierDone, TypeOK
    <3> QED
      BY <2>3, <3>2, <3>3, <3>4, ConstantFacts DEF TypeOK
  <2> QED
    BY <2>0, <2>3, <2>4 DEF AddNext
<1>2. CASE Fail
  <2>0. pending # <<>> /\ Tail(pending) \in Seq(AnyCommand)
    BY <1>2, PendingFact DEF Fail
  <2>1. CASE TooMany
    <3>1. Call(0, 0, Tail(pending)) /\ Tail(pending) = <<>>
      BY <1>2, <2>1 DEF Fail
    <3>2. 0 \in 0 .. NCmds /\ 0 # Last /\ 0 # LoadList
      BY ConstantFacts
    <3>3. CurrentOnly' /\ bt_config_state' = 0
      BY <2>0, <3>1, <3>2, CallWalk
    <3> QED
      BY <3>3 DEF EarlierDone
  <2>2. CASE ~TooMany
    <3>1. Call(bt_config_state, bt_hci_pkt_retry + 1, Tail(pending)) /\ acked' = acked
      BY <1>2, <2>2 DEF Fail, Again
    <3>2. bt_config_state < Last => Tail(pending) = <<>>
      <4>1. bt_config_state < Last => Len(Tail(pending)) = 0
        BY <1>0, <2>0, PendingFact DEF CurrentOnly
      <4> QED
        BY <2>0, <4>1, EmptyFact
    <3>3. bt_config_state = Last =>
            \A i \in 1 .. Len(Tail(pending)) : Tail(pending)[i] = Command("setup", Last)
      BY <1>0, <2>0, PendingFact DEF CurrentOnly
    <3>4. bt_config_state \in 0 .. NCmds
      BY DEF TypeOK
    <3>5. /\ CurrentOnly'
          /\ \/ bt_config_state' = bt_config_state
             \/ (bt_config_state = LoadList /\ bt_config_state' = bt_config_state + 1)
      BY <2>0, <3>1, <3>2, <3>3, <3>4, CallWalk
    <3>6. \A e \in 0 .. bt_config_state' - 1 : e # LoadList => e \in 0 .. bt_config_state - 1
      BY <3>4, <3>5, ConstantFacts
    <3> QED
      BY <1>0, <3>1, <3>5, <3>6 DEF EarlierDone
  <2> QED
    BY <2>1, <2>2
<1>3. CASE HandlerCommand
  <2>1. bt_config_state > Last /\ bt_config_state' = bt_config_state /\ acked' = acked
    BY <1>3 DEF HandlerCommand, Done
  <2> QED
    BY <1>0, <2>1, ConstantFacts DEF CurrentOnly, EarlierDone, TypeOK
<1>4. CASE UNCHANGED vars
  BY <1>0, <1>4 DEF vars, CurrentOnly, EarlierDone
<1> QED
  BY <1>1, <1>2, <1>3, <1>4 DEF Next, Complete

-----------------------------------------------------------------------------
\* As long as no command fails, the cursor and the accept list go together.
LEMMA LoadingKept == TypeOK /\ Loading /\ [Next]_vars => Loading'
<1> SUFFICES ASSUME TypeOK, Loading, [Next]_vars, errors' = 0
             PROVE  /\ bt_config_state' < LoadList => Before'
                    /\ bt_config_state' = LoadList => During'
                    /\ bt_config_state' > LoadList => After'
  BY DEF Loading
<1>1. CASE Succeed
  <2>0. /\ pending # <<>> /\ Perform(Head(pending)) /\ errors = 0
        /\ IF Head(pending).kind = "add" THEN AddNext ELSE Advance
    BY <1>1 DEF Succeed
  <2>1. CASE bt_config_state < LoadList
    <3>1. /\ index = 0 /\ pending = <<Command("setup", bt_config_state)>>
          /\ bt_config_state \in 0 .. Last /\ NextEntry = bt_config_state + 1
          /\ NextEntry \in 0 .. NCmds /\ NextEntry < Last /\ NextEntry <= LoadList
      BY <2>0, <2>1, NextEntryFact, ConstantFacts DEF Loading, Before, TypeOK
    <3>2. Head(pending) = Command("setup", bt_config_state) /\ Tail(pending) = <<>>
      BY <3>1 DEF Command
    <3>3. Head(pending).kind = "setup" /\ Head(pending).n = bt_config_state
      BY <3>2 DEF Command
    <3>4. Advance
      BY <2>0, <3>3
    <3>5. Call(NextEntry, 0, <<>>)
      BY <3>2, <3>4 DEF Advance
    <3>6. NextEntry = LoadList => accept' = {}
      BY <2>0, <3>1, <3>3, ConstantFacts DEF Perform
    <3>7. CASE NextEntry < LoadList
      <4>1. bt_config_state' = NextEntry /\ pending' = <<>> \o Commands(NextEntry) /\ index' = 0
        BY <3>1, <3>5, <3>7, ConstantFacts DEF Call
      <4>2. <<>> \in Seq(AnyCommand) /\ Commands(NextEntry) = <<Command("setup", NextEntry)>>
        BY <3>1, CommandsFact
      <4>3. pending' = <<Command("setup", NextEntry)>>
        BY <3>1, <4>1, <4>2, CommandsFact, EmptyFact
      <4> QED
        BY <3>1, <3>7, <4>1, <4>3, ConstantFacts DEF Before
    <3>8. CASE NextEntry = LoadList /\ index < NKeys
      <4>1. /\ bt_config_state' = LoadList /\ pending' = Append(<<>>, Command("add", 0))
            /\ index' = 1
        BY <3>1, <3>5, <3>8 DEF Call
      <4>2. pending' = <<Command("add", index' - 1)>>
        BY <4>1 DEF Command
      <4>3. accept' = 0 .. index' - 2
        BY <3>6, <3>8, <4>1
      <4> QED
        BY <4>1, <4>2, <4>3, ConstantFacts DEF During
    <3>9. CASE NextEntry = LoadList /\ ~(index < NKeys)
      <4>1. /\ bt_config_state' = LoadList + 1
            /\ pending' = <<>> \o Commands(LoadList + 1)
        BY <3>5, <3>9 DEF Call
      <4>2. LoadList + 1 \in 0 .. NCmds /\ LoadList + 1 < Last /\ <<>> \in Seq(AnyCommand)
        BY ConstantFacts
      <4>3. pending' = <<Command("setup", LoadList + 1)>>
        BY <4>1, <4>2, CommandsFact, EmptyFact
      <4>4. accept' = Keys
        BY <3>1, <3>6, <3>9, ConstantFacts DEF Keys
      <4> QED
        BY <4>1, <4>3, <4>4, ConstantFacts DEF After, Command
    <3> QED
      BY <3>1, <3>7, <3>8, <3>9, ConstantFacts DEF TypeOK
  <2>2. CASE bt_config_state = LoadList
    <3>1. During /\ index \in 1 .. NKeys
      BY <2>0, <2>2, ConstantFacts DEF Loading, During, TypeOK
    <3>2. Head(pending) = Command("add", index - 1) /\ Tail(pending) = <<>>
      BY <3>1 DEF During, Command
    <3>3. accept' = 0 .. index - 1
      <4>1. Head(pending).kind = "add" /\ Head(pending).n = index - 1
        BY <3>2 DEF Command
      <4>2. accept' = accept \cup {index - 1}
        BY <2>0, <4>1 DEF Perform
      <4> QED
        BY <3>1, <4>2 DEF During
    <3>4. AddNext
      <4>1. Head(pending).kind = "add"
        BY <3>2 DEF Command
      <4> QED
        BY <2>0, <4>1
    <3>5. CASE index < NKeys
      <4>1. /\ pending' = Append(<<>>, Command("add", index)) /\ index' = index + 1
            /\ bt_config_state' = LoadList
        BY <2>2, <3>2, <3>4, <3>5 DEF AddNext
      <4>2. index' - 1 = index /\ index' - 2 = index - 1 /\ index' > 0
        BY <3>1, <4>1, ConstantFacts
      <4>3. pending' = <<Command("add", index' - 1)>>
        BY <4>1, <4>2 DEF Command
      <4> QED
        BY <3>3, <4>1, <4>2, <4>3, ConstantFacts DEF During
    <3>6. CASE ~(index < NKeys)
      <4>1. NextEntry = LoadList + 1 /\ LoadList + 1 \in 0 .. NCmds /\ LoadList + 1 < Last
        BY <2>2, NextEntryFact, ConstantFacts
      <4>2. Call(LoadList + 1, 0, <<>>)
        BY <3>2, <3>4, <3>6, <4>1 DEF AddNext, Advance
      <4>3. bt_config_state' = LoadList + 1 /\ pending' = <<>> \o Commands(LoadList + 1)
        BY <4>2, ConstantFacts DEF Call
      <4>4. pending' = <<Command("setup", LoadList + 1)>>
        BY <4>1, <4>3, CommandsFact, EmptyFact
      <4>5. accept' = Keys
        BY <3>1, <3>3, <3>6, ConstantFacts DEF Keys
      <4> QED
        BY <4>3, <4>4, <4>5, ConstantFacts DEF After, Command
    <3> QED
      BY <3>5, <3>6
  <2>3. CASE bt_config_state > LoadList
    <3>1. After
      BY <2>0, <2>3 DEF Loading
    <3>2. /\ Head(pending).kind # "add"
          /\ Head(pending).kind = "setup" => Head(pending).n > LoadList
      BY <2>0, <3>1, PendingFact DEF After
    <3>3. accept' = Keys
      BY <2>0, <3>1, <3>2, ConstantFacts DEF Perform, After
    <3>4. Call(NextEntry, 0, Tail(pending))
      BY <2>0, <3>2 DEF Advance
    <3>5. NextEntry > LoadList /\ NextEntry \in 0 .. NCmds
      BY <2>3, NextEntryFact, ConstantFacts DEF TypeOK
    <3>6. bt_config_state' = NextEntry /\ pending' = Tail(pending) \o Commands(NextEntry)
      <4>1. NextEntry # LoadList
        BY <3>5, ConstantFacts
      <4> QED
        BY <3>4, <4>1 DEF Call
    <3>7. \A i \in 1 .. Len(pending') :
             /\ pending'[i].kind # "add"
             /\ pending'[i].kind = "setup" => pending'[i].n > LoadList
      <4> SUFFICES ASSUME NEW i \in 1 .. Len(pending')
                   PROVE  /\ pending'[i].kind # "add"
                          /\ pending'[i].kind = "setup" => pending'[i].n > LoadList
        OBVIOUS
      <4>1. Tail(pending) \in Seq(AnyCommand) /\ Commands(NextEntry) \in Seq(AnyCommand)
        BY <2>0, <3>5, PendingFact, CommandsFact
      <4>2. \/ (i \in 1 .. Len(Tail(pending)) /\ pending'[i] = Tail(pending)[i])
            \/ (/\ i - Len(Tail(pending)) \in 1 .. Len(Commands(NextEntry))
                /\ pending'[i] = Commands(NextEntry)[i - Len(Tail(pending))])
        BY <3>6, <4>1, ConcatFact
      <4>3. CASE i \in 1 .. Len(Tail(pending)) /\ pending'[i] = Tail(pending)[i]
        BY <2>0, <3>1, <4>3, PendingFact DEF After
      <4>4. CASE /\ i - Len(Tail(pending)) \in 1 .. Len(Commands(NextEntry))
                 /\ pending'[i] = Commands(NextEntry)[i - Len(Tail(pending))]
        <5>1. pending'[i] = Command("setup", NextEntry)
          BY <3>5, <4>4, CommandsFact
        <5> QED
          BY <3>5, <5>1 DEF Command
      <4> QED
        BY <4>2, <4>3, <4>4
    <3> QED
      BY <3>3, <3>5, <3>6, <3>7, ConstantFacts DEF After
  <2> QED
    BY <2>1, <2>2, <2>3, ConstantFacts DEF TypeOK
<1>2. CASE Fail
  <2>1. errors + 1 = 0 /\ errors \in Nat
    BY <1>2, ConstantFacts DEF Fail, TypeOK
  <2> QED
    BY <2>1
<1>3. CASE HandlerCommand
  <2>1. /\ bt_config_state > LoadList /\ bt_config_state' = bt_config_state /\ errors = 0
        /\ accept' = accept /\ pending' = Append(pending, Command("runtime", 0))
    BY <1>3, SetupAssumption, ConstantFacts DEF HandlerCommand, TypeOK, SetupAssumption
  <2>2. After
    BY <2>1 DEF Loading
  <2>3. Command("runtime", 0).kind = "runtime"
    BY DEF Command
  <2>4. After'
    BY <2>1, <2>2, <2>3 DEF After, TypeOK
  <2> QED
    BY <2>1, <2>4, ConstantFacts DEF TypeOK
<1>4. CASE UNCHANGED vars
  <2>1. /\ bt_config_state' = bt_config_state /\ index' = index /\ pending' = pending
        /\ accept' = accept /\ errors = 0
    BY <1>4 DEF vars
  <2>2. (Before <=> Before') /\ (During <=> During') /\ (After <=> After')
    BY <2>1 DEF Before, During, After
  <2>3. /\ bt_config_state < LoadList => Before
        /\ bt_config_state = LoadList => During
        /\ bt_config_state > LoadList => After
    BY <2>1 DEF Loading
  <2> QED
    BY <2>1, <2>2, <2>3
<1> QED
  BY <1>1, <1>2, <1>3, <1>4 DEF Next, Complete

-----------------------------------------------------------------------------
\* The invariant holds at the start.
LEMMA InitHolds == Init => IndInv
<1> SUFFICES ASSUME Init PROVE IndInv
  OBVIOUS
<1>1. pending = <<Command("setup", 0)>> /\ pending \in Seq(AnyCommand) /\ 0 \in 0 .. NCmds
  BY CommandsFact, ConstantFacts DEF Init
<1>2. TypeOK
  <2>1. /\ bt_config_state = 0 /\ bt_hci_pkt_retry = 0 /\ index = 0 /\ accept = {}
        /\ acked = {} /\ shared = FALSE /\ errors = 0 /\ runtime = 0
    BY DEF Init
  <2>2. /\ bt_config_state \in 0 .. NCmds /\ bt_hci_pkt_retry \in 0 .. BT_MAX_RETRY
        /\ index \in 0 .. NKeys /\ errors \in 0 .. MaxErrors /\ runtime \in 0 .. MaxRuntime
    BY <2>1, ConstantFacts
  <2>3. accept \subseteq Keys /\ acked \subseteq 0 .. Last /\ shared \in BOOLEAN
    BY <2>1
  <2> QED
    BY <1>1, <2>2, <2>3 DEF TypeOK
<1>3. Len(pending) = 1 /\ Head(pending) = Command("setup", 0)
  BY <1>1 DEF Command
<1>4. Walk
  BY <1>3, ConstantFacts DEF Init, Walk, CurrentOnly, EarlierDone
<1>5. Loading
  BY <1>1, ConstantFacts DEF Init, Loading, Before
<1> QED
  BY <1>2, <1>4, <1>5 DEF IndInv

(***************************************************************************)
(* IndInv holds in every state of the setup of the controller              *)
(* (bt_hci_q_conf and the Command Complete branch of bt_hci_evt_hdlr).     *)
(***************************************************************************)
THEOREM Invariant == Spec => []IndInv
<1>1. IndInv /\ [Next]_vars => IndInv'
  BY TypeKept, WalkKept, LoadingKept DEF IndInv
<1> QED
  BY <1>1, InitHolds, PTL DEF Spec

(***************************************************************************)
(* However many commands fail and however often the setup starts over, the *)
(* controller has accepted every command of the table when the setup is    *)
(* over, unless it was shared with the connection handlers.                *)
(***************************************************************************)
THEOREM EveryCommandAccepted == Spec => []AllAcknowledged
<1>1. IndInv => AllAcknowledged
  <2> SUFFICES ASSUME TypeOK, Walk, Done, ~shared PROVE 0 .. Last \ {LoadList} \subseteq acked
    BY DEF IndInv, AllAcknowledged
  <2>1. EarlierDone /\ bt_config_state = Last + 1
    BY ConstantFacts DEF Walk, Done, TypeOK
  <2> QED
    BY <2>1, ConstantFacts DEF EarlierDone
<1> QED
  BY <1>1, Invariant, PTL

(***************************************************************************)
(* If no command fails, every bonded LE controller is on the accept list   *)
(* when the setup is over, whatever the connection handlers send meanwhile *)
(* (bt_hci_load_le_accept_list).                                           *)
(***************************************************************************)
THEOREM EveryBondAccepted == Spec => []BondedAccepted
<1>1. IndInv => BondedAccepted
  BY ConstantFacts DEF IndInv, TypeOK, Loading, After, BondedAccepted, Done
<1> QED
  BY <1>1, Invariant, PTL

=============================================================================
