------------------------------- MODULE AttHid -------------------------------
(***************************************************************************)
(* The discovery of the reports of a BLE controller: its services, the     *)
(* attributes of its HID service, the report map, the reference of each    *)
(* report, and the subscription to those that are input.  One request is   *)
(* outstanding at a time; what was found goes to a table per slot with     *)
(* room for five reports, behind which the table of the next slot begins.  *)
(*                                                                         *)
(* Definitions marked as mutants are wrong on purpose, to see that a       *)
(* property notices the mistake.                                           *)
(***************************************************************************)
EXTENDS Integers, Sequences, FiniteSets

CONSTANTS HidSlots,      \* of bt_dev, by ids.id
          Databases,     \* the attributes a controller may have
          MaxDiscoveries,\* bound: discoveries
          MaxRefusals    \* bound: requests that are refused though they need not be

\* A controller: its reports, whose ids are their numbers and of which the second is output; the
\* attributes in an answer; the answers its report map takes; the service behind the HID service,
\* if any; and the ids in bt_data->reports once hid_parser went over the map, which keeps the first
\* report of each of four types and none whose type it cannot tell.
Database == [reports : 0 .. 6, chunk : Nat \ {0}, map : Nat \ {0}, tail : {"none", "wide", "single"},
             kept : SUBSET (1 .. 6)]

NO_DEVICE == [reports |-> 0, chunk |-> 1, map |-> 1, tail |-> "none", kept |-> {}]
HID_MAX_REPORT == 5

ASSUME AttHidAssumption ==
    /\ HidSlots \subseteq Nat
    /\ Databases \subseteq Database \ {NO_DEVICE}
    /\ MaxDiscoveries \in Nat
    /\ MaxRefusals \in Nat

\* What the attributes are, by handle: the HID service and its report map, then three or four
\* attributes for each report, the output report having no CCC.
ReportAttributes(i) == IF i = 2 THEN <<"CHRC", "REPORT", "REF">> ELSE <<"CHRC", "REPORT", "CCC", "REF">>
ChrcOf(n) == IF n <= 2 THEN 4 * n ELSE 4 * n - 1
RefOfReport(n) == ChrcOf(n + 1) - 1
CccOf(n) == ChrcOf(n) + 2
MapHandle == 3
\* The report an attribute belongs to, 0 for the first three.
ReportOf(h) == IF h < ChrcOf(1) THEN 0 ELSE IF h < ChrcOf(3) THEN h \div 4 ELSE (h + 1) \div 4
Uuid(h) ==
    IF h < ChrcOf(1) THEN <<"PRIMARY", "CHRC", "MAP">>[h]
    ELSE ReportAttributes(ReportOf(h))[h - ChrcOf(ReportOf(h)) + 1]
\* The last handle of its HID service.
EndOf(db) == RefOfReport(db.reports)
Inputs(db) == (1 .. db.reports) \ {2}
Required(db) == Inputs(db) \cap db.kept

\* BT_ATT_OP_READ_GROUP_RSP: the services that begin at or after a handle.
Service(start, end, hid) == [start |-> start, end |-> end, hid |-> hid]
Services(db) == {Service(1, EndOf(db), TRUE)} \cup
    CASE db.tail = "none" -> {}
      [] db.tail = "wide" -> {Service(EndOf(db) + 1, EndOf(db) + 3, FALSE)}
      [] db.tail = "single" -> {Service(EndOf(db) + 1, EndOf(db) + 1, FALSE)}
ServicesFrom(db, h) == {v \in Services(db) : v.start >= h}

-----------------------------------------------------------------------------
VARIABLES gatt,          \* per slot: the controller, NO_DEVICE without one
          hid_state,
          ask,           \* the request that is outstanding
          att_hid,       \* the tables
          subscribed,    \* the handles written to
          ready,         \* BT_DEV_HID_INTR_READY
          refused,       \* a request was refused
          astray,        \* the discovery touched the table of the next slot
          spoiled,       \* its table was touched by the one before
          discoveries, refusals

attvars == <<gatt, hid_state, ask, att_hid, subscribed, ready, refused, astray, spoiled, discoveries, refusals>>

BlankReport == [id |-> 0, input |-> FALSE, hdl |-> 0, cfg |-> 0, ref |-> 0]
BlankTable == [start |-> 0, end |-> 0, map |-> 0, cnt |-> 0, found |-> 0, idx |-> 0,
               reports |-> [i \in 0 .. HID_MAX_REPORT - 1 |-> BlankReport]]

Ask(op, h) == [op |-> op, handle |-> h]
NOTHING == Ask("none", 0)

AttInit ==
    /\ gatt = [s \in HidSlots |-> NO_DEVICE]
    /\ hid_state = [s \in HidSlots |-> "DEVICE_NAME"]
    /\ ask = [s \in HidSlots |-> NOTHING]
    /\ att_hid = [s \in HidSlots |-> BlankTable]
    /\ subscribed = [s \in HidSlots |-> {}]
    /\ ready = [s \in HidSlots |-> FALSE]
    /\ refused = [s \in HidSlots |-> FALSE]
    /\ astray = [s \in HidSlots |-> FALSE]
    /\ spoiled = [s \in HidSlots |-> FALSE]
    /\ discoveries = 0 /\ refusals = 0

-----------------------------------------------------------------------------
(* The tables                                                              *)

\* reports[5] of a table lies on start_hdl, end_hdl, map_hdl, and report_cnt with report_found, of the next.
Behind(s) == {s + 1} \cap HidSlots
RefOf(t, s, i) ==
    IF i < HID_MAX_REPORT THEN t[s].reports[i].ref
    ELSE IF i = HID_MAX_REPORT /\ Behind(s) # {} THEN t[s + 1].cnt + 256 * t[s + 1].found ELSE 0

Touches(s, i) ==
    /\ astray' = [astray EXCEPT ![s] = @ \/ i >= HID_MAX_REPORT]
    /\ spoiled' = [n \in HidSlots |-> spoiled[n] \/ (i >= HID_MAX_REPORT /\ n \in Behind(s))]

\* The characteristics of an answer, from attribute h on, at which report_cnt goes up: a report was
\* found since the one before.
NextReportsAlways(s, h, last) == {c \in h .. last : Uuid(c) = "CHRC"}     \* mutant: always
NextReportsHere(s, h, last) ==                             \* mutant: found in the same answer
    {c \in h .. last : Uuid(c) = "CHRC" /\ \E r \in h .. c - 1 : Uuid(r) = "REPORT" /\ \A b \in r .. c - 1 : Uuid(b) # "CHRC"}
NextReports(s, h, last) ==
    LET Between(a, c) == \A b \in a .. c - 1 : Uuid(b) # "CHRC"
    IN {c \in h .. last :
            /\ Uuid(c) = "CHRC"
            /\ \/ att_hid[s].found = 1 /\ Between(h, c)
               \/ \E r \in h .. c - 1 : Uuid(r) = "REPORT" /\ Between(r, c)}

\* The tables after the answer: of its attributes, those up to the characteristic at which the table
\* is full are noted, each at the index that report_cnt has there; what comes behind the table is for
\* the answers after that one.
Noted(s, h, last, nexts) ==
    LET t == att_hid[s]
        first == IF h = 1 THEN 0 ELSE t.cnt
        Index(a) == first + Cardinality({c \in nexts : c <= a})
        full == {c \in nexts : Index(c) = HID_MAX_REPORT}
        end == IF full = {} THEN last ELSE CHOOSE c \in full : TRUE
        Of(uuid, i, old) ==
            LET at == {a \in h .. end : Uuid(a) = uuid /\ Index(a) = i}
            IN IF at = {} THEN old ELSE CHOOSE a \in at : TRUE
        \* No characteristic came behind the last report.
        foundNow == \E r \in h .. end : Uuid(r) = "REPORT" /\ \A b \in r .. end : Uuid(b) # "CHRC"
        none == \A b \in h .. end : Uuid(b) # "CHRC"
        report(i, r) == [r EXCEPT !.hdl = Of("REPORT", i, @), !.cfg = Of("CCC", i, @), !.ref = Of("REF", i, @)]
        own == [t EXCEPT !.cnt = Index(end),
                         !.found = IF full # {} \/ foundNow \/ (none /\ @ = 1) THEN 1 ELSE 0,
                         !.map = IF MapHandle \in h .. end THEN MapHandle ELSE @,
                         !.reports = [i \in 0 .. HID_MAX_REPORT - 1 |-> report(i, t.reports[i])]]
        behind(u) ==
            LET ref == Of("REF", HID_MAX_REPORT, 0)
            IN [u EXCEPT !.end = Of("REPORT", HID_MAX_REPORT, @), !.map = Of("CCC", HID_MAX_REPORT, @),
                         !.cnt = IF ref = 0 THEN @ ELSE ref % 256, !.found = IF ref = 0 THEN @ ELSE ref \div 256]
    IN [n \in HidSlots |->
            CASE n = s -> own
              [] n \in Behind(s) /\ t.cnt >= HID_MAX_REPORT -> behind(att_hid[n])
              [] OTHER -> att_hid[n]]

-----------------------------------------------------------------------------
(* bt_att_hid_hdlr                                                         *)

Next1(s, op, h) == ask' = [ask EXCEPT ![s] = Ask(op, h)]
State(s, st) == hid_state' = [hid_state EXCEPT ![s] = st]
Asked(s, op) == ask[s].op = op
Keep == UNCHANGED <<gatt, subscribed, ready, refused, discoveries, refusals>>
Apart == UNCHANGED <<astray, spoiled>>

\* bt_att_hid_init, when pairing is through or the link is encrypted again.
HidInit(s, db) ==
    /\ gatt[s] = NO_DEVICE /\ discoveries < MaxDiscoveries
    /\ discoveries' = discoveries + 1
    /\ gatt' = [gatt EXCEPT ![s] = db]
    /\ att_hid' = [att_hid EXCEPT ![s] = BlankTable]
    /\ Next1(s, "mtu", 0)
    /\ subscribed' = [subscribed EXCEPT ![s] = {}]
    /\ refused' = [refused EXCEPT ![s] = FALSE]
    /\ astray' = [astray EXCEPT ![s] = FALSE]
    /\ spoiled' = [spoiled EXCEPT ![s] = FALSE]
    /\ State(s, "DEVICE_NAME")
    /\ UNCHANGED <<ready, refusals>>

\* bt_host_reset_dev leaves the table as it is.
AttLinkLost(s) ==
    /\ gatt[s] # NO_DEVICE
    /\ gatt' = [gatt EXCEPT ![s] = NO_DEVICE]
    /\ ask' = [ask EXCEPT ![s] = NOTHING]
    /\ ready' = [ready EXCEPT ![s] = FALSE]
    /\ astray' = [astray EXCEPT ![s] = FALSE]
    /\ State(s, "DEVICE_NAME")
    /\ UNCHANGED <<att_hid, subscribed, refused, spoiled, discoveries, refusals>>

MtuRsp(s) ==
    /\ Asked(s, "mtu")
    /\ State(s, "DEVICE_NAME")
    /\ Next1(s, "name", 0)
    /\ UNCHANGED att_hid /\ Keep /\ Apart

\* BT_ATT_OP_READ_TYPE_RSP
NameRsp(s) ==
    /\ Asked(s, "name")
    /\ State(s, "DISCOVERY")
    /\ Next1(s, "group", 1)
    /\ UNCHANGED att_hid /\ Keep /\ Apart

\* BT_ATT_OP_READ_GROUP_RSP: the next request begins where the last service ends.
FromStart(v) == v.start                                    \* mutant: where it begins
From(v) == v.end

ReadGroupRsp(s) ==
    LET found == ServicesFrom(gatt[s], ask[s].handle)
    IN /\ Asked(s, "group") /\ found # {}
       /\ att_hid' = IF \E v \in found : v.hid
                     THEN [att_hid EXCEPT ![s].start = 1, ![s].end = EndOf(gatt[s])] ELSE att_hid
       /\ Next1(s, "group", From(CHOOSE v \in found : \A w \in found : w.start <= v.start))
       /\ UNCHANGED hid_state /\ Keep /\ Apart

\* BT_ATT_OP_ERROR_RSP: there is no service more.
NoMoreServices(s) ==
    /\ Asked(s, "group") /\ ServicesFrom(gatt[s], ask[s].handle) = {}
    /\ Next1(s, "info", att_hid[s].start)
    /\ UNCHANGED <<att_hid, hid_state>> /\ Keep /\ Apart

FindInfoRsp(s) ==
    LET h == ask[s].handle
        last == IF h + gatt[s].chunk - 1 < EndOf(gatt[s]) THEN h + gatt[s].chunk - 1 ELSE EndOf(gatt[s])
    IN /\ Asked(s, "info") /\ h \in 1 .. EndOf(gatt[s])
       /\ \E nexts \in {NextReports(s, h, last)} : att_hid' = Noted(s, h, last, nexts)
       /\ Touches(s, IF \E a \in h .. last : Uuid(a) \in {"REPORT", "CCC", "REF"}
                     THEN att_hid[s].cnt ELSE 0)
       /\ IF last < att_hid'[s].end
          THEN Next1(s, "info", last + 1) /\ UNCHANGED hid_state
          ELSE Next1(s, "map", att_hid'[s].map) /\ State(s, "REPORT_MAP")
       /\ Keep

\* BT_ATT_OP_ERROR_RSP: there is no attribute more.
NoMoreAttributes(s) ==
    /\ Asked(s, "info") /\ ask[s].handle \notin 1 .. EndOf(gatt[s])
    /\ State(s, "REPORT_MAP")
    /\ Next1(s, "map", att_hid[s].map)
    /\ UNCHANGED att_hid /\ Keep /\ Apart

\* BT_ATT_OP_READ_RSP, BT_ATT_OP_READ_BLOB_RSP with a part of the report map: all but the last ask for more.
ReadMapRsp(s) ==
    /\ hid_state[s] = "REPORT_MAP"
    /\ \E part \in 1 .. gatt[s].map :
        /\ Asked(s, IF part = 1 THEN "map" ELSE "blob") /\ ask[s].handle # 0
        /\ part > 1 => ask[s].handle = part
        /\ IF part < gatt[s].map
           THEN Next1(s, "blob", part + 1) /\ UNCHANGED hid_state /\ Apart
           ELSE LET ref == RefOf(att_hid, s, att_hid[s].idx)
                IN IF ref # 0
                   THEN Next1(s, "ref", ref) /\ State(s, "REPORT_REF") /\ Apart
                   ELSE ask' = [ask EXCEPT ![s] = NOTHING] /\ UNCHANGED hid_state /\ Apart
    /\ UNCHANGED att_hid
    /\ Keep

\* bt_att_is_report_required: input, and one that the parser kept.  These are subscribed to one by
\* one, from the i-th on; then bt_hid_init.
Wanted(t, s, i) ==
    {j \in i .. HID_MAX_REPORT - 1 : t[s].reports[j].input /\ t[s].reports[j].id \in gatt[s].kept}
FirstIn(S) == CHOOSE j \in S : \A k \in S : j <= k

SubscribeFrom(t, s, i) ==
    IF Wanted(t, s, i) # {}
    THEN LET j == FirstIn(Wanted(t, s, i))
         IN /\ Next1(s, "write", t[s].reports[j].cfg)
            /\ att_hid' = [t EXCEPT ![s].idx = j + 1]
            /\ UNCHANGED ready
    ELSE /\ ask' = [ask EXCEPT ![s] = NOTHING]
         /\ ready' = [ready EXCEPT ![s] = TRUE]
         /\ att_hid' = t

\* BT_ATT_OP_READ_RSP with a reference.
ReadRefRsp(s) ==
    LET i == att_hid[s].idx
        h == ask[s].handle
        n == IF Uuid(h) = "REF" THEN ReportOf(h) ELSE 0
        t == IF i < HID_MAX_REPORT
             THEN [att_hid EXCEPT ![s].idx = i + 1, ![s].reports[i].id = n, ![s].reports[i].input = n \in Inputs(gatt[s])]
             ELSE [m \in HidSlots |->
                     CASE m = s -> [att_hid[m] EXCEPT !.idx = i + 1]
                       [] m \in Behind(s) -> [att_hid[m] EXCEPT !.start = n]
                       [] OTHER -> att_hid[m]]
        ref == RefOf(t, s, i + 1)
    IN /\ Asked(s, "ref") /\ h \in 1 .. EndOf(gatt[s])
       /\ Touches(s, i + 1)
       /\ IF ref # 0
          THEN Next1(s, "ref", ref) /\ att_hid' = t /\ UNCHANGED <<hid_state, ready>>
          ELSE SubscribeFrom(t, s, 0) /\ State(s, "REPORT_CFG")
       /\ UNCHANGED <<gatt, subscribed, refused, discoveries, refusals>>

WriteRsp(s) ==
    /\ Asked(s, "write")
    /\ subscribed' = [subscribed EXCEPT ![s] = @ \cup {ask[s].handle}]
    /\ SubscribeFrom(att_hid, s, att_hid[s].idx)
    /\ UNCHANGED <<gatt, hid_state, refused, discoveries, refusals>> /\ Apart

\* BT_ATT_OP_ERROR_RSP to another request is only printed; some have to be refused, any may be.
Impossible(s) ==
    \/ Asked(s, "map") /\ ask[s].handle = 0
    \/ Asked(s, "ref") /\ ask[s].handle \notin 1 .. EndOf(gatt[s])

ErrorRsp(s) ==
    /\ ask[s].op \in {"mtu", "name", "map", "blob", "ref", "write"}
    /\ \/ Impossible(s) /\ UNCHANGED <<refused, refusals>>
       \/ /\ refusals < MaxRefusals
          /\ refusals' = refusals + 1
          /\ refused' = [refused EXCEPT ![s] = TRUE]
    /\ ask' = [ask EXCEPT ![s] = NOTHING]
    /\ UNCHANGED <<gatt, hid_state, att_hid, subscribed, ready, discoveries>> /\ Apart

Answer(s) ==
    \/ MtuRsp(s) \/ NameRsp(s) \/ ReadGroupRsp(s) \/ NoMoreServices(s) \/ FindInfoRsp(s) \/ NoMoreAttributes(s)
    \/ ReadMapRsp(s) \/ ReadRefRsp(s) \/ WriteRsp(s) \/ ErrorRsp(s)

AttNext ==
    \E s \in HidSlots :
        \/ \E db \in Databases : HidInit(s, db)
        \/ AttLinkLost(s)
        \/ MtuRsp(s) \/ NameRsp(s) \/ ReadGroupRsp(s) \/ NoMoreServices(s) \/ FindInfoRsp(s) \/ NoMoreAttributes(s)
        \/ ReadMapRsp(s) \/ ReadRefRsp(s) \/ WriteRsp(s) \/ ErrorRsp(s)

AttSpec == AttInit /\ [][AttNext]_attvars

\* Every request is answered: the protocol gives the remote end thirty seconds.
AttFairness == \A s \in HidSlots : WF_attvars(Answer(s))

-----------------------------------------------------------------------------
(* Properties.                                                             *)

Report == [id : Nat, input : BOOLEAN, hdl : Nat, cfg : Nat, ref : Nat]
Table == [start : Nat, end : Nat, map : Nat, cnt : Nat, found : Nat, idx : 0 .. HID_MAX_REPORT + 1,
          reports : [0 .. HID_MAX_REPORT - 1 -> Report]]
Request == [op : {"none", "mtu", "name", "group", "info", "map", "blob", "ref", "write"}, handle : Nat]

AttTypeOK ==
    /\ gatt \in [HidSlots -> Databases \cup {NO_DEVICE}]
    /\ att_hid \in [HidSlots -> Table]
    /\ ask \in [HidSlots -> Request]
    /\ hid_state \in [HidSlots -> {"DEVICE_NAME", "DISCOVERY", "REPORT_MAP", "REPORT_REF", "REPORT_CFG"}]
    /\ subscribed \in [HidSlots -> SUBSET Nat]
    /\ {ready, refused, astray, spoiled} \subseteq [HidSlots -> BOOLEAN]
    /\ discoveries \in 0 .. MaxDiscoveries
    /\ refusals \in 0 .. MaxRefusals
    /\ \A s \in HidSlots : Asked(s, "ref") => att_hid[s].idx <= HID_MAX_REPORT

(***************************************************************************)
(* The discovery of one controller keeps to its own table, however its     *)
(* attributes are spread over the answers, unless it has five reports or   *)
(* more, or the table was written to from the one before.  With five, the  *)
(* reference behind the last is read, which is report_cnt of the next      *)
(* table; with more, and an answer that ends after the table was full,     *)
(* handles are written there.                                              *)
(***************************************************************************)
TablesApart == \A s \in HidSlots : astray[s] => gatt[s].reports >= HID_MAX_REPORT \/ spoiled[s]

(***************************************************************************)
(* When the start-up of a controller begins, every input report that the   *)
(* parser kept and that has a place in the table is subscribed to, by its  *)
(* own handle, and nothing else was written to: unless its table was       *)
(* touched from the one before, or its discovery left it.                  *)
(***************************************************************************)
AllSubscribed ==
    \A s \in HidSlots :
        ready[s] /\ ~spoiled[s] /\ ~astray[s] =>
            subscribed[s] = {CccOf(n) : n \in {m \in Required(gatt[s]) : m <= HID_MAX_REPORT}}

(***************************************************************************)
(* A discovery whose requests are answered ends with the start-up of the   *)
(* controller or the loss of its link.  It does not if a request is        *)
(* refused, there are no reports, or five or more; and it asks for ever    *)
(* for the same services if the last one is a single attribute.            *)
(***************************************************************************)
Unusual(s) ==
    \/ refused[s] \/ spoiled[s]
    \/ gatt[s].reports \notin 1 .. HID_MAX_REPORT - 1
    \/ gatt[s].tail = "single"
DiscoveryEnds == \A s \in HidSlots : Asked(s, "mtu") ~> ready[s] \/ gatt[s] = NO_DEVICE \/ Unusual(s)

\* The table when the answers so far went up to a handle: report_cnt is behind by the report that
\* no characteristic has followed yet, and what is there of each report is noted in its place.
CountAt(h) == IF ReportOf(h) = 0 THEN 0 ELSE ReportOf(h) - 1
FoundAt(h) == ReportOf(h) > HID_MAX_REPORT \/ (ReportOf(h) > 0 /\ h > ChrcOf(ReportOf(h)))
HandleBy(a, h) == IF a <= h THEN a ELSE 0
HandlesNoted(t, h) ==
    \A i \in 0 .. HID_MAX_REPORT - 1 :
        /\ t.reports[i].ref = HandleBy(RefOfReport(i + 1), h)
        /\ i # 1 => t.reports[i].cfg = HandleBy(CccOf(i + 1), h)
InputsRead(t) ==
    \A i \in 0 .. HID_MAX_REPORT - 1 :
        /\ t.reports[i].input <=> i < t.idx /\ i # 1
        /\ i < t.idx => t.reports[i].id = i + 1
\* Once all references were read, exactly the reports that are to be subscribed to look so.
RequiredKnown(t, db) ==
    \A i \in 0 .. HID_MAX_REPORT - 1 :
        t.reports[i].input /\ t.reports[i].id \in db.kept <=> i + 1 \in Required(db)

Scanned(t, db, h) ==
    /\ t.start = 1 /\ t.end = EndOf(db) /\ t.idx = 0
    /\ t.cnt = CountAt(h) /\ t.found = (IF FoundAt(h) THEN 1 ELSE 0)
    /\ HandlesNoted(t, h) /\ InputsRead(t)

SubscribedBelow(S, db, k) == S = {CccOf(n) : n \in {m \in Required(db) : m < k}}

\* How far the discovery of a controller db is: with the request a outstanding, the table t, the
\* handles S subscribed to, and r when its start-up has begun.
Stage(db, a, t, S, r) ==
    /\ a.op \in {"mtu", "name"} => t = BlankTable
    /\ a.op = "group" =>
          \/ a.handle = 1 /\ t = BlankTable
          \/ a.handle >= EndOf(db) /\ t = [BlankTable EXCEPT !.start = 1, !.end = EndOf(db)]
    /\ a.op = "info" => a.handle \in 1 .. EndOf(db) /\ Scanned(t, db, a.handle - 1)
    /\ a.op \in {"map", "blob"} => Scanned(t, db, EndOf(db))
    /\ a.op = "ref" => /\ t.idx < HID_MAX_REPORT /\ t.idx < db.reports
                       /\ a.handle = RefOfReport(t.idx + 1)
                       /\ HandlesNoted(t, EndOf(db)) /\ InputsRead(t)
    /\ a.op \notin {"none", "write"} => S = {}
    /\ a.op = "write" => /\ db.reports < HID_MAX_REPORT
                         /\ t.idx \in Required(db) /\ a.handle = CccOf(t.idx)
                         /\ HandlesNoted(t, EndOf(db)) /\ RequiredKnown(t, db)
                         /\ SubscribedBelow(S, db, t.idx)
    /\ r => a.op = "none" /\ db.reports < HID_MAX_REPORT /\ SubscribedBelow(S, db, HID_MAX_REPORT)

\* A discovery that keeps to its table is at its stage.
SlotInv(s) ==
    /\ gatt[s] = NO_DEVICE => ask[s] = NOTHING /\ ~ready[s] /\ ~astray[s]
    /\ gatt[s] # NO_DEVICE /\ ~spoiled[s] =>
          /\ astray[s] => gatt[s].reports >= HID_MAX_REPORT
          /\ ~astray[s] => Stage(gatt[s], ask[s], att_hid[s], subscribed[s], ready[s])

(***************************************************************************)
(* What makes TablesApart and AllSubscribed inductive.                     *)
(***************************************************************************)
AttInv == AttTypeOK /\ \A s \in HidSlots : SlotInv(s)

=============================================================================
