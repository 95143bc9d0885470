------------------------ MODULE BtConnectionsProofs ------------------------
(***************************************************************************)
(* Proofs about BtConnections, for any number of slots, of BR/EDR and BLE  *)
(* controllers, of browsers and of handles, and for any number of retries. *)
(*                                                                         *)
(* The handles may be any, 0 included, which is also what a slot without a *)
(* link has.  What relates the slots to the links rests on IndInv; what    *)
(* needs every slot to be reset for its own device excepts misled, and     *)
(* what needs every connection asked for to be made excepts refused.       *)
(***************************************************************************)
EXTENDS BtConnections, WellFoundedInduction, TLAPS

-----------------------------------------------------------------------------
(* The look-ups in bt_dev.                                                 *)

\* Any slots have a first one.
LEMMA LeastSlot ==
    ASSUME NEW S \in SUBSET Slots, S # {}
    PROVE  \E i \in S : \A j \in S : i <= j
<1> DEFINE Less == {ss \in Nat \X Nat : ss[1] < ss[2]}
<1>1. S \subseteq Nat
  BY TableAssumption DEF Slots
<1>2. IsWellFoundedOn(Less, Nat)
  BY NatLessThanWellFounded DEF OpToRel
<1>3. \E i \in S : \A j \in S : ~ (<<j, i>> \in Less)
  <2> HIDE DEF Less
  <2> QED
    BY <1>1, <1>2, WFMin
<1>4. \A i, j \in Nat : <<j, i>> \notin Less => i <= j
  OBVIOUS
<1> HIDE DEF Less
<1> QED
  BY <1>1, <1>3, <1>4

LEMMA FirstOfSlots ==
    ASSUME NEW S \in SUBSET Slots
    PROVE  /\ S = {} => FirstOf(S) = BT_NONE
           /\ S # {} => FirstOf(S) \in S /\ FirstOf(S) # BT_NONE
<1>1. ASSUME S # {} PROVE FirstOf(S) \in S
  BY <1>1, LeastSlot DEF FirstOf
<1>2. BT_NONE \notin Slots
  BY TableAssumption DEF BT_NONE, Slots
<1> QED
  BY <1>1, <1>2 DEF FirstOf

LEMMA NewDevIsFree ==
    ASSUME NEW t, NewDev(t) # BT_NONE
    PROVE  NewDev(t) \in Slots /\ ~t[NewDev(t)].found
BY FirstOfSlots DEF NewDev

\* A device that is not active has no slot, and one slot is enough to be active.
LEMMA ActiveDevMeans ==
    ASSUME NEW t
    PROVE  ActiveDev(t) = BT_NONE <=> \A i \in Slots : ~t[i].found
BY FirstOfSlots DEF ActiveDev

LEMMA DevOfAddr ==
    ASSUME NEW t, NEW a
    PROVE  LET s == DevFromBdaddr(t, a)
           IN /\ s = BT_NONE => \A i \in Slots : ~(t[i].found /\ t[i].addr = a)
              /\ s # BT_NONE => s \in Slots /\ t[s].found /\ t[s].addr = a
BY FirstOfSlots DEF DevFromBdaddr

LEMMA DevOfHandle ==
    ASSUME NEW t, NEW h
    PROVE  LET s == DevFromHandle(t, h)
           IN /\ s = BT_NONE => \A i \in Slots : ~(t[i].found /\ t[i].acl_handle = h)
              /\ s # BT_NONE => s \in Slots /\ t[s].found /\ t[s].acl_handle = h
BY FirstOfSlots DEF DevFromHandle

-----------------------------------------------------------------------------
(* Types.                                                                  *)

\* The content of a slot.
Dev == Device(Handles, 0 .. BT_MAX_RETRY - 1)

LEMMA BlankType == Blank \in Dev
<1>1. 0 \in 0 .. BT_MAX_RETRY - 1
  BY ConnAssumption
<1> QED
  BY <1>1, Zenon DEF Dev, Device, Blank

LEMMA ClaimedType ==
    ASSUME NEW a \in Addrs, NEW paged \in BOOLEAN
    PROVE  Claimed(a, paged) \in Dev
<1>1. 0 \in 0 .. BT_MAX_RETRY - 1
  BY ConnAssumption
<1> QED
  BY <1>1, Zenon DEF Dev, Device, Claimed, Blank

LEMMA ChangedType ==
    ASSUME NEW d \in Dev
    PROVE  /\ \A h \in Handles : [d EXCEPT !.acl_handle = h, !.pkt_retry = 0] \in Dev
           /\ d.pkt_retry + 1 < BT_MAX_RETRY => [d EXCEPT !.pkt_retry = d.pkt_retry + 1] \in Dev
           /\ [d EXCEPT !.named = TRUE] \in Dev
<1>1. 0 \in 0 .. BT_MAX_RETRY - 1
  BY ConnAssumption
<1>2. d.pkt_retry + 1 < BT_MAX_RETRY => d.pkt_retry + 1 \in 0 .. BT_MAX_RETRY - 1
  BY ConnAssumption DEF Dev, Device
<1> QED
  BY <1>1, <1>2, Zenon DEF Dev, Device

\* TypeOK in three parts: the slots, the search, and the rest.
DevOK == dev \in [Slots -> Dev]

SearchOK ==
    /\ inquiry_state \in BOOLEAN
    /\ nb_inquiry \in 0 .. BT_INQUIRY_MAX + 1
    /\ inquiring \in BOOLEAN
    /\ scan \in {"off", "active", "passive"}

RestOK ==
    /\ conf \in [found : BOOLEAN, acl_handle : Handles \cup {0}]
    /\ mgr \in {"idle", "starting", "stopping"}
    /\ adv \in BOOLEAN
    /\ reports \subseteq LePeers
    /\ link \in [Addrs -> {"down", "asked", "up"}]
    /\ handleOf \in [Addrs -> Handles \cup {0}]
    /\ naming \subseteq BrPeers

AccidentsOK == misled \subseteq Addrs /\ refused \subseteq LePeers

LEMMA TypeParts == TypeOK <=> DevOK /\ SearchOK /\ RestOK /\ AccidentsOK
BY Zenon DEF TypeOK, DevOK, SearchOK, RestOK, AccidentsOK, Dev

LEMMA TypePartsNext == TypeOK' <=> DevOK' /\ SearchOK' /\ RestOK' /\ AccidentsOK'
BY Zenon DEF TypeOK, DevOK, SearchOK, RestOK, AccidentsOK, Dev

LEMMA InitType == Init => TypeOK
<1> SUFFICES ASSUME Init PROVE TypeOK
  OBVIOUS
<1> USE DEF Init
<1>1. DevOK
  BY BlankType, Zenon DEF DevOK
<1>2. 0 \in 0 .. BT_INQUIRY_MAX + 1
  BY ConnAssumption
<1>3. SearchOK
  BY <1>2, ConnAssumption, Zenon DEF SearchOK
<1>4. RestOK
  BY Zenon DEF RestOK
<1>5. AccidentsOK
  BY Zenon DEF AccidentsOK
<1> QED
  BY <1>1, <1>3, <1>4, <1>5, TypeParts

\* The slots keep their type: one is claimed, reset, or changed.
LEMMA DevStep == TypeOK /\ [Next]_vars => DevOK'
<1> SUFFICES ASSUME TypeOK, [Next]_vars PROVE DevOK'
  OBVIOUS
<1>1. DevOK
  BY TypeParts
<1>2. ASSUME NEW a \in Addrs, NEW paged \in BOOLEAN, NewDev(dev) # BT_NONE,
             dev' = [dev EXCEPT ![NewDev(dev)] = Claimed(a, paged)]
      PROVE  DevOK'
  BY <1>1, <1>2, ClaimedType, Zenon DEF DevOK
<1>3. ASSUME NEW s \in Slots, dev' = [dev EXCEPT ![s] = Blank] PROVE DevOK'
  BY <1>1, <1>3, BlankType, Zenon DEF DevOK
<1>4. ASSUME NEW s \in Slots, Retry(s), dev' = CountFailure(s) PROVE DevOK'
  <2>1. dev[s] \in Dev
    BY <1>1 DEF DevOK
  <2>2. dev' = [dev EXCEPT ![s] = [dev[s] EXCEPT !.pkt_retry = dev[s].pkt_retry + 1]]
    BY <1>4 DEF CountFailure
  <2>3. [dev[s] EXCEPT !.pkt_retry = dev[s].pkt_retry + 1] \in Dev
    BY <1>4, <2>1, ChangedType DEF Retry
  <2> QED
    BY <1>1, <2>2, <2>3, Zenon DEF DevOK
<1>5. ASSUME NEW s \in Slots, NEW h \in Handles,
             dev' = [dev EXCEPT ![s].acl_handle = h, ![s].pkt_retry = 0]
      PROVE  DevOK'
  <2>1. dev[s] \in Dev
    BY <1>1 DEF DevOK
  <2>2. [dev[s] EXCEPT !.acl_handle = h, !.pkt_retry = 0] \in Dev
    BY <2>1, ChangedType
  <2>3. dev' = [dev EXCEPT ![s] = [dev[s] EXCEPT !.acl_handle = h, !.pkt_retry = 0]]
    BY <1>1, <1>5 DEF DevOK
  <2> QED
    BY <1>1, <2>2, <2>3, Zenon DEF DevOK
<1>6. ASSUME NEW s \in Slots, dev' = [dev EXCEPT ![s].named = TRUE] PROVE DevOK'
  <2>1. [dev[s] EXCEPT !.named = TRUE] \in Dev
    BY <1>1, ChangedType DEF DevOK
  <2> QED
    BY <1>1, <1>6, <2>1, Zenon DEF DevOK
<1>7. ASSUME dev' = dev PROVE DevOK'
  BY <1>1, <1>7 DEF DevOK
<1>8. ASSUME NEW s \in Slots, GiveUp(s) PROVE DevOK'
  BY <1>3, <1>8 DEF GiveUp
<1>9. ASSUME NEW a \in BrPeers, InquiryResult(a) \/ ConnRequest(a) PROVE DevOK'
  BY <1>2, <1>9, ConnAssumption DEF InquiryResult, ConnRequest, Peers
<1>10. ASSUME NEW a \in LePeers, NEW direct \in BOOLEAN, LeAdvertisingReport(a, direct)
       PROVE  DevOK'
  BY <1>2, <1>7, <1>10, ConnAssumption DEF LeAdvertisingReport, Peers
<1>11. ASSUME NEW a \in BrPeers, ConnFailed(a) \/ NameFailed(a) PROVE DevOK'
  BY <1>4, <1>7, <1>8, <1>11, DevOfAddr DEF ConnFailed, NameFailed
<1>12. ASSUME NEW a \in LePeers, LeConnFailed(a) PROVE DevOK'
  BY <1>3, <1>4, <1>7, <1>12, DevOfAddr DEF LeConnFailed
<1>13. ASSUME NEW a \in Addrs, NEW h \in Handles, ConnSucceeded(a, h) \/ LeConnSucceeded(a, h)
       PROVE  DevOK'
  BY <1>5, <1>7, <1>13, DevOfAddr DEF ConnSucceeded, LeConnSucceeded
<1>14. ASSUME NEW a \in BrPeers, NameFound(a) PROVE DevOK'
  BY <1>6, <1>7, <1>14, DevOfAddr DEF NameFound
<1>15. ASSUME NEW a \in Addrs, Disconnected(a) PROVE DevOK'
  BY <1>3, <1>7, <1>15, DevOfHandle DEF Disconnected
<1>16. ASSUME \/ InquiryComplete
              \/ \E a \in LePeers : Advertise(a)
              \/ \E c \in Centrals, h \in Handles : CentralConnected(c, h)
              \/ MgrStartInquiry \/ MgrInquiryStarted \/ MgrStopInquiry \/ MgrInquiryStopped
              \/ UNCHANGED vars
       PROVE  DevOK'
  BY <1>7, <1>16, Zenon DEF InquiryComplete, Advertise, CentralConnected, MgrStartInquiry,
     MgrInquiryStarted, MgrStopInquiry, MgrInquiryStopped, vars, hostVars
<1>17. BrPeers \subseteq Addrs /\ LePeers \subseteq Addrs
  BY ConnAssumption DEF Peers
<1> QED
  BY <1>9, <1>10, <1>11, <1>12, <1>13, <1>14, <1>15, <1>16, <1>17, Zenon DEF Next, BrCompletes

\* The search is started, stopped, or its scan is changed.
LEMMA SearchStep == TypeOK /\ [Next]_vars => SearchOK'
<1> SUFFICES ASSUME TypeOK, [Next]_vars PROVE SearchOK'
  OBVIOUS
<1>1. SearchOK
  BY TypeParts
<1>2. 0 \in 0 .. BT_INQUIRY_MAX + 1 /\ BT_INQUIRY_MAX \in 0 .. BT_INQUIRY_MAX + 1
  BY ConnAssumption
<1>3. ASSUME UNCHANGED searchVars PROVE SearchOK'
  BY <1>1, <1>3, Zenon DEF SearchOK, searchVars
<1>4. ASSUME StartInquiry PROVE SearchOK'
  BY <1>2, <1>4, Zenon DEF SearchOK, StartInquiry
<1>5. ASSUME StopInquiry, nb_inquiry' \in 0 .. BT_INQUIRY_MAX + 1 PROVE SearchOK'
  BY <1>5, Zenon DEF SearchOK, StopInquiry
<1>6. ASSUME scan' \in {"off", "active", "passive"}, nb_inquiry' \in 0 .. BT_INQUIRY_MAX + 1,
             UNCHANGED <<inquiry_state, inquiring>>
      PROVE  SearchOK'
  BY <1>1, <1>6, Zenon DEF SearchOK
<1>7. nb_inquiry \in 0 .. BT_INQUIRY_MAX + 1 /\ scan \in {"off", "active", "passive"}
  BY <1>1 DEF SearchOK
<1>8. ASSUME NEW s, GiveUp(s) PROVE SearchOK'
  BY <1>3, <1>4, <1>8, Zenon DEF GiveUp, ResumeSearch
<1>9. ASSUME InquiryComplete PROVE SearchOK'
  <2>1. nb_inquiry' \in 0 .. BT_INQUIRY_MAX + 1
    BY <1>7, <1>9, ConnAssumption DEF InquiryComplete
  <2> QED
    BY <1>5, <1>6, <1>7, <1>9, <2>1, Zenon DEF InquiryComplete
<1>10. ASSUME NEW a, InquiryResult(a) \/ ConnRequest(a) \/ Advertise(a) PROVE SearchOK'
  BY <1>3, <1>10, Zenon DEF InquiryResult, ConnRequest, Advertise, searchVars, hostVars
<1>11. ASSUME NEW a, ConnFailed(a) \/ NameFailed(a) PROVE SearchOK'
  BY <1>3, <1>8, <1>11, Zenon DEF ConnFailed, NameFailed
<1>12. ASSUME NEW a, NEW h, ConnSucceeded(a, h) \/ LeConnSucceeded(a, h) PROVE SearchOK'
  BY <1>2, <1>3, <1>6, <1>7, <1>12, Zenon DEF ConnSucceeded, LeConnSucceeded, searchVars
<1>13. ASSUME NEW a, NameFound(a) PROVE SearchOK'
  BY <1>3, <1>5, <1>7, <1>13, Zenon DEF NameFound
<1>14. ASSUME NEW a, NEW direct, LeAdvertisingReport(a, direct) PROVE SearchOK'
  BY <1>3, <1>6, <1>7, <1>14, Zenon DEF LeAdvertisingReport, Scan
<1>15. ASSUME NEW a, LeConnFailed(a) PROVE SearchOK'
  BY <1>3, <1>4, <1>6, <1>7, <1>15, Zenon DEF LeConnFailed, Scan
<1>16. ASSUME NEW a, NEW h, Disconnected(a) \/ CentralConnected(a, h) PROVE SearchOK'
  BY <1>3, <1>4, <1>16, Zenon DEF Disconnected, CentralConnected, ResumeSearch
<1>17. ASSUME MgrStartInquiry \/ MgrInquiryStarted \/ MgrStopInquiry \/ MgrInquiryStopped
       PROVE  SearchOK'
  BY <1>1, <1>2, <1>17, Zenon DEF SearchOK, MgrStartInquiry, MgrInquiryStarted, MgrStopInquiry,
     MgrInquiryStopped, hostVars, ctrlVars
<1>18. ASSUME UNCHANGED vars PROVE SearchOK'
  BY <1>3, <1>18, Zenon DEF vars, hostVars, ctrlVars, searchVars
<1> QED
  BY <1>9, <1>10, <1>11, <1>12, <1>13, <1>14, <1>15, <1>16, <1>17, <1>18, Zenon
     DEF Next, BrCompletes

\* What the controller keeps of each address, the advertisement and the configuration link.
LEMMA RestStep == TypeOK /\ [Next]_vars => RestOK'
<1> SUFFICES ASSUME TypeOK, [Next]_vars PROVE RestOK'
  OBVIOUS
<1>1. RestOK
  BY TypeParts
<1>2. BrPeers \subseteq Addrs /\ LePeers \subseteq Addrs /\ Centrals \subseteq Addrs
  BY ConnAssumption DEF Peers
<1> DEFINE LinkOK(l) == l \in [Addrs -> {"down", "asked", "up"}]
<1>3. ASSUME NEW l, NEW a \in Addrs, LinkOK(l)
      PROVE  /\ LinkOK([l EXCEPT ![a] = "down"])
             /\ LinkOK(Connect(l, a))
             /\ LinkOK(LeConnect(l, a))
  BY <1>3 DEF Connect, LeConnect
<1>4. ASSUME NEW a \in Addrs, NEW h \in Handles, Up(a, h)
      PROVE  LinkOK(link') /\ handleOf' \in [Addrs -> Handles \cup {0}]
  BY <1>1, <1>4, Zenon DEF RestOK, Up
<1>5. ASSUME NEW h \in Handles, ConfConnected(h)
      PROVE  conf' \in [found : BOOLEAN, acl_handle : Handles \cup {0}]
  BY <1>1, <1>5, Zenon DEF RestOK, ConfConnected
<1>6. LinkOK(link)
  BY <1>1 DEF RestOK
<1> HIDE DEF LinkOK
<1>7. ASSUME NEW a \in BrPeers, InquiryResult(a) \/ ConnRequest(a) PROVE RestOK'
  <2>1. LinkOK(link')
    BY <1>2, <1>3, <1>6, <1>7 DEF InquiryResult, ConnRequest
  <2> QED
    BY <1>1, <1>7, <2>1, Zenon DEF RestOK, LinkOK, InquiryResult, ConnRequest
<1>8. ASSUME NEW a \in BrPeers, ConnFailed(a) \/ NameFailed(a) PROVE RestOK'
  <2>1. LinkOK(link')
    BY <1>2, <1>3, <1>6, <1>8 DEF ConnFailed, NameFailed
  <2> QED
    BY <1>1, <1>8, <2>1, Zenon DEF RestOK, LinkOK, ConnFailed, NameFailed
<1>9. ASSUME NEW a \in BrPeers, NEW h \in Handles, ConnSucceeded(a, h) PROVE RestOK'
  BY <1>1, <1>2, <1>4, <1>9, Zenon DEF RestOK, LinkOK, ConnSucceeded
<1>10. ASSUME NEW a \in BrPeers, NameFound(a) PROVE RestOK'
  BY <1>1, <1>10, Zenon DEF RestOK, NameFound
<1>11. ASSUME NEW a \in LePeers, Advertise(a) PROVE RestOK'
  BY <1>1, <1>11, Zenon DEF RestOK, Advertise, hostVars
<1>12. ASSUME NEW a \in LePeers, NEW direct, LeAdvertisingReport(a, direct) PROVE RestOK'
  <2>1. LinkOK(link')
    BY <1>2, <1>3, <1>6, <1>12 DEF LeAdvertisingReport
  <2> QED
    BY <1>1, <1>12, <2>1, Zenon DEF RestOK, LinkOK, LeAdvertisingReport
<1>13. ASSUME NEW a \in LePeers, LeConnFailed(a) PROVE RestOK'
  <2>1. LinkOK(link')
    BY <1>2, <1>3, <1>6, <1>13 DEF LeConnFailed
  <2> QED
    BY <1>1, <1>13, <2>1, Zenon DEF RestOK, LinkOK, LeConnFailed
<1>14. ASSUME NEW a \in LePeers, NEW h \in Handles, LeConnSucceeded(a, h) PROVE RestOK'
  BY <1>1, <1>2, <1>4, <1>5, <1>14, Zenon DEF RestOK, LinkOK, LeConnSucceeded
<1>15. ASSUME NEW c \in Centrals, NEW h \in Handles, CentralConnected(c, h) PROVE RestOK'
  BY <1>1, <1>2, <1>4, <1>5, <1>15, Zenon DEF RestOK, LinkOK, CentralConnected
<1>16. ASSUME NEW a \in Addrs, Disconnected(a) PROVE RestOK'
  BY <1>1, <1>3, <1>6, <1>16, Zenon DEF RestOK, LinkOK, Disconnected
<1>17. ASSUME \/ InquiryComplete
              \/ MgrStartInquiry \/ MgrInquiryStarted \/ MgrStopInquiry \/ MgrInquiryStopped
              \/ UNCHANGED vars
       PROVE  RestOK'
  BY <1>1, <1>17, Zenon DEF RestOK, InquiryComplete, MgrStartInquiry, MgrInquiryStarted,
     MgrStopInquiry, MgrInquiryStopped, vars, hostVars, ctrlVars
<1> QED
  BY <1>7, <1>8, <1>9, <1>10, <1>11, <1>12, <1>13, <1>14, <1>15, <1>16, <1>17, Zenon
     DEF Next, BrCompletes

\* An accident happens to a device whose link goes down, or to a BLE device, and is remembered.
LEMMA AccidentsStep ==
    ASSUME [Next]_vars
    PROVE  \/ UNCHANGED accidents
           \/ \E a \in LePeers : misled' = misled /\ refused' \in {refused, refused \cup {a}}
           \/ \E a \in Addrs : /\ Disconnected(a) /\ refused' = refused
                               /\ misled' \in {misled, misled \cup {a}}
<1>1. ASSUME NEW a \in LePeers, NEW direct, LeAdvertisingReport(a, direct)
      PROVE  misled' = misled /\ refused' \in {refused, refused \cup {a}}
  BY <1>1 DEF LeAdvertisingReport, LeRefused
<1>2. ASSUME NEW a \in LePeers, LeConnFailed(a)
      PROVE  misled' = misled /\ refused' \in {refused, refused \cup {a}}
  BY <1>2 DEF LeConnFailed, LeRefused
<1>3. ASSUME NEW a \in Addrs, Disconnected(a)
      PROVE  refused' = refused /\ misled' \in {misled, misled \cup {a}}
  BY <1>3 DEF Disconnected
<1>4. ASSUME NEW a, NEW h,
             \/ InquiryResult(a) \/ ConnRequest(a) \/ ConnFailed(a) \/ NameFailed(a) \/ NameFound(a)
             \/ ConnSucceeded(a, h) \/ Advertise(a) \/ LeConnSucceeded(a, h)
             \/ CentralConnected(a, h)
      PROVE  UNCHANGED accidents
  BY <1>4, Zenon DEF InquiryResult, ConnRequest, ConnFailed, NameFailed, NameFound,
     ConnSucceeded, Advertise, LeConnSucceeded, CentralConnected
<1>5. ASSUME \/ InquiryComplete
             \/ MgrStartInquiry \/ MgrInquiryStarted \/ MgrStopInquiry \/ MgrInquiryStopped
             \/ UNCHANGED vars
      PROVE  UNCHANGED accidents
  BY <1>5, Zenon DEF InquiryComplete, MgrStartInquiry, MgrInquiryStarted, MgrStopInquiry,
     MgrInquiryStopped, vars
<1> QED
  BY <1>1, <1>2, <1>3, <1>4, <1>5, Zenon DEF Next, BrCompletes

LEMMA AccidentsStay == [Next]_vars => misled \subseteq misled' /\ refused \subseteq refused'
BY AccidentsStep DEF accidents

LEMMA TypeStep == TypeOK /\ [Next]_vars => TypeOK'
<1> SUFFICES ASSUME TypeOK, [Next]_vars PROVE TypeOK'
  OBVIOUS
<1>1. AccidentsOK
  BY TypeParts
<1>2. AccidentsOK'
  BY <1>1, AccidentsStep DEF AccidentsOK, accidents
<1> QED
  BY <1>2, DevStep, SearchStep, RestStep, TypePartsNext, Zenon

\* Every variable keeps its type; no look-up ever leaves the table.
THEOREM TypeCorrect == Spec => []TypeOK
BY InitType, TypeStep, PTL DEF Spec

-----------------------------------------------------------------------------
(* One slot for each device, whatever the handles are.                     *)

LEMMA OneSlotStep ==
    ASSUME TypeOK, OneSlotPerDevice, [Next]_vars
    PROVE  OneSlotPerDevice'
<1>1. dev \in [Slots -> Dev]
  BY TypeParts DEF DevOK
<1>2. ASSUME \A i \in Slots : dev'[i].found => dev[i].found /\ dev'[i].addr = dev[i].addr
      PROVE  OneSlotPerDevice'
  BY <1>2 DEF OneSlotPerDevice
<1>3. ASSUME NEW s \in Slots,
             \/ dev' = [dev EXCEPT ![s] = Blank]
             \/ dev' = CountFailure(s)
             \/ dev' = [dev EXCEPT ![s].named = TRUE]
      PROVE  OneSlotPerDevice'
  BY <1>1, <1>2, <1>3 DEF Blank, CountFailure, Dev, Device
<1>4. ASSUME NEW s \in Slots, NEW h, dev' = [dev EXCEPT ![s].acl_handle = h, ![s].pkt_retry = 0]
      PROVE  OneSlotPerDevice'
  BY <1>1, <1>2, <1>4 DEF Dev, Device
<1>5. ASSUME NEW a, NEW paged, NewDev(dev) # BT_NONE, DevFromBdaddr(dev, a) = BT_NONE,
             dev' = [dev EXCEPT ![NewDev(dev)] = Claimed(a, paged)]
      PROVE  OneSlotPerDevice'
  <2>1. NewDev(dev) \in Slots /\ ~dev[NewDev(dev)].found
    BY <1>5, NewDevIsFree
  <2>2. dev'[NewDev(dev)].addr = a /\ \A i \in Slots : i # NewDev(dev) => dev'[i] = dev[i]
    BY <1>1, <1>5, <2>1 DEF Claimed, Blank
  <2>3. \A i \in Slots : ~(dev[i].found /\ dev[i].addr = a)
    BY <1>5, DevOfAddr
  <2> QED
    BY <2>1, <2>2, <2>3 DEF OneSlotPerDevice
<1>6. ASSUME dev' = dev PROVE OneSlotPerDevice'
  BY <1>2, <1>6
<1>7. ASSUME NEW a, InquiryResult(a) \/ ConnRequest(a) PROVE OneSlotPerDevice'
  BY <1>5, <1>7 DEF InquiryResult, ConnRequest
<1>8. ASSUME NEW a, NEW direct, LeAdvertisingReport(a, direct) PROVE OneSlotPerDevice'
  BY <1>5, <1>6, <1>8 DEF LeAdvertisingReport
<1>9. ASSUME NEW a, ConnFailed(a) \/ NameFailed(a) PROVE OneSlotPerDevice'
  BY <1>3, <1>6, <1>9, DevOfAddr DEF ConnFailed, NameFailed, GiveUp
<1>10. ASSUME NEW a, LeConnFailed(a) PROVE OneSlotPerDevice'
  BY <1>3, <1>6, <1>10, DevOfAddr DEF LeConnFailed
<1>11. ASSUME NEW a, NEW h, ConnSucceeded(a, h) \/ LeConnSucceeded(a, h) PROVE OneSlotPerDevice'
  BY <1>4, <1>6, <1>11, DevOfAddr DEF ConnSucceeded, LeConnSucceeded
<1>12. ASSUME NEW a, NameFound(a) PROVE OneSlotPerDevice'
  BY <1>3, <1>6, <1>12, DevOfAddr DEF NameFound
<1>13. ASSUME NEW a, Disconnected(a) PROVE OneSlotPerDevice'
  BY <1>3, <1>6, <1>13, DevOfHandle DEF Disconnected
<1>14. ASSUME \/ InquiryComplete
              \/ \E a \in LePeers : Advertise(a)
              \/ \E c \in Centrals, h \in Handles : CentralConnected(c, h)
              \/ MgrStartInquiry \/ MgrInquiryStarted \/ MgrStopInquiry \/ MgrInquiryStopped
              \/ UNCHANGED vars
       PROVE  OneSlotPerDevice'
  BY <1>6, <1>14, Zenon DEF InquiryComplete, Advertise, CentralConnected, MgrStartInquiry,
     MgrInquiryStarted, MgrStopInquiry, MgrInquiryStopped, vars, hostVars
<1> QED
  BY <1>7, <1>8, <1>9, <1>10, <1>11, <1>12, <1>13, <1>14, Zenon DEF Next, BrCompletes

\* However its reports, requests and retries are ordered, no device is given two slots.
THEOREM DeviceHasOneSlot == Spec => []OneSlotPerDevice
<1>1. Init => OneSlotPerDevice
  <2> SUFFICES ASSUME Init PROVE OneSlotPerDevice
    OBVIOUS
  <2>1. \A i \in Slots : ~dev[i].found
    BY Zenon DEF Init, Blank
  <2> QED
    BY <2>1 DEF OneSlotPerDevice
<1>2. TypeOK /\ OneSlotPerDevice /\ [Next]_vars => OneSlotPerDevice'
  BY OneSlotStep
<1> QED
  BY <1>1, <1>2, TypeCorrect, PTL DEF Spec

-----------------------------------------------------------------------------
(* The slots and the links.  A step either keeps every link and its handle *)
(* and claims, resets or changes a slot, or it makes one link, or it takes *)
(* one down: one lemma for each.                                           *)

SlotsOK == OneSlotPerDevice /\ SlotsFollowLinks

KeepsLinks == (\A a \in Addrs : Linked(a)' <=> Linked(a)) /\ handleOf' = handleOf

LEMMA SlotsKept ==
    ASSUME TypeOK, SlotsOK, KeepsLinks,
           dev' \in [Slots -> Dev],
           \A i \in Slots : dev'[i].found =>
               dev[i].found /\ dev'[i].addr = dev[i].addr /\ dev'[i].acl_handle = dev[i].acl_handle
    PROVE  SlotsOK'
<1>1. OneSlotPerDevice'
  BY DEF SlotsOK, OneSlotPerDevice
<1>2. ASSUME NEW i \in Slots, dev'[i].found
      PROVE  /\ dev'[i].addr \in Peers
             /\ dev'[i].acl_handle = IF link'[dev'[i].addr] = "up"
                                     THEN handleOf'[dev'[i].addr] ELSE 0
  BY <1>2, ConnAssumption DEF SlotsOK, SlotsFollowLinks, KeepsLinks, Linked
<1> QED
  BY <1>1, <1>2 DEF SlotsOK, SlotsFollowLinks, Linked

LEMMA SlotClaimed ==
    ASSUME TypeOK, SlotsOK, KeepsLinks,
           NEW a \in Peers, NEW paged \in BOOLEAN, ~Linked(a),
           NewDev(dev) # BT_NONE, DevFromBdaddr(dev, a) = BT_NONE,
           dev' = [dev EXCEPT ![NewDev(dev)] = Claimed(a, paged)]
    PROVE  SlotsOK'
<1> DEFINE n == NewDev(dev)
<1>1. n \in Slots /\ ~dev[n].found
  BY NewDevIsFree
<1>2. /\ dev'[n].found /\ dev'[n].addr = a /\ dev'[n].acl_handle = 0
      /\ \A i \in Slots \ {n} : dev'[i] = dev[i]
  BY <1>1 DEF TypeOK, Claimed, Blank
<1>3. \A i \in Slots : ~(dev[i].found /\ dev[i].addr = a)
  BY DevOfAddr
<1> HIDE DEF n
<1>4. OneSlotPerDevice'
  BY <1>1, <1>2, <1>3 DEF SlotsOK, OneSlotPerDevice
<1>5. ASSUME NEW i \in Slots, dev'[i].found
      PROVE  /\ dev'[i].addr \in Peers
             /\ dev'[i].acl_handle = IF link'[dev'[i].addr] = "up"
                                     THEN handleOf'[dev'[i].addr] ELSE 0
  BY <1>1, <1>2, <1>5, ConnAssumption DEF SlotsOK, SlotsFollowLinks, KeepsLinks, Linked
<1> QED
  BY <1>4, <1>5 DEF SlotsOK, SlotsFollowLinks, Linked

\* The slot of a device that is being connected to gets the handle of the new link.
LEMMA SlotLinked ==
    ASSUME TypeOK, SlotsOK,
           NEW a \in Addrs, NEW h \in Handles, ~Linked(a), Up(a, h),
           LET s == DevFromBdaddr(dev, a)
           IN dev' = IF s = BT_NONE THEN dev
                     ELSE [dev EXCEPT ![s].acl_handle = h, ![s].pkt_retry = 0]
    PROVE  SlotsOK'
<1> DEFINE s == DevFromBdaddr(dev, a)
<1>1. /\ Linked(a)' /\ handleOf'[a] = h
      /\ \A b \in Addrs \ {a} : (Linked(b)' <=> Linked(b)) /\ handleOf'[b] = handleOf[b]
  BY DEF Up, TypeOK, Linked
<1>2. \A i \in Slots : dev'[i].found => dev[i].found /\ dev'[i].addr = dev[i].addr
  BY DevOfAddr DEF TypeOK, Device
<1>3. \A i \in Slots : dev[i].found =>
          IF dev[i].addr = a THEN dev'[i].acl_handle = h ELSE dev'[i].acl_handle = dev[i].acl_handle
  BY DevOfAddr DEF TypeOK, Device, SlotsOK, OneSlotPerDevice
<1> HIDE DEF s
<1>4. OneSlotPerDevice'
  BY <1>2 DEF SlotsOK, OneSlotPerDevice
<1>5. ASSUME NEW i \in Slots, dev'[i].found
      PROVE  /\ dev'[i].addr \in Peers
             /\ dev'[i].acl_handle = IF link'[dev'[i].addr] = "up"
                                     THEN handleOf'[dev'[i].addr] ELSE 0
  <2>1. dev[i].found /\ dev'[i].addr = dev[i].addr
    BY <1>2, <1>5
  <2>2. /\ dev[i].addr \in Peers /\ dev[i].addr \in Addrs
        /\ dev[i].acl_handle = IF link[dev[i].addr] = "up" THEN handleOf[dev[i].addr] ELSE 0
    BY <2>1, ConnAssumption DEF SlotsOK, SlotsFollowLinks, Linked
  <2>3. CASE dev[i].addr = a
    BY <1>1, <1>3, <2>1, <2>2, <2>3 DEF Linked
  <2>4. CASE dev[i].addr # a
    BY <1>1, <1>3, <2>1, <2>2, <2>4 DEF Linked
  <2> QED
    BY <2>3, <2>4
<1> QED
  BY <1>4, <1>5 DEF SlotsOK, SlotsFollowLinks, Linked

(***************************************************************************)
(* The slot the handle of a link leads to is that of its device, if it has *)
(* one; handle 0 can lead to a slot without a link instead.                *)
(***************************************************************************)
LEMMA HandleLeadsToSlot ==
    ASSUME TypeOK, SlotsOK, HandlesDiffer,
           NEW a \in Addrs, Linked(a)
    PROVE  LET s == DevFromHandle(dev, handleOf[a])
           IN /\ s = BT_NONE => ~HasSlot(a)
              /\ s # BT_NONE => dev[s].addr = a \/ (handleOf[a] = 0 /\ ~Linked(dev[s].addr))
<1> DEFINE s == DevFromHandle(dev, handleOf[a])
<1>1. ASSUME s = BT_NONE PROVE ~HasSlot(a)
  BY <1>1, DevOfHandle DEF HasSlot, SlotsOK, SlotsFollowLinks
<1>2. ASSUME s # BT_NONE PROVE dev[s].addr = a \/ (handleOf[a] = 0 /\ ~Linked(dev[s].addr))
  <2>1. s \in Slots /\ dev[s].found /\ dev[s].acl_handle = handleOf[a]
    BY <1>2, DevOfHandle
  <2>2. /\ dev[s].addr \in Addrs
        /\ handleOf[a] = IF Linked(dev[s].addr) THEN handleOf[dev[s].addr] ELSE 0
    BY <2>1, ConnAssumption DEF SlotsOK, SlotsFollowLinks
  <2> HIDE DEF s
  <2> QED
    BY <2>2 DEF HandlesDiffer
<1> QED
  BY <1>1, <1>2

(***************************************************************************)
(* A link that goes down resets one slot at most: its device has none left *)
(* unless its handle is 0, and only a slot without a link can be another's.*)
(***************************************************************************)
LEMMA SlotUnlinked ==
    ASSUME TypeOK, SlotsOK, HandlesDiffer, NEW a \in Addrs, Disconnected(a)
    PROVE  SlotsOK'
<1> DEFINE s == DevFromHandle(dev, handleOf[a])
<1>1. Linked(a) /\ ~Linked(a)'
  BY DEF Disconnected, Linked, TypeOK
<1>2. dev \in [Slots -> Dev]
  BY TypeParts DEF DevOK
<1>3. \A i \in Slots : dev'[i].found => dev[i].found /\ dev'[i] = dev[i]
  <2>1. dev' = dev \/ (s \in Slots /\ dev' = [dev EXCEPT ![s] = Blank])
    BY DevOfHandle DEF Disconnected
  <2> HIDE DEF s
  <2> QED
    BY <1>2, <2>1 DEF Blank
<1>4. ASSUME NEW i \in Slots, dev'[i].found, dev[i].addr = a PROVE handleOf[a] = 0
  <2>1. CASE s = BT_NONE
    BY <1>1, <1>3, <1>4, <2>1, HandleLeadsToSlot DEF HasSlot
  <2>2. CASE s # BT_NONE
    <3>1. s \in Slots /\ dev[s].found /\ dev' = [dev EXCEPT ![s] = Blank]
      BY <2>2, DevOfHandle DEF Disconnected
    <3>2. i # s
      BY <1>2, <1>4, <3>1 DEF Blank
    <3>3. dev[s].addr # a
      BY <1>3, <1>4, <3>1, <3>2 DEF SlotsOK, OneSlotPerDevice
    <3> QED
      BY <1>1, <2>2, <3>3, HandleLeadsToSlot
  <2> QED
    BY <2>1, <2>2
<1>5. \A b \in Addrs \ {a} : link'[b] = link[b] /\ handleOf'[b] = handleOf[b]
  BY DEF Disconnected, TypeOK
<1>6. OneSlotPerDevice'
  BY <1>3 DEF SlotsOK, OneSlotPerDevice
<1>7. ASSUME NEW i \in Slots, dev'[i].found
      PROVE  /\ dev'[i].addr \in Peers
             /\ dev'[i].acl_handle = IF link'[dev'[i].addr] = "up"
                                     THEN handleOf'[dev'[i].addr] ELSE 0
  <2>1. /\ dev[i].found /\ dev'[i] = dev[i] /\ dev[i].addr \in Peers /\ dev[i].addr \in Addrs
        /\ dev[i].acl_handle = IF Linked(dev[i].addr) THEN handleOf[dev[i].addr] ELSE 0
    BY <1>3, <1>7, ConnAssumption DEF SlotsOK, SlotsFollowLinks
  <2>2. CASE dev[i].addr = a
    BY <1>1, <1>4, <1>7, <2>1, <2>2 DEF Linked
  <2>3. CASE dev[i].addr # a
    BY <1>5, <2>1, <2>3 DEF Linked
  <2> QED
    BY <2>2, <2>3
<1> HIDE DEF s
<1> QED
  BY <1>6, <1>7 DEF SlotsOK, SlotsFollowLinks, Linked

\* What the host asks of the controller makes no link and takes none down.
LEMMA AskingKeepsLinks ==
    ASSUME NEW l \in [Addrs -> {"down", "asked", "up"}], NEW a \in Addrs, l[a] # "up",
           NEW m \in {[l EXCEPT ![a] = "down"], Connect(l, a), LeConnect(l, a),
                      Connect([l EXCEPT ![a] = "down"], a), LeConnect([l EXCEPT ![a] = "down"], a)}
    PROVE  \A b \in Addrs : m[b] = "up" <=> l[b] = "up"
BY DEF Connect, LeConnect

LinkMade ==
    \E a \in Addrs, h \in FreeHandles :
        ~Linked(a) /\ a \notin reports /\ Up(a, h) /\ UNCHANGED reports

\* How a step changes the links.
LEMMA LinkStep ==
    ASSUME TypeOK, ReportsUnlinked, [Next]_vars
    PROVE  KeepsLinks \/ LinkMade \/ \E a \in Addrs : Disconnected(a)
<1>1. link \in [Addrs -> {"down", "asked", "up"}] /\ reports \subseteq LePeers
  BY DEF TypeOK
<1>2. /\ BrPeers \subseteq Addrs /\ LePeers \subseteq Addrs /\ Centrals \subseteq Addrs
      /\ (BrPeers \cup Centrals) \cap LePeers = {}
  BY ConnAssumption DEF Peers
<1>3. ASSUME UNCHANGED <<link, handleOf>> PROVE KeepsLinks
  BY <1>3 DEF KeepsLinks, Linked
<1>4. ASSUME NEW a \in Addrs, link[a] # "up", UNCHANGED handleOf,
             link' \in {[link EXCEPT ![a] = "down"], Connect(link, a), LeConnect(link, a),
                        Connect([link EXCEPT ![a] = "down"], a),
                        LeConnect([link EXCEPT ![a] = "down"], a)}
      PROVE  KeepsLinks
  BY <1>1, <1>4, AskingKeepsLinks DEF KeepsLinks, Linked
<1>5. ASSUME NEW a \in BrPeers, InquiryResult(a) \/ ConnRequest(a) \/ ConnFailed(a)
      PROVE  KeepsLinks
  BY <1>2, <1>4, <1>5 DEF InquiryResult, ConnRequest, ConnFailed
<1>6. ASSUME NEW a \in LePeers, NEW direct, LeAdvertisingReport(a, direct) PROVE KeepsLinks
  BY <1>2, <1>3, <1>4, <1>6 DEF LeAdvertisingReport, ReportsUnlinked, Linked
<1>7. ASSUME NEW a \in LePeers, LeConnFailed(a) PROVE KeepsLinks
  BY <1>2, <1>4, <1>7 DEF LeConnFailed
<1>8. ASSUME NEW a \in BrPeers, NEW h \in Handles, ConnSucceeded(a, h) PROVE LinkMade
  BY <1>1, <1>2, <1>8 DEF ConnSucceeded, LinkMade, Linked
<1>9. ASSUME NEW a \in LePeers, NEW h \in Handles, LeConnSucceeded(a, h) PROVE LinkMade
  BY <1>2, <1>9 DEF LeConnSucceeded, LinkMade, Linked
<1>10. ASSUME NEW c \in Centrals, NEW h \in Handles, CentralConnected(c, h) PROVE LinkMade
  BY <1>1, <1>2, <1>10 DEF CentralConnected, LinkMade, Linked
<1>11. ASSUME \/ InquiryComplete
              \/ \E a \in BrPeers : NameFailed(a) \/ NameFound(a)
              \/ \E a \in LePeers : Advertise(a)
              \/ MgrStartInquiry \/ MgrInquiryStarted \/ MgrStopInquiry \/ MgrInquiryStopped
              \/ UNCHANGED vars
       PROVE  KeepsLinks
  BY <1>3, <1>11, Zenon DEF InquiryComplete, NameFailed, NameFound, Advertise, MgrStartInquiry,
     MgrInquiryStarted, MgrStopInquiry, MgrInquiryStopped, vars, ctrlVars
<1> QED
  BY <1>5, <1>6, <1>7, <1>8, <1>9, <1>10, <1>11, Zenon DEF Next, BrCompletes

LEMMA HandlesStep ==
    ASSUME TypeOK, ReportsUnlinked, HandlesDiffer, [Next]_vars
    PROVE  HandlesDiffer'
<1>1. CASE KeepsLinks
  BY <1>1 DEF KeepsLinks, HandlesDiffer
<1>2. CASE LinkMade
  <2>1. PICK a \in Addrs, h \in FreeHandles : ~Linked(a) /\ Up(a, h)
    BY <1>2 DEF LinkMade
  <2>2. /\ link'[a] = "up" /\ handleOf'[a] = h
        /\ \A b \in Addrs \ {a} : link'[b] = link[b] /\ handleOf'[b] = handleOf[b]
    BY <2>1 DEF Up, TypeOK
  <2>3. h \in Handles /\ \A b \in Addrs : link[b] = "up" => handleOf[b] # h
    BY DEF FreeHandles
  <2> QED
    BY <2>2, <2>3 DEF HandlesDiffer, Linked
<1>3. CASE \E a \in Addrs : Disconnected(a)
  <2>1. PICK a \in Addrs : Disconnected(a)
    BY <1>3
  <2>2. /\ link'[a] # "up"
        /\ \A b \in Addrs \ {a} : link'[b] = link[b] /\ handleOf'[b] = handleOf[b]
    BY <2>1 DEF Disconnected, TypeOK
  <2> QED
    BY <2>2 DEF HandlesDiffer, Linked
<1> QED
  BY <1>1, <1>2, <1>3, LinkStep

LEMMA ReportsStep ==
    ASSUME TypeOK, ReportsUnlinked, [Next]_vars
    PROVE  ReportsUnlinked'
<1>1. reports' \subseteq reports \cup {a \in Addrs : ~Linked(a)}
  <2>1. ASSUME NEW a \in LePeers, Advertise(a) PROVE reports' \subseteq reports \cup {a} /\ ~Linked(a)
    BY <2>1 DEF Advertise, Linked
  <2>2. \/ \E a \in LePeers : Advertise(a)
        \/ reports' \subseteq reports
    BY Zenon DEF Next, BrCompletes, InquiryComplete, InquiryResult, ConnRequest, ConnFailed,
       ConnSucceeded, NameFailed, NameFound, LeAdvertisingReport, LeConnFailed,
       LeConnSucceeded, CentralConnected, Disconnected, MgrStartInquiry, MgrInquiryStarted,
       MgrStopInquiry, MgrInquiryStopped, vars, ctrlVars
  <2> QED
    BY <2>1, <2>2, ConnAssumption DEF Peers
<1>2. reports \subseteq Addrs
  BY ConnAssumption DEF TypeOK, Peers
<1>3. CASE KeepsLinks
  BY <1>1, <1>2, <1>3 DEF KeepsLinks, ReportsUnlinked
<1>4. CASE LinkMade
  <2>1. PICK a \in Addrs, h \in FreeHandles : a \notin reports /\ Up(a, h) /\ UNCHANGED reports
    BY <1>4 DEF LinkMade
  <2>2. \A b \in Addrs \ {a} : link'[b] = link[b]
    BY <2>1 DEF Up, TypeOK
  <2> QED
    BY <1>2, <2>1, <2>2 DEF ReportsUnlinked, Linked
<1>5. CASE \E a \in Addrs : Disconnected(a)
  <2>1. PICK a \in Addrs : Disconnected(a)
    BY <1>5
  <2>2. reports' = reports /\ \A b \in Addrs : link'[b] = "up" => link[b] = "up"
    BY <2>1 DEF Disconnected, TypeOK
  <2> QED
    BY <1>2, <2>2 DEF ReportsUnlinked, Linked
<1> QED
  BY <1>3, <1>4, <1>5, LinkStep

LEMMA SlotsStep ==
    ASSUME TypeOK, SlotsOK, HandlesDiffer, ReportsUnlinked, [Next]_vars
    PROVE  SlotsOK'
<1>1. dev \in [Slots -> Dev] /\ dev' \in [Slots -> Dev]
  BY DevStep, TypeParts DEF DevOK
<1>2. link \in [Addrs -> {"down", "asked", "up"}]
  BY DEF TypeOK
<1>3. /\ BrPeers \subseteq Addrs /\ LePeers \subseteq Addrs
      /\ BrPeers \subseteq Peers /\ LePeers \subseteq Peers
  BY ConnAssumption DEF Peers
<1>4. ASSUME NEW a \in Addrs, link[a] # "up", UNCHANGED handleOf,
             link' \in {[link EXCEPT ![a] = "down"], Connect(link, a), LeConnect(link, a),
                        Connect([link EXCEPT ![a] = "down"], a),
                        LeConnect([link EXCEPT ![a] = "down"], a)}
      PROVE  KeepsLinks
  BY <1>2, <1>4, AskingKeepsLinks DEF KeepsLinks, Linked
<1>5. ASSUME UNCHANGED <<link, handleOf>> PROVE KeepsLinks
  BY <1>5 DEF KeepsLinks, Linked
<1>6. ASSUME KeepsLinks, dev' = dev PROVE SlotsOK'
  BY <1>1, <1>6, SlotsKept
<1>7. ASSUME KeepsLinks, NEW s \in Slots,
             dev' = [dev EXCEPT ![s] = Blank] \/ dev' = CountFailure(s)
                 \/ dev' = [dev EXCEPT ![s].named = TRUE]
      PROVE  SlotsOK'
  <2>1. \A i \in Slots : dev'[i].found =>
            dev[i].found /\ dev'[i].addr = dev[i].addr /\ dev'[i].acl_handle = dev[i].acl_handle
    BY <1>1, <1>7 DEF Blank, CountFailure, Dev, Device
  <2> QED
    BY <1>1, <1>7, <2>1, SlotsKept
<1>8. ASSUME NEW a \in BrPeers, InquiryResult(a) \/ ConnRequest(a) PROVE SlotsOK'
  <2>1. KeepsLinks /\ ~Linked(a)
    BY <1>3, <1>4, <1>8 DEF InquiryResult, ConnRequest, Linked
  <2> QED
    BY <1>3, <1>8, <2>1, SlotClaimed DEF InquiryResult, ConnRequest
<1>9. ASSUME NEW a \in LePeers, NEW direct \in BOOLEAN, LeAdvertisingReport(a, direct)
      PROVE  SlotsOK'
  <2>1. KeepsLinks /\ ~Linked(a)
    BY <1>3, <1>4, <1>5, <1>9 DEF LeAdvertisingReport, ReportsUnlinked, Linked
  <2> QED
    BY <1>3, <1>6, <1>9, <2>1, SlotClaimed DEF LeAdvertisingReport
<1>10. ASSUME NEW a \in BrPeers, ConnFailed(a) \/ NameFailed(a) PROVE SlotsOK'
  <2>1. KeepsLinks
    BY <1>3, <1>4, <1>5, <1>10 DEF ConnFailed, NameFailed
  <2> QED
    BY <1>6, <1>7, <1>10, <2>1, DevOfAddr DEF ConnFailed, NameFailed, GiveUp
<1>11. ASSUME NEW a \in LePeers, LeConnFailed(a) PROVE SlotsOK'
  <2>1. KeepsLinks
    BY <1>3, <1>4, <1>11 DEF LeConnFailed
  <2> QED
    BY <1>6, <1>7, <1>11, <2>1, DevOfAddr DEF LeConnFailed
<1>12. ASSUME NEW a \in BrPeers, NameFound(a) PROVE SlotsOK'
  BY <1>5, <1>6, <1>7, <1>12, DevOfAddr DEF NameFound
<1>13. ASSUME NEW a \in Addrs, NEW h \in Handles, ConnSucceeded(a, h) \/ LeConnSucceeded(a, h)
       PROVE  SlotsOK'
  BY <1>13, SlotLinked DEF ConnSucceeded, LeConnSucceeded, Linked
<1>14. ASSUME NEW c \in Centrals, NEW h \in Handles, CentralConnected(c, h) PROVE SlotsOK'
  <2>1. c \in Addrs /\ c \notin Peers /\ ~Linked(c)
    BY <1>14, ConnAssumption DEF CentralConnected, Linked
  <2>2. DevFromBdaddr(dev, c) = BT_NONE
    BY <2>1, DevOfAddr DEF SlotsOK, SlotsFollowLinks
  <2> QED
    BY <1>14, <2>1, <2>2, SlotLinked DEF CentralConnected
<1>15. ASSUME NEW a \in Addrs, Disconnected(a) PROVE SlotsOK'
  BY <1>15, SlotUnlinked
<1>16. ASSUME \/ InquiryComplete
              \/ \E a \in LePeers : Advertise(a)
              \/ MgrStartInquiry \/ MgrInquiryStarted \/ MgrStopInquiry \/ MgrInquiryStopped
              \/ UNCHANGED vars
       PROVE  SlotsOK'
  BY <1>5, <1>6, <1>16, Zenon DEF InquiryComplete, Advertise, MgrStartInquiry, MgrInquiryStarted,
     MgrStopInquiry, MgrInquiryStopped, vars, hostVars, ctrlVars
<1> QED
  BY <1>3, <1>8, <1>9, <1>10, <1>11, <1>12, <1>13, <1>14, <1>15, <1>16, Zenon DEF Next, BrCompletes

\* A device loses its slot only to a failure of its own, or to a link that goes down ...
LEMMA SlotLostTo ==
    ASSUME TypeOK, [Next]_vars,
           NEW i \in Slots, dev[i].found, ~(dev'[i].found /\ dev'[i].addr = dev[i].addr)
    PROVE  LET a == dev[i].addr
           IN \/ a \in BrPeers /\ (ConnFailed(a) \/ NameFailed(a))
              \/ a \in LePeers /\ LeConnFailed(a) /\ link'[a] = "down"
              \/ \E b \in Addrs : Disconnected(b)
<1>1. dev \in [Slots -> Dev]
  BY TypeParts DEF DevOK
<1>2. dev' # dev
  OBVIOUS
<1>3. ASSUME NEW s \in Slots,
             \/ dev' = CountFailure(s)
             \/ dev' = [dev EXCEPT ![s].named = TRUE]
             \/ \E h : dev' = [dev EXCEPT ![s].acl_handle = h, ![s].pkt_retry = 0]
      PROVE  FALSE
  <2>1. dev[i] \in Dev
    BY <1>1
  <2>2. CASE dev' = CountFailure(s)
    BY <1>1, <2>1, <2>2 DEF CountFailure, Dev, Device
  <2>3. CASE dev' = [dev EXCEPT ![s].named = TRUE]
    BY <1>1, <2>1, <2>3 DEF Dev, Device
  <2>4. ASSUME NEW h, dev' = [dev EXCEPT ![s].acl_handle = h, ![s].pkt_retry = 0] PROVE FALSE
    BY <1>1, <2>1, <2>4 DEF Dev, Device
  <2> QED
    BY <1>3, <2>2, <2>3, <2>4
<1>4. ASSUME NEW a, NEW paged, NewDev(dev) # BT_NONE,
             dev' = [dev EXCEPT ![NewDev(dev)] = Claimed(a, paged)]
      PROVE  FALSE
  BY <1>1, <1>4, NewDevIsFree
<1>5. ASSUME NEW s \in Slots, dev' = [dev EXCEPT ![s] = Blank] PROVE i = s
  BY <1>1, <1>5
<1>6. ASSUME NEW a \in BrPeers, ConnFailed(a) \/ NameFailed(a) PROVE dev[i].addr = a
  BY <1>2, <1>3, <1>5, <1>6, DevOfAddr DEF ConnFailed, NameFailed, GiveUp
<1>7. ASSUME NEW a \in LePeers, LeConnFailed(a) PROVE dev[i].addr = a /\ link'[a] = "down"
  <2>1. a \in Addrs
    BY ConnAssumption DEF Peers
  <2> QED
    BY <1>2, <1>3, <1>5, <1>7, <2>1, DevOfAddr DEF LeConnFailed, TypeOK
<1>8. ASSUME NEW a, InquiryResult(a) \/ ConnRequest(a) PROVE FALSE
  BY <1>4, <1>8 DEF InquiryResult, ConnRequest
<1>9. ASSUME NEW a, NEW direct, LeAdvertisingReport(a, direct) PROVE FALSE
  BY <1>2, <1>4, <1>9 DEF LeAdvertisingReport
<1>10. ASSUME NEW a, NEW h, ConnSucceeded(a, h) \/ LeConnSucceeded(a, h) PROVE FALSE
  BY <1>2, <1>3, <1>10, DevOfAddr DEF ConnSucceeded, LeConnSucceeded
<1>11. ASSUME NEW a, NameFound(a) PROVE FALSE
  BY <1>2, <1>3, <1>11, DevOfAddr DEF NameFound
<1>12. ASSUME \/ InquiryComplete
              \/ \E a \in LePeers : Advertise(a)
              \/ \E c \in Centrals, h \in Handles : CentralConnected(c, h)
              \/ MgrStartInquiry \/ MgrInquiryStarted \/ MgrStopInquiry \/ MgrInquiryStopped
              \/ UNCHANGED vars
       PROVE  FALSE
  BY <1>2, <1>12, Zenon DEF InquiryComplete, Advertise, CentralConnected, MgrStartInquiry,
     MgrInquiryStarted, MgrStopInquiry, MgrInquiryStopped, vars, hostVars
<1> QED
  BY <1>6, <1>7, <1>8, <1>9, <1>10, <1>11, <1>12, Zenon DEF Next, BrCompletes

(***************************************************************************)
(* ... which is its own, unless the link of another goes down under handle *)
(* 0 while its own is not up.                                              *)
(***************************************************************************)
LEMMA SlotLost ==
    ASSUME TypeOK, SlotsOK, HandlesDiffer, [Next]_vars,
           NEW i \in Slots, dev[i].found, ~(dev'[i].found /\ dev'[i].addr = dev[i].addr)
    PROVE  LET a == dev[i].addr
           IN \/ a \in BrPeers /\ (ConnFailed(a) \/ NameFailed(a))
              \/ a \in LePeers /\ LeConnFailed(a) /\ link'[a] = "down"
              \/ a \in Addrs /\ Disconnected(a)
              \/ \E b \in Addrs : Disconnected(b) /\ b \in misled' /\ ~Linked(a)
<1>1. ASSUME NEW b \in Addrs, Disconnected(b)
      PROVE  dev[i].addr = b \/ (b \in misled' /\ ~Linked(dev[i].addr))
  <2>1. Linked(b) /\ dev' # dev /\ dev \in [Slots -> Dev]
    BY <1>1, TypeParts DEF Disconnected, Linked, DevOK
  <2>2. ASSUME NEW s \in Slots, dev' = [dev EXCEPT ![s] = Blank] PROVE i = s
    BY <2>1, <2>2
  <2>3. i = DevFromHandle(dev, handleOf[b]) /\ i # BT_NONE
    BY <1>1, <2>1, <2>2, DevOfHandle DEF Disconnected
  <2>4. dev[i].addr = b \/ ~Linked(dev[i].addr)
    BY <2>1, <2>3, HandleLeadsToSlot
  <2>5. dev[i].addr = b \/ b \in misled'
    BY <1>1, <2>3 DEF Disconnected
  <2> QED
    BY <2>4, <2>5
<1> QED
  BY <1>1, SlotLostTo

-----------------------------------------------------------------------------
(* LE connections: whoever is being connected to has a slot, and the scan  *)
(* is off only meanwhile.                                                  *)

LEMMA SlotOfAskedKept ==
    ASSUME TypeOK, SlotsOK, HandlesDiffer, [Next]_vars, misled' = {},
           NEW b \in LePeers, HasSlot(b), link'[b] = "asked"
    PROVE  HasSlot(b)'
<1>1. b \notin BrPeers
  BY ConnAssumption
<1>2. PICK i \in Slots : dev[i].found /\ dev[i].addr = b
  BY DEF HasSlot
<1>3. ~Disconnected(b)
  BY ConnAssumption DEF Disconnected, TypeOK, Peers
<1>4. dev'[i].found /\ dev'[i].addr = b
  BY <1>1, <1>2, <1>3, SlotLost
<1> QED
  BY <1>4 DEF HasSlot

LEMMA LeStep ==
    ASSUME TypeOK, SlotsOK, HandlesDiffer, ReportsUnlinked, LeAskedHasSlot,
           DeafOnlyWhileConnecting, [Next]_vars, misled' = {}
    PROVE  LeAskedHasSlot' /\ DeafOnlyWhileConnecting'
<1>1. /\ link \in [Addrs -> {"down", "asked", "up"}]
      /\ dev \in [Slots -> Dev]
  BY TypeParts DEF TypeOK, DevOK
<1>2. /\ BrPeers \subseteq Addrs /\ LePeers \subseteq Addrs /\ Centrals \subseteq Addrs
      /\ (BrPeers \cup Centrals) \cap LePeers = {}
  BY ConnAssumption DEF Peers
\* Steps that make no LE connection and ask for none.
<1>3. ASSUME \A b \in LePeers : link'[b] = "asked" <=> link[b] = "asked", scan' = "off" => scan = "off"
      PROVE  LeAskedHasSlot' /\ DeafOnlyWhileConnecting'
  <2>1. \A b \in LePeers : link'[b] = "asked" => HasSlot(b)'
    BY <1>3, SlotOfAskedKept DEF LeAskedHasSlot
  <2> QED
    BY <1>3, <2>1 DEF LeAskedHasSlot, DeafOnlyWhileConnecting
<1>4. ASSUME NEW a \in LePeers, NEW direct \in BOOLEAN, LeAdvertisingReport(a, direct)
      PROVE  LeAskedHasSlot' /\ DeafOnlyWhileConnecting'
  <2>1. CASE DevFromBdaddr(dev, a) = BT_NONE /\ NewDev(dev) # BT_NONE
    <3>1. link' = LeConnect(link, a) /\ dev' = [dev EXCEPT ![NewDev(dev)] = Claimed(a, direct)]
      BY <1>4, <2>1 DEF LeAdvertisingReport
    <3>2. HasSlot(a)'
      BY <1>1, <2>1, <3>1, NewDevIsFree DEF HasSlot, Claimed, Blank
    <3>3. \A b \in LePeers \ {a} : link'[b] = link[b]
      BY <1>1, <1>2, <3>1 DEF LeConnect, Connect
    <3>4. \E b \in LePeers : link'[b] = "asked"
      <4>1. link[a] # "up"
        BY <1>4 DEF LeAdvertisingReport, ReportsUnlinked, Linked
      <4> QED
        BY <1>1, <1>2, <3>1, <4>1 DEF LeConnect, Connect
    <3>5. \A b \in LePeers : link'[b] = "asked" => HasSlot(b)'
      BY <3>2, <3>3, SlotOfAskedKept DEF LeAskedHasSlot
    <3> QED
      BY <3>4, <3>5 DEF LeAskedHasSlot, DeafOnlyWhileConnecting
  <2>2. CASE ~(DevFromBdaddr(dev, a) = BT_NONE /\ NewDev(dev) # BT_NONE)
    BY <1>3, <1>4, <2>2 DEF LeAdvertisingReport, searchVars
  <2> QED
    BY <2>1, <2>2
<1>5. ASSUME NEW a \in LePeers, LeConnFailed(a)
      PROVE  LeAskedHasSlot' /\ DeafOnlyWhileConnecting'
  <2>1. link[a] = "asked" /\ DevFromBdaddr(dev, a) # BT_NONE
    BY <1>5, DevOfAddr DEF LeConnFailed, LeAskedHasSlot, HasSlot
  <2>2. \A b \in LePeers : link'[b] = "asked" => link[b] = "asked"
    BY <1>1, <1>2, <1>5, <2>1 DEF LeConnFailed, LeConnect, Connect
  <2>3. LeAskedHasSlot'
    BY <2>2, SlotOfAskedKept DEF LeAskedHasSlot
  <2>4. scan' # "off" \/ link' = LeConnect([link EXCEPT ![a] = "down"], a)
    BY <1>5, <2>1 DEF LeConnFailed, StartInquiry, Scan
  <2>5. link' = LeConnect([link EXCEPT ![a] = "down"], a) => \E b \in LePeers : link'[b] = "asked"
    BY <1>1, <1>2 DEF LeConnect, Connect
  <2> QED
    BY <2>3, <2>4, <2>5 DEF DeafOnlyWhileConnecting
<1>6. ASSUME NEW a \in LePeers, NEW h \in Handles, LeConnSucceeded(a, h)
      PROVE  LeAskedHasSlot' /\ DeafOnlyWhileConnecting'
  <2>1. DevFromBdaddr(dev, a) # BT_NONE
    BY <1>6, DevOfAddr DEF LeConnSucceeded, LeAskedHasSlot, HasSlot
  <2>2. scan' = "active"
    BY <1>6, <2>1 DEF LeConnSucceeded
  <2>3. \A b \in LePeers : link'[b] = "asked" => link[b] = "asked"
    BY <1>1, <1>2, <1>6 DEF LeConnSucceeded, Up
  <2> QED
    BY <2>2, <2>3, SlotOfAskedKept DEF LeAskedHasSlot, DeafOnlyWhileConnecting
<1>7. ASSUME NEW a \in BrPeers, InquiryResult(a) \/ ConnRequest(a)
      PROVE  LeAskedHasSlot' /\ DeafOnlyWhileConnecting'
  <2>1. scan' = scan /\ \A b \in LePeers : link'[b] = link[b]
    BY <1>1, <1>2, <1>7 DEF InquiryResult, ConnRequest, Connect, searchVars
  <2> QED
    BY <1>3, <2>1
<1>8. ASSUME NEW a \in BrPeers,
             \/ ConnFailed(a) \/ NameFailed(a) \/ NameFound(a)
             \/ \E h \in Handles : ConnSucceeded(a, h)
      PROVE  LeAskedHasSlot' /\ DeafOnlyWhileConnecting'
  <2>1. \A b \in LePeers : link'[b] = link[b]
    BY <1>1, <1>2, <1>8 DEF ConnFailed, NameFailed, NameFound, ConnSucceeded, Connect, Up
  <2>2. scan' = "off" => scan = "off"
    BY <1>8 DEF ConnFailed, NameFailed, NameFound, ConnSucceeded, GiveUp, ResumeSearch,
       StartInquiry, StopInquiry, searchVars
  <2> QED
    BY <1>3, <2>1, <2>2
<1>9. ASSUME NEW a \in Addrs, Disconnected(a)
      PROVE  LeAskedHasSlot' /\ DeafOnlyWhileConnecting'
  <2>1. \A b \in LePeers : link'[b] = "asked" <=> link[b] = "asked"
    BY <1>1, <1>2, <1>9 DEF Disconnected
  <2>2. scan' = "off" => scan = "off"
    BY <1>9 DEF Disconnected, ResumeSearch, StartInquiry, searchVars
  <2> QED
    BY <1>3, <2>1, <2>2
<1>10. ASSUME NEW c \in Centrals, NEW h \in Handles, CentralConnected(c, h)
       PROVE  LeAskedHasSlot' /\ DeafOnlyWhileConnecting'
  <2>1. scan' = scan /\ \A b \in LePeers : link'[b] = link[b]
    BY <1>1, <1>2, <1>10 DEF CentralConnected, Up, searchVars
  <2> QED
    BY <1>3, <2>1
<1>11. ASSUME \/ InquiryComplete
              \/ \E a \in LePeers : Advertise(a)
              \/ MgrStartInquiry \/ MgrInquiryStarted \/ MgrStopInquiry \/ MgrInquiryStopped
              \/ UNCHANGED vars
       PROVE  LeAskedHasSlot' /\ DeafOnlyWhileConnecting'
  BY <1>3, <1>11 DEF InquiryComplete, Advertise, MgrStartInquiry, MgrInquiryStarted, MgrStopInquiry,
     MgrInquiryStopped, StopInquiry, vars, ctrlVars
<1> QED
  BY <1>4, <1>5, <1>6, <1>7, <1>8, <1>9, <1>10, <1>11, Zenon DEF Next, BrCompletes

-----------------------------------------------------------------------------
(* The inductive invariant.                                                *)

LEMMA InitInv == Init => IndInv
<1> SUFFICES ASSUME Init PROVE IndInv
  OBVIOUS
<1>1. TypeOK
  BY InitType
<1>2. \A i \in Slots : ~dev[i].found
  BY Zenon DEF Init, Blank
<1>3. scan # "off" /\ reports = {} /\ \A a \in Addrs : link[a] = "down"
  BY DEF Init
<1> QED
  BY <1>1, <1>2, <1>3, ConnAssumption DEF IndInv, OneSlotPerDevice, SlotsFollowLinks, HandlesDiffer,
     ReportsUnlinked, LeAskedHasSlot, DeafOnlyWhileConnecting, Linked, Peers

LEMMA StepInv == IndInv /\ [Next]_vars => IndInv'
<1> SUFFICES ASSUME IndInv, [Next]_vars PROVE IndInv'
  OBVIOUS
<1>1. TypeOK /\ SlotsOK /\ HandlesDiffer /\ ReportsUnlinked
  BY DEF IndInv, SlotsOK
<1>2. SlotsOK'
  BY <1>1, SlotsStep
<1>3. OneSlotPerDevice' /\ SlotsFollowLinks'
  BY <1>2 DEF SlotsOK
<1>4. ASSUME misled' = {} PROVE LeAskedHasSlot' /\ DeafOnlyWhileConnecting'
  <2>1. misled = {}
    BY <1>4, AccidentsStay
  <2>2. LeAskedHasSlot /\ DeafOnlyWhileConnecting
    BY <2>1 DEF IndInv
  <2> QED
    BY <1>1, <1>4, <2>2, LeStep
<1> QED
  BY <1>1, <1>3, <1>4, TypeStep, HandlesStep, ReportsStep DEF IndInv

(***************************************************************************)
(* The strengthened invariant of the device table, the links and the LE    *)
(* search, whatever handles the controller assigns.                        *)
(***************************************************************************)
THEOREM Invariant == Spec => []IndInv
<1>1. Init => IndInv
  BY InitInv
<1>2. IndInv /\ [Next]_vars => IndInv'
  BY StepInv
<1> QED
  BY <1>1, <1>2, PTL DEF Spec

(***************************************************************************)
(* The LE scan is off only while an LE connection is being made: the       *)
(* adapter never goes deaf, unless the end of a link with handle 0 reset   *)
(* the slot of another device.                                             *)
(***************************************************************************)
THEOREM ScanComesBack == Spec => [](misled = {} => DeafOnlyWhileConnecting)
<1>1. IndInv => (misled = {} => DeafOnlyWhileConnecting)
  BY DEF IndInv
<1> QED
  BY <1>1, Invariant, PTL

(***************************************************************************)
(* The handle of a link leads to the slot of its device, and a slot with a *)
(* handle has its link up: what a controller sends is never taken for      *)
(* another connected controller's, whatever handles there are, 0 included. *)
(***************************************************************************)
THEOREM HandleIsOfDevice == Spec => []HandleFindsDevice
<1>1. ASSUME IndInv PROVE HandleFindsDevice
  <2>1. /\ TypeOK /\ SlotsOK /\ HandlesDiffer
    BY <1>1 DEF IndInv, SlotsOK
  <2>2. ASSUME NEW a \in Peers, Linked(a), DevFromBdaddr(dev, a) # BT_NONE
        PROVE  \E s \in Slots : /\ s = DevFromHandle(dev, handleOf[a])
                                /\ dev[s].addr = a \/ (handleOf[a] = 0 /\ ~Linked(dev[s].addr))
    <3>1. a \in Addrs
      BY <2>2, ConnAssumption
    <3>2. DevFromHandle(dev, handleOf[a]) # BT_NONE
      BY <2>1, <2>2, <3>1, DevOfAddr, HandleLeadsToSlot DEF HasSlot
    <3> QED
      BY <2>1, <2>2, <3>1, <3>2, DevOfHandle, HandleLeadsToSlot
  <2>3. ASSUME NEW i \in Slots, dev[i].found, dev[i].acl_handle # 0 PROVE Linked(dev[i].addr)
    BY <2>1, <2>3 DEF SlotsOK, SlotsFollowLinks
  <2> QED
    BY <2>2, <2>3 DEF HandleFindsDevice
<1> QED
  BY <1>1, Invariant, PTL

(***************************************************************************)
(* A link that is up loses its slot to name requests that failed           *)
(* BT_MAX_RETRY times in a row, and to nothing else.                       *)
(***************************************************************************)
THEOREM OrphansAreUnnamed == Spec => OrphanedByNameOnly
<1> DEFINE Orphaned(a) == /\ link[a] = "up" /\ link'[a] = "up"
                          /\ DevFromBdaddr(dev, a) # BT_NONE
                          /\ DevFromBdaddr(dev', a) = BT_NONE
<1>1. ASSUME IndInv, [Next]_vars, NEW a \in Peers, Orphaned(a)
      PROVE  a \in naming \ naming' /\ dev[DevFromBdaddr(dev, a)].pkt_retry = BT_MAX_RETRY - 1
  <2> DEFINE s == DevFromBdaddr(dev, a)
  <2>1. /\ TypeOK /\ SlotsOK /\ HandlesDiffer
    BY <1>1 DEF IndInv, SlotsOK
  <2>2. s \in Slots /\ dev[s].found /\ dev[s].addr = a /\ s # BT_NONE
    BY <1>1, DevOfAddr
  <2>3. ~(dev'[s].found /\ dev'[s].addr = a)
    BY <1>1, <2>2, DevOfAddr
  <2>4. ~ConnFailed(a) /\ ~Disconnected(a)
    BY <1>1, <2>1, ConnAssumption DEF ConnFailed, Disconnected, TypeOK, Peers
  <2>5. NameFailed(a)
    BY <1>1, <2>1, <2>2, <2>3, <2>4, SlotLost DEF Linked
  <2>6. dev[s] \in Dev
    BY <2>1, <2>2, TypeParts DEF DevOK
  <2>7. ~Retry(s)
    <3>1. dev' = CountFailure(s) => dev'[s].found /\ dev'[s].addr = a
      BY <2>1, <2>2, <2>6, TypeParts DEF CountFailure, DevOK, Dev, Device
    <3> QED
      BY <2>2, <2>3, <2>5, <3>1 DEF NameFailed
  <2>8. dev[s].pkt_retry = BT_MAX_RETRY - 1
    BY <2>6, <2>7, ConnAssumption DEF Dev, Device, Retry
  <2> QED
    BY <2>5, <2>7, <2>8 DEF NameFailed
<1>2. IndInv /\ [Next]_vars =>
          [\A a \in Peers : Orphaned(a) =>
              a \in naming \ naming' /\ dev[DevFromBdaddr(dev, a)].pkt_retry = BT_MAX_RETRY - 1]_vars
  BY <1>1
<1> QED
  BY <1>2, Invariant, PTL DEF Spec, OrphanedByNameOnly

-----------------------------------------------------------------------------
(* The search.                                                             *)

(***************************************************************************)
(* The LED and the BOOT button can trust inquiry_state, but for the two    *)
(* moments at which sys_mgr_task is between its command and its note.      *)
(***************************************************************************)
THEOREM InquiryIsNoted == Spec => []InquiryStateTrue
<1>1. Init => InquiryStateTrue
  <2>1. Init => inquiring = inquiry_state
    BY Zenon DEF Init
  <2> QED
    BY <2>1, Zenon DEF InquiryStateTrue
<1>2. InquiryStateTrue /\ [Next]_vars => InquiryStateTrue'
  <2> SUFFICES ASSUME InquiryStateTrue, [Next]_vars PROVE InquiryStateTrue'
    OBVIOUS
  <2> USE DEF InquiryStateTrue
  <2>1. ASSUME UNCHANGED <<inquiry_state, inquiring, mgr>> PROVE InquiryStateTrue'
    BY <2>1, Zenon
  <2>2. ASSUME UNCHANGED searchVars, UNCHANGED mgr PROVE InquiryStateTrue'
    BY <2>1, <2>2, Zenon DEF searchVars
  <2>3. ASSUME StartInquiry \/ StopInquiry PROVE InquiryStateTrue'
    BY <2>3, Zenon DEF StartInquiry, StopInquiry
  <2>4. ASSUME NEW a, InquiryResult(a) \/ ConnRequest(a) \/ NameFound(a) PROVE InquiryStateTrue'
    BY <2>2, <2>3, <2>4, Zenon DEF InquiryResult, ConnRequest, NameFound
  <2>5. ASSUME NEW a, ConnFailed(a) \/ NameFailed(a) \/ Disconnected(a) PROVE InquiryStateTrue'
    BY <2>2, <2>3, <2>5, Zenon DEF ConnFailed, NameFailed, Disconnected, GiveUp, ResumeSearch
  <2>6. ASSUME NEW a, NEW h, ConnSucceeded(a, h) \/ LeConnSucceeded(a, h) \/ CentralConnected(a, h)
        PROVE  InquiryStateTrue'
    BY <2>1, <2>2, <2>6, Zenon DEF ConnSucceeded, LeConnSucceeded, CentralConnected
  <2>7. ASSUME NEW a, NEW direct, LeAdvertisingReport(a, direct) PROVE InquiryStateTrue'
    BY <2>1, <2>2, <2>7, Zenon DEF LeAdvertisingReport, Scan
  <2>8. ASSUME NEW a, LeConnFailed(a) PROVE InquiryStateTrue'
    BY <2>1, <2>2, <2>3, <2>8, Zenon DEF LeConnFailed, Scan
  <2>9. ASSUME InquiryComplete \/ \E a \in LePeers : Advertise(a) PROVE InquiryStateTrue'
    BY <2>1, <2>3, <2>9, Zenon DEF InquiryComplete, Advertise, hostVars
  <2>10. ASSUME MgrStartInquiry \/ MgrInquiryStarted \/ MgrStopInquiry \/ MgrInquiryStopped
         PROVE  InquiryStateTrue'
    <3>1. ASSUME MgrStartInquiry PROVE InquiryStateTrue'
      <4>1. mgr' = "starting" /\ "starting" # "idle"
        BY <3>1 DEF MgrStartInquiry
      <4> QED
        BY <4>1, Zenon
    <3>2. ASSUME MgrStopInquiry PROVE InquiryStateTrue'
      <4>1. mgr' = "stopping" /\ "stopping" # "idle"
        BY <3>2 DEF MgrStopInquiry
      <4> QED
        BY <4>1, Zenon
    <3>3. ASSUME MgrInquiryStarted \/ MgrInquiryStopped PROVE InquiryStateTrue'
      BY <3>3, Zenon DEF MgrInquiryStarted, MgrInquiryStopped
    <3> QED
      BY <2>10, <3>1, <3>2, <3>3
  <2>11. ASSUME UNCHANGED vars PROVE InquiryStateTrue'
    BY <2>1, <2>11, Zenon DEF vars, hostVars, ctrlVars
  <2> QED
    BY <2>4, <2>5, <2>6, <2>7, <2>8, <2>9, <2>10, <2>11, Zenon DEF Next, BrCompletes
<1> QED
  BY <1>1, <1>2, PTL DEF Spec

(***************************************************************************)
(* Whoever is the last to go, and however, the handler that resets its     *)
(* slot starts the inquiry and the active scan again.                      *)
(***************************************************************************)
THEOREM SearchIsResumed == Spec => SearchResumes
<1> DEFINE LastGoes == InqAuto /\ ActiveDev(dev) # BT_NONE /\ ActiveDev(dev') = BT_NONE
<1>1. ASSUME TypeOK, [Next]_vars, LastGoes PROVE inquiring' /\ inquiry_state' /\ scan' = "active"
  <2>1. PICK i \in Slots : dev[i].found
    BY <1>1, ActiveDevMeans
  <2>2. \A j \in Slots : ~dev'[j].found
    BY <1>1, ActiveDevMeans
  <2>3. dev' # dev
    BY <2>1, <2>2
  <2>4. ASSUME NEW s \in Slots, dev[s].found, dev' = CountFailure(s) PROVE FALSE
    <3>1. dev[s] \in Dev /\ dev \in [Slots -> Dev]
      BY <1>1, <2>4, TypeParts DEF DevOK
    <3> QED
      BY <2>2, <2>4, <3>1 DEF CountFailure, Dev, Device
  <2>5. ASSUME StartInquiry PROVE inquiring' /\ inquiry_state' /\ scan' = "active"
    BY <2>5, Zenon DEF StartInquiry
  <2>6. ASSUME ResumeSearch(dev') PROVE inquiring' /\ inquiry_state' /\ scan' = "active"
    BY <1>1, <2>5, <2>6, Zenon DEF ResumeSearch
  <2> DEFINE a == dev[i].addr
  <2>7. \/ ConnFailed(a) \/ NameFailed(a) \/ LeConnFailed(a)
        \/ \E b \in Addrs : Disconnected(b)
    BY <1>1, <2>1, <2>2, SlotLostTo
  <2>8. CASE ConnFailed(a) \/ NameFailed(a)
    BY <2>3, <2>4, <2>6, <2>8, DevOfAddr DEF ConnFailed, NameFailed, GiveUp
  <2>9. CASE LeConnFailed(a)
    BY <1>1, <2>3, <2>4, <2>5, <2>9, DevOfAddr DEF LeConnFailed
  <2>10. CASE \E b \in Addrs : Disconnected(b)
    BY <2>3, <2>6, <2>10 DEF Disconnected
  <2> QED
    BY <2>7, <2>8, <2>9, <2>10
<1>2. TypeOK /\ [Next]_vars =>
          [LastGoes => inquiring' /\ inquiry_state' /\ scan' = "active"]_vars
  BY <1>1, Zenon
<1> QED
  BY <1>2, TypeCorrect, PTL DEF Spec, SearchResumes

-----------------------------------------------------------------------------
(* No slot waits in vain, but by the two accidents.                        *)

Excused(i) == dev[i].addr \in misled \cup refused

\* A step on behalf of a device leaves the slots of the others attended to, or excused.
LEMMA OthersAttended ==
    ASSUME IndInv, StrandedByAccidentOnly, [Next]_vars,
           NEW a, NEW i \in Slots, dev'[i] = dev[i], dev'[i].found, dev[i].addr # a,
           \A b \in Addrs : b # a => link'[b] = link[b] /\ (b \in naming' <=> b \in naming)
    PROVE  Attended(i)' \/ Excused(i)'
<1>1. dev[i].addr \in Addrs
  BY ConnAssumption DEF IndInv, SlotsFollowLinks
<1>2. CASE Attended(i)
  BY <1>1, <1>2 DEF Attended, Linked
<1>3. CASE Excused(i)
  BY <1>3, AccidentsStay DEF Excused
<1> QED
  BY <1>2, <1>3 DEF StrandedByAccidentOnly, Excused

LEMMA StrandedStep ==
    ASSUME IndInv, StrandedByAccidentOnly, [Next]_vars
    PROVE  StrandedByAccidentOnly'
<1>1. /\ TypeOK /\ SlotsOK /\ HandlesDiffer /\ ReportsUnlinked
  BY DEF IndInv, SlotsOK
<1>2. /\ link \in [Addrs -> {"down", "asked", "up"}] /\ naming \subseteq BrPeers
      /\ dev \in [Slots -> Dev]
  BY <1>1, TypeParts DEF TypeOK, DevOK
<1>3. /\ BrPeers \subseteq Addrs /\ LePeers \subseteq Addrs /\ Centrals \subseteq Addrs
      /\ BrPeers \cap LePeers = {}
  BY ConnAssumption DEF Peers
<1> SUFFICES ASSUME NEW i \in Slots, dev'[i].found PROVE Attended(i)' \/ Excused(i)'
  BY DEF StrandedByAccidentOnly, Excused
<1>4. ASSUME UNCHANGED <<dev, link, naming>> PROVE Attended(i)' \/ Excused(i)'
  <2>1. CASE Attended(i)
    BY <1>4, <2>1 DEF Attended, Linked
  <2>2. CASE Excused(i)
    BY <1>4, <2>2, AccidentsStay DEF Excused
  <2> QED
    BY <1>4, <2>1, <2>2 DEF StrandedByAccidentOnly, Excused
<1>5. ASSUME NEW a, InquiryResult(a) \/ ConnRequest(a), a \in BrPeers PROVE Attended(i)' \/ Excused(i)'
  <2>1. /\ link' = Connect(link, a) /\ link[a] = "down" /\ naming' = naming
        /\ NewDev(dev) \in Slots /\ \E paged : dev' = [dev EXCEPT ![NewDev(dev)] = Claimed(a, paged)]
        /\ DevFromBdaddr(dev, a) = BT_NONE
    BY <1>5, NewDevIsFree DEF InquiryResult, ConnRequest
  <2>2. /\ link'[a] = "asked" /\ \A b \in Addrs : b # a => link'[b] = link[b]
    BY <1>2, <1>3, <1>5, <2>1 DEF Connect
  <2>3. CASE i = NewDev(dev)
    BY <1>2, <2>1, <2>2, <2>3 DEF Attended, Linked, Claimed, Blank
  <2>4. CASE i # NewDev(dev)
    <3>1. dev'[i] = dev[i] /\ dev[i].addr # a
      BY <1>2, <2>1, <2>4, DevOfAddr
    <3> QED
      BY <2>1, <2>2, <3>1, OthersAttended
  <2> QED
    BY <2>3, <2>4
<1>6. ASSUME NEW a \in LePeers, NEW direct \in BOOLEAN, LeAdvertisingReport(a, direct)
      PROVE  Attended(i)' \/ Excused(i)'
  <2>1. CASE DevFromBdaddr(dev, a) = BT_NONE /\ NewDev(dev) # BT_NONE
    <3>1. /\ link' = LeConnect(link, a) /\ link[a] # "up" /\ naming' = naming
          /\ NewDev(dev) \in Slots /\ dev' = [dev EXCEPT ![NewDev(dev)] = Claimed(a, direct)]
      BY <1>1, <1>6, <2>1, NewDevIsFree DEF LeAdvertisingReport, ReportsUnlinked, Linked
    <3>2. /\ link'[a] = "asked" \/ a \in refused'
          /\ \A b \in Addrs : b # a => link'[b] = link[b]
      BY <1>2, <1>3, <1>6, <2>1, <3>1 DEF LeAdvertisingReport, LeConnect, Connect, LeRefused
    <3>3. CASE i = NewDev(dev)
      BY <1>2, <1>3, <3>1, <3>2, <3>3 DEF Attended, Excused, Linked, Claimed, Blank
    <3>4. CASE i # NewDev(dev)
      <4>1. dev'[i] = dev[i] /\ dev[i].addr # a
        BY <1>2, <2>1, <3>1, <3>4, DevOfAddr
      <4> QED
        BY <3>1, <3>2, <4>1, OthersAttended
    <3> QED
      BY <3>3, <3>4
  <2> QED
    BY <1>4, <1>6, <2>1 DEF LeAdvertisingReport
\* A slot that is changed or reset, or none: the slot of a device is one.
<1>7. ASSUME NEW a, DevFromBdaddr(dev, a) = BT_NONE, dev' = dev PROVE dev'[i] = dev[i] /\ dev[i].addr # a
  BY <1>7, DevOfAddr
<1>8. ASSUME NEW a, DevFromBdaddr(dev, a) # BT_NONE,
             NEW d, dev' = [dev EXCEPT ![DevFromBdaddr(dev, a)] = d]
      PROVE  IF i = DevFromBdaddr(dev, a) THEN dev'[i] = d /\ dev[i].found /\ dev[i].addr = a
             ELSE dev'[i] = dev[i] /\ dev[i].addr # a
  BY <1>1, <1>2, <1>8, DevOfAddr DEF SlotsOK, OneSlotPerDevice
<1>9. ASSUME NEW a \in Addrs, link[a] = "asked", NEW s, s = DevFromBdaddr(dev, a), s # BT_NONE
      PROVE  dev[s] \in Dev /\ dev[s].found /\ dev[s].addr = a
  BY <1>1, <1>2, <1>9, DevOfAddr
<1>10. ASSUME NEW a \in Addrs, link[a] = "asked", DevFromBdaddr(dev, a) # BT_NONE,
              dev' = CountFailure(DevFromBdaddr(dev, a)), naming' = naming,
              link'[a] = "asked" \/ a \in refused', \A b \in Addrs : b # a => link'[b] = link[b]
       PROVE  Attended(i)' \/ Excused(i)'
  <2> DEFINE s == DevFromBdaddr(dev, a)
  <2>1. dev' = [dev EXCEPT ![s] = [dev[s] EXCEPT !.pkt_retry = dev[s].pkt_retry + 1]]
    BY <1>10 DEF CountFailure
  <2>2. CASE i = s
    <3>1. dev'[i].addr = a
      BY <1>2, <1>9, <1>10, <2>1, <2>2 DEF Dev, Device
    <3> QED
      BY <1>10, <3>1 DEF Attended, Excused, Linked
  <2>3. CASE i # s
    BY <1>8, <1>10, <2>1, <2>3, OthersAttended
  <2> QED
    BY <2>2, <2>3
<1>11. ASSUME NEW a, DevFromBdaddr(dev, a) # BT_NONE,
              dev' = [dev EXCEPT ![DevFromBdaddr(dev, a)] = Blank],
              \A b \in Addrs : b # a => link'[b] = link[b] /\ (b \in naming' <=> b \in naming)
       PROVE  Attended(i)' \/ Excused(i)'
  <2>1. ~Blank.found
    BY DEF Blank
  <2>2. i # DevFromBdaddr(dev, a)
    BY <1>8, <1>11, <2>1
  <2> QED
    BY <1>8, <1>11, <2>2, OthersAttended
<1>12. ASSUME NEW a \in BrPeers, ConnFailed(a) PROVE Attended(i)' \/ Excused(i)'
  <2>1. /\ link[a] = "asked" /\ naming' = naming
        /\ \A b \in Addrs : b # a => link'[b] = link[b]
    BY <1>2, <1>3, <1>12 DEF ConnFailed, Connect
  <2>2. CASE DevFromBdaddr(dev, a) = BT_NONE
    BY <1>7, <1>12, <2>1, <2>2, OthersAttended DEF ConnFailed
  <2>3. CASE DevFromBdaddr(dev, a) # BT_NONE /\ dev' = CountFailure(DevFromBdaddr(dev, a))
             /\ link' = Connect([link EXCEPT ![a] = "down"], a)
    <3>1. link'[a] = "asked"
      BY <1>2, <1>3, <2>3 DEF Connect
    <3> QED
      BY <1>3, <1>10, <2>1, <2>3, <3>1
  <2>4. CASE DevFromBdaddr(dev, a) # BT_NONE /\ dev' = [dev EXCEPT ![DevFromBdaddr(dev, a)] = Blank]
    BY <1>11, <2>1, <2>4
  <2> QED
    BY <1>12, <2>2, <2>3, <2>4 DEF ConnFailed, GiveUp
<1>13. ASSUME NEW a \in LePeers, LeConnFailed(a) PROVE Attended(i)' \/ Excused(i)'
  <2>1. /\ link[a] = "asked" /\ naming' = naming
        /\ \A b \in Addrs : b # a => link'[b] = link[b]
    BY <1>2, <1>3, <1>13 DEF LeConnFailed, LeConnect, Connect
  <2>2. CASE DevFromBdaddr(dev, a) = BT_NONE
    BY <1>7, <1>13, <2>1, <2>2, OthersAttended DEF LeConnFailed
  <2>3. CASE DevFromBdaddr(dev, a) # BT_NONE /\ dev' = CountFailure(DevFromBdaddr(dev, a))
             /\ link' = LeConnect([link EXCEPT ![a] = "down"], a)
             /\ refused' = LeRefused([link EXCEPT ![a] = "down"], a)
    <3>1. link'[a] = "asked" \/ a \in refused'
      BY <1>2, <1>3, <2>3 DEF LeConnect, Connect, LeRefused
    <3> QED
      BY <1>3, <1>10, <2>1, <2>3, <3>1
  <2>4. CASE DevFromBdaddr(dev, a) # BT_NONE /\ dev' = [dev EXCEPT ![DevFromBdaddr(dev, a)] = Blank]
    BY <1>11, <2>1, <2>4
  <2> QED
    BY <1>13, <2>2, <2>3, <2>4 DEF LeConnFailed
<1>14. ASSUME NEW a \in BrPeers, NameFailed(a) PROVE Attended(i)' \/ Excused(i)'
  <2>1. a \in naming /\ link' = link
    BY <1>14 DEF NameFailed
  <2>2. CASE DevFromBdaddr(dev, a) # BT_NONE /\ dev' = CountFailure(DevFromBdaddr(dev, a))
             /\ naming' = naming
    <3> DEFINE s == DevFromBdaddr(dev, a)
    <3>1. dev' = [dev EXCEPT ![s] = [dev[s] EXCEPT !.pkt_retry = dev[s].pkt_retry + 1]]
      BY <2>2 DEF CountFailure
    <3>2. s \in Slots /\ dev[s].found /\ dev[s].addr = a /\ dev[s] \in Dev
      BY <1>2, <2>2, DevOfAddr
    <3>3. CASE i = s
      <4>1. dev'[i].addr = a
        BY <1>2, <3>1, <3>2, <3>3 DEF Dev, Device
      <4> QED
        BY <2>1, <2>2, <3>2, <3>3, <4>1, AccidentsStay
           DEF StrandedByAccidentOnly, Attended, Excused, Linked
    <3>4. CASE i # s
      BY <1>8, <2>1, <2>2, <3>1, <3>4, OthersAttended
    <3> QED
      BY <3>3, <3>4
  <2>3. ASSUME naming' = naming \ {a}
        PROVE  \A b \in Addrs : b # a => link'[b] = link[b] /\ (b \in naming' <=> b \in naming)
    BY <2>1, <2>3
  <2>4. CASE DevFromBdaddr(dev, a) = BT_NONE /\ dev' = dev /\ naming' = naming \ {a}
    BY <1>7, <2>3, <2>4, OthersAttended
  <2>5. CASE DevFromBdaddr(dev, a) # BT_NONE /\ dev' = [dev EXCEPT ![DevFromBdaddr(dev, a)] = Blank]
             /\ naming' = naming \ {a}
    BY <1>11, <2>3, <2>5
  <2> QED
    BY <1>14, <2>2, <2>4, <2>5 DEF NameFailed, GiveUp
<1>15. ASSUME NEW a \in BrPeers, NameFound(a) PROVE Attended(i)' \/ Excused(i)'
  <2>1. /\ link' = link
        /\ \A b \in Addrs : b # a => link'[b] = link[b] /\ (b \in naming' <=> b \in naming)
    BY <1>15 DEF NameFound
  <2>2. CASE DevFromBdaddr(dev, a) = BT_NONE
    BY <1>7, <1>15, <2>1, <2>2, OthersAttended DEF NameFound
  <2>3. CASE DevFromBdaddr(dev, a) # BT_NONE
    <3> DEFINE s == DevFromBdaddr(dev, a)
    <3>1. dev' = [dev EXCEPT ![s] = [dev[s] EXCEPT !.named = TRUE]]
      BY <1>15, <2>3 DEF NameFound
    <3>2. s \in Slots /\ dev[s].found /\ dev[s].addr = a /\ dev[s] \in Dev
      BY <1>2, <2>3, DevOfAddr
    <3>3. CASE i = s
      <4>1. dev'[i].addr = a /\ dev'[i].named
        BY <1>2, <3>1, <3>2, <3>3 DEF Dev, Device
      <4> QED
        BY <2>1, <3>2, <3>3, <4>1, AccidentsStay
           DEF StrandedByAccidentOnly, Attended, Excused, Linked
    <3>4. CASE i # s
      BY <1>8, <2>1, <2>3, <3>1, <3>4, OthersAttended
    <3> QED
      BY <3>3, <3>4
  <2> QED
    BY <2>2, <2>3
<1>16. ASSUME NEW a \in Addrs, NEW h \in Handles, ConnSucceeded(a, h) \/ LeConnSucceeded(a, h),
              a \in LePeers \/ ConnSucceeded(a, h)
       PROVE  Attended(i)' \/ Excused(i)'
  <2>1. /\ link'[a] = "up" /\ \A b \in Addrs : b # a => link'[b] = link[b]
        /\ \A b \in Addrs : b # a => (b \in naming' <=> b \in naming)
    BY <1>2, <1>16 DEF ConnSucceeded, LeConnSucceeded, Up
  <2>2. CASE DevFromBdaddr(dev, a) = BT_NONE
    BY <1>7, <1>16, <2>1, <2>2, OthersAttended DEF ConnSucceeded, LeConnSucceeded
  <2>3. CASE DevFromBdaddr(dev, a) # BT_NONE
    <3> DEFINE s == DevFromBdaddr(dev, a)
    <3>1. s \in Slots /\ dev[s].found /\ dev[s].addr = a /\ dev[s] \in Dev
      BY <1>2, <2>3, DevOfAddr
    <3>2. dev' = [dev EXCEPT ![s] = [dev[s] EXCEPT !.acl_handle = h, !.pkt_retry = 0]]
      BY <1>2, <1>16, <2>3, <3>1 DEF ConnSucceeded, LeConnSucceeded
    <3>3. a \in BrPeers => a \in naming'
      BY <1>3, <1>16, <2>3 DEF ConnSucceeded
    <3>4. CASE i = s
      <4>1. dev'[i].addr = a
        BY <1>2, <3>1, <3>2, <3>4 DEF Dev, Device
      <4> QED
        BY <2>1, <3>3, <4>1 DEF Attended, Linked
    <3>5. CASE i # s
      BY <1>8, <2>1, <2>3, <3>2, <3>5, OthersAttended
    <3> QED
      BY <3>4, <3>5
  <2> QED
    BY <2>2, <2>3
<1>17. ASSUME NEW c \in Centrals, NEW h \in Handles, CentralConnected(c, h) PROVE Attended(i)' \/ Excused(i)'
  <2>1. dev' = dev /\ naming' = naming /\ \A b \in Addrs : b # c => link'[b] = link[b]
    BY <1>2, <1>3, <1>17 DEF CentralConnected, Up
  <2>2. dev[i].addr # c
    BY <1>1, <2>1, ConnAssumption DEF SlotsOK, SlotsFollowLinks
  <2> QED
    BY <2>1, <2>2, OthersAttended
<1>18. ASSUME NEW a \in Addrs, Disconnected(a) PROVE Attended(i)' \/ Excused(i)'
  <2> DEFINE s == DevFromHandle(dev, handleOf[a])
  <2>1. Linked(a) /\ naming' = naming /\ \A b \in Addrs : b # a => link'[b] = link[b]
    BY <1>2, <1>18 DEF Disconnected, Linked
  <2>2. dev'[i] = dev[i] /\ (s = BT_NONE \/ i # s)
    <3>1. dev' = dev \/ (s \in Slots /\ dev' = [dev EXCEPT ![s] = Blank])
      BY <1>18, DevOfHandle DEF Disconnected
    <3>2. s # BT_NONE => dev' = [dev EXCEPT ![s] = Blank]
      BY <1>18 DEF Disconnected
    <3>3. ~Blank.found
      BY DEF Blank
    <3> HIDE DEF s
    <3> QED
      BY <1>2, <3>1, <3>2, <3>3
  <2>3. CASE dev[i].addr # a
    BY <2>1, <2>2, <2>3, OthersAttended
  <2>4. CASE dev[i].addr = a
    <3>1. s # BT_NONE
      BY <1>1, <2>1, <2>2, <2>4, HandleLeadsToSlot DEF HasSlot
    <3>2. s \in Slots /\ dev[s].found
      BY <3>1, DevOfHandle
    <3>3. dev[s].addr # a
      BY <1>1, <2>2, <2>4, <3>1, <3>2 DEF SlotsOK, OneSlotPerDevice
    <3>4. a \in misled'
      BY <1>18, <3>1, <3>3 DEF Disconnected
    <3> QED
      BY <2>2, <2>4, <3>4 DEF Excused
  <2> QED
    BY <2>3, <2>4
<1>19. ASSUME \/ InquiryComplete
              \/ \E a \in LePeers : Advertise(a)
              \/ MgrStartInquiry \/ MgrInquiryStarted \/ MgrStopInquiry \/ MgrInquiryStopped
              \/ UNCHANGED vars
       PROVE  Attended(i)' \/ Excused(i)'
  BY <1>4, <1>19, Zenon DEF InquiryComplete, Advertise, MgrStartInquiry, MgrInquiryStarted,
     MgrStopInquiry, MgrInquiryStopped, vars, hostVars, ctrlVars
<1> QED
  BY <1>3, <1>5, <1>6, <1>12, <1>13, <1>14, <1>15, <1>16, <1>17, <1>18, <1>19, Zenon
     DEF Next, BrCompletes

(***************************************************************************)
(* Every slot in use belongs to a device that is being connected to or is  *)
(* connected, and every BR/EDR device that is connected has its name or is *)
(* being asked for it, with two exceptions: a BLE device whose connection  *)
(* the controller refused to make because it was making another, and a     *)
(* device whose link had handle 0 and ended in the reset of another slot.  *)
(***************************************************************************)
THEOREM NothingStranded == Spec => []StrandedByAccidentOnly
<1>1. Init => StrandedByAccidentOnly
  <2> SUFFICES ASSUME Init PROVE StrandedByAccidentOnly
    OBVIOUS
  <2>1. \A i \in Slots : ~dev[i].found
    BY Zenon DEF Init, Blank
  <2> QED
    BY <2>1 DEF StrandedByAccidentOnly
<1>2. IndInv /\ StrandedByAccidentOnly /\ [Next]_vars => StrandedByAccidentOnly'
  BY StrandedStep
<1> QED
  BY <1>1, <1>2, Invariant, PTL DEF Spec

=============================================================================
