--------------------------- MODULE HidLinkProofs ---------------------------
(***************************************************************************)
(* HidLink, for every behaviour: the strengthened invariant IndInv is      *)
(* inductive, and the two properties of the start of the reports follow.   *)
(* SwStart: the calibration a Switch controller's sticks are read with.    *)
(***************************************************************************)
EXTENDS HidLink, SwStart, TLAPS

(* The initial state, and the steps that change nothing. *)
LEMMA InitHolds == Init => IndInv
  BY DEF Init, IndInv, TypeOK, UsedWhenConfigured, ChannelsNoted, FeaturesInOrder,
        AuthenticatedFirst, AskedAsGeneric, ComparedInTime, Usable, Types, Chans

LEMMA StutterKeeps == IndInv /\ UNCHANGED vars => IndInv'
  BY DEF vars, session, task, IndInv, TypeOK, UsedWhenConfigured, ChannelsNoted,
        FeaturesInOrder, AuthenticatedFirst, AskedAsGeneric, ComparedInTime, Usable

-----------------------------------------------------------------------------
(* One lemma for each action: what it keeps of the invariant.              *)

(* A device connects to a free slot. *)
LEMMA ConnectedKeeps ==
    ASSUME IndInv, NEW paged \in BOOLEAN, Connected(paged)
    PROVE  IndInv'
<1>1. TypeOK'
  BY DEF IndInv, TypeOK, Types, Chans, Connected, Blank, task
<1>2. UsedWhenConfigured'
  BY DEF IndInv, TypeOK, UsedWhenConfigured, Usable, Chans, Connected, Blank, task
<1>3. ChannelsNoted'
  BY DEF IndInv, TypeOK, ChannelsNoted, Usable, Chans, Connected, Blank, task
<1>4. FeaturesInOrder'
  BY DEF IndInv, TypeOK, FeaturesInOrder, Chans, Connected, Blank, task
<1>5. AuthenticatedFirst'
  BY DEF IndInv, TypeOK, AuthenticatedFirst, Chans, Connected, Blank, task
<1>6. AskedAsGeneric'
  BY DEF IndInv, AskedAsGeneric, Usable, Connected, Blank, task
<1>7. ComparedInTime'
  BY DEF IndInv, ComparedInTime, Connected, Blank, task
<1> QED  BY <1>1, <1>2, <1>3, <1>4, <1>5, <1>6, <1>7 DEF IndInv

(* A link goes, and its slot with it. *)
LEMMA DisconnectedKeeps ==
    ASSUME IndInv, Disconnected
    PROVE  IndInv'
<1>1. TypeOK'
  BY DEF IndInv, TypeOK, Types, Chans, Disconnected, Blank, task
<1>2. UsedWhenConfigured'
  BY DEF IndInv, TypeOK, UsedWhenConfigured, Usable, Chans, Disconnected, Blank, task
<1>3. ChannelsNoted'
  BY DEF IndInv, TypeOK, ChannelsNoted, Usable, Chans, Disconnected, Blank, task
<1>4. FeaturesInOrder'
  BY DEF IndInv, FeaturesInOrder, Disconnected, Blank, task
<1>5. AuthenticatedFirst'
  BY DEF IndInv, AuthenticatedFirst, Disconnected, Blank, task
<1>6. AskedAsGeneric'
  BY DEF IndInv, TypeOK, AskedAsGeneric, Usable, Chans, Disconnected, Blank, task
<1>7. ComparedInTime'
  BY DEF IndInv, ComparedInTime, Disconnected, Blank, task
<1> QED  BY <1>1, <1>2, <1>3, <1>4, <1>5, <1>6, <1>7 DEF IndInv

(* The name tells the type. *)
LEMMA NameFoundKeeps ==
    ASSUME IndInv, NEW t \in Types \ {"none"}, NameFound(t)
    PROVE  IndInv'
<1>1. TypeOK'
  BY DEF IndInv, TypeOK, Types, Chans, NameFound, Answered, task
<1>2. UsedWhenConfigured'
  BY DEF IndInv, UsedWhenConfigured, Usable, NameFound, Answered, task
<1>3. ChannelsNoted'
  BY DEF IndInv, ChannelsNoted, Usable, NameFound, Answered, task
<1>4. FeaturesInOrder'
  BY DEF IndInv, FeaturesInOrder, NameFound, Answered, task
<1>5. AuthenticatedFirst'
  BY DEF IndInv, AuthenticatedFirst, NameFound, Answered, task
<1>6. AskedAsGeneric'
  BY DEF IndInv, TypeOK, UsedWhenConfigured, ChannelsNoted, FeaturesInOrder, AuthenticatedFirst,
        AskedAsGeneric, ComparedInTime, Usable, Types, Chans, NameFound, Answered, task
<1>7. ComparedInTime'
  BY DEF IndInv, TypeOK, UsedWhenConfigured, ChannelsNoted, FeaturesInOrder, AuthenticatedFirst,
        AskedAsGeneric, ComparedInTime, Usable, Types, Chans, NameFound, Answered, task
<1> QED  BY <1>1, <1>2, <1>3, <1>4, <1>5, <1>6, <1>7 DEF IndInv

(* The features of a device. *)
LEMMA RemoteFeaturesKeeps ==
    ASSUME IndInv, NEW encrypts \in BOOLEAN, RemoteFeatures(encrypts)
    PROVE  IndInv'
<1>1. TypeOK'
  BY DEF IndInv, TypeOK, Types, Chans, RemoteFeatures, Answered, task
<1>2. UsedWhenConfigured'
  BY DEF IndInv, UsedWhenConfigured, Usable, RemoteFeatures, Answered, task
<1>3. ChannelsNoted'
  BY DEF IndInv, ChannelsNoted, Usable, RemoteFeatures, Answered, task
<1>4. FeaturesInOrder'
  BY DEF IndInv, FeaturesInOrder, RemoteFeatures, Answered, task
<1>5. AuthenticatedFirst'
  BY DEF IndInv, AuthenticatedFirst, RemoteFeatures, Answered, task
<1>6. AskedAsGeneric'
  BY DEF IndInv, AskedAsGeneric, Usable, RemoteFeatures, Answered, task
<1>7. ComparedInTime'
  BY DEF IndInv, ComparedInTime, RemoteFeatures, Answered, task
<1> QED  BY <1>1, <1>2, <1>3, <1>4, <1>5, <1>6, <1>7 DEF IndInv

(* The discovery channel may be opened. *)
LEMMA InfoRspKeeps ==
    ASSUME IndInv, InfoRsp
    PROVE  IndInv'
<1>1. TypeOK'
  BY DEF IndInv, TypeOK, Types, Chans, InfoRsp, Answered, task
<1>2. UsedWhenConfigured'
  BY DEF IndInv, UsedWhenConfigured, Usable, InfoRsp, Answered, task
<1>3. ChannelsNoted'
  BY DEF IndInv, TypeOK, UsedWhenConfigured, ChannelsNoted, FeaturesInOrder, AuthenticatedFirst,
        AskedAsGeneric, ComparedInTime, Usable, Types, Chans, InfoRsp, Answered, task
<1>4. FeaturesInOrder'
  BY DEF IndInv, FeaturesInOrder, InfoRsp, Answered, task
<1>5. AuthenticatedFirst'
  BY DEF IndInv, AuthenticatedFirst, InfoRsp, Answered, task
<1>6. AskedAsGeneric'
  BY DEF IndInv, TypeOK, AskedAsGeneric, Usable, Chans, InfoRsp, Answered, task
<1>7. ComparedInTime'
  BY DEF IndInv, ComparedInTime, InfoRsp, Answered, task
<1> QED  BY <1>1, <1>2, <1>3, <1>4, <1>5, <1>6, <1>7 DEF IndInv

(* The control channel is opened. *)
LEMMA AuthCompleteKeeps ==
    ASSUME IndInv, AuthComplete
    PROVE  IndInv'
<1>1. TypeOK'
  BY DEF IndInv, TypeOK, Types, Chans, AuthComplete, Answered, task
<1>2. UsedWhenConfigured'
  BY DEF IndInv, UsedWhenConfigured, Usable, AuthComplete, Answered, task
<1>3. ChannelsNoted'
  BY DEF IndInv, TypeOK, UsedWhenConfigured, ChannelsNoted, FeaturesInOrder, AuthenticatedFirst,
        AskedAsGeneric, ComparedInTime, Usable, Types, Chans, AuthComplete, Answered, task
<1>4. FeaturesInOrder'
  BY DEF IndInv, FeaturesInOrder, AuthComplete, Answered, task
<1>5. AuthenticatedFirst'
  BY DEF IndInv, AuthenticatedFirst, AuthComplete, Answered, task
<1>6. AskedAsGeneric'
  BY DEF IndInv, AskedAsGeneric, Usable, AuthComplete, Answered, task
<1>7. ComparedInTime'
  BY DEF IndInv, ComparedInTime, AuthComplete, Answered, task
<1> QED  BY <1>1, <1>2, <1>3, <1>4, <1>5, <1>6, <1>7 DEF IndInv

(* No channel is opened. *)
LEMMA AuthFailedKeeps ==
    ASSUME IndInv, AuthFailed
    PROVE  IndInv'
<1>1. TypeOK'
  BY DEF IndInv, TypeOK, Types, Chans, AuthFailed, Answered, task
<1>2. UsedWhenConfigured'
  BY DEF IndInv, UsedWhenConfigured, Usable, AuthFailed, Answered, task
<1>3. ChannelsNoted'
  BY DEF IndInv, ChannelsNoted, Usable, AuthFailed, Answered, task
<1>4. FeaturesInOrder'
  BY DEF IndInv, FeaturesInOrder, AuthFailed, Answered, task
<1>5. AuthenticatedFirst'
  BY DEF IndInv, AuthenticatedFirst, AuthFailed, Answered, task
<1>6. AskedAsGeneric'
  BY DEF IndInv, AskedAsGeneric, Usable, AuthFailed, Answered, task
<1>7. ComparedInTime'
  BY DEF IndInv, ComparedInTime, AuthFailed, Answered, task
<1> QED  BY <1>1, <1>2, <1>3, <1>4, <1>5, <1>6, <1>7 DEF IndInv

(* A channel is opened or refused. *)
LEMMA ConnRspKeeps ==
    ASSUME IndInv, NEW c \in Chans, NEW r \in {"open", "refused"}, ConnRsp(c, r)
    PROVE  IndInv'
<1>1. TypeOK'
  BY DEF IndInv, TypeOK, Types, Chans, ConnRsp, task
<1>2. UsedWhenConfigured'
  BY DEF IndInv, UsedWhenConfigured, Usable, ConnRsp, task
<1>3. ChannelsNoted'
  BY DEF IndInv, ChannelsNoted, Usable, ConnRsp, task
<1>4. FeaturesInOrder'
  BY DEF IndInv, FeaturesInOrder, ConnRsp, task
<1>5. AuthenticatedFirst'
  BY DEF IndInv, AuthenticatedFirst, ConnRsp, task
<1>6. AskedAsGeneric'
  BY DEF IndInv, AskedAsGeneric, Usable, ConnRsp, task
<1>7. ComparedInTime'
  BY DEF IndInv, ComparedInTime, ConnRsp, task
<1> QED  BY <1>1, <1>2, <1>3, <1>4, <1>5, <1>6, <1>7 DEF IndInv

(* The device opens a channel. *)
LEMMA ConnReqKeeps ==
    ASSUME IndInv, NEW c \in Chans, ConnReq(c)
    PROVE  IndInv'
<1>1. TypeOK'
  BY DEF IndInv, TypeOK, Types, Chans, ConnReq, task
<1>2. UsedWhenConfigured'
  BY DEF IndInv, UsedWhenConfigured, Usable, ConnReq, task
<1>3. ChannelsNoted'
  BY DEF IndInv, ChannelsNoted, Usable, ConnReq, task
<1>4. FeaturesInOrder'
  BY DEF IndInv, FeaturesInOrder, ConnReq, task
<1>5. AuthenticatedFirst'
  BY DEF IndInv, AuthenticatedFirst, ConnReq, task
<1>6. AskedAsGeneric'
  BY DEF IndInv, AskedAsGeneric, Usable, ConnReq, task
<1>7. ComparedInTime'
  BY DEF IndInv, ComparedInTime, ConnReq, task
<1> QED  BY <1>1, <1>2, <1>3, <1>4, <1>5, <1>6, <1>7 DEF IndInv

(* The discovery channel. *)
LEMMA SdpConfiguredKeeps ==
    ASSUME IndInv, NEW m \in {"req", "rsp"}, Configure("sdp", m)
    PROVE  IndInv'
<1>1. TypeOK'
  BY DEF IndInv, TypeOK, UsedWhenConfigured, ChannelsNoted, FeaturesInOrder, AuthenticatedFirst,
        AskedAsGeneric, ComparedInTime, Usable, Types, Chans, Configure, SdpConfigured,
        SecondOf, task
<1>2. UsedWhenConfigured'
  BY DEF IndInv, TypeOK, UsedWhenConfigured, ChannelsNoted, UsedWhenConfigured, Usable, Chans,
        Configure, SdpConfigured, SecondOf, task
<1>3. ChannelsNoted'
  BY DEF IndInv, TypeOK, ChannelsNoted, Usable, Chans, Configure, SdpConfigured, SecondOf, task
<1>4. FeaturesInOrder'
  BY DEF IndInv, TypeOK, UsedWhenConfigured, ChannelsNoted, FeaturesInOrder, Usable, Chans,
        Configure, SdpConfigured, SecondOf, task
<1>5. AuthenticatedFirst'
  BY DEF IndInv, AuthenticatedFirst, Configure, SdpConfigured, SecondOf, task
<1>6. AskedAsGeneric'
  BY DEF IndInv, AskedAsGeneric, Usable, Configure, SdpConfigured, SecondOf, task
<1>7. ComparedInTime'
  BY DEF IndInv, ComparedInTime, Configure, SdpConfigured, SecondOf, task
<1> QED  BY <1>1, <1>2, <1>3, <1>4, <1>5, <1>6, <1>7 DEF IndInv

(* The control channel. *)
LEMMA CtrlConfiguredKeeps ==
    ASSUME IndInv, NEW m \in {"req", "rsp"}, Configure("ctrl", m)
    PROVE  IndInv'
<1>1. TypeOK'
  BY DEF IndInv, TypeOK, Types, Chans, Configure, CtrlConfigured, SecondOf, task
<1>2. UsedWhenConfigured'
  BY DEF IndInv, TypeOK, UsedWhenConfigured, ChannelsNoted, UsedWhenConfigured, Usable, Chans,
        Configure, CtrlConfigured, SecondOf, task
<1>3. ChannelsNoted'
  BY DEF IndInv, TypeOK, UsedWhenConfigured, ChannelsNoted, ChannelsNoted, Usable, Chans,
        Configure, CtrlConfigured, SecondOf, task
<1>4. FeaturesInOrder'
  BY DEF IndInv, TypeOK, FeaturesInOrder, Chans, Configure, CtrlConfigured, SecondOf, task
<1>5. AuthenticatedFirst'
  BY DEF IndInv, AuthenticatedFirst, Configure, CtrlConfigured, SecondOf, task
<1>6. AskedAsGeneric'
  BY DEF IndInv, TypeOK, AskedAsGeneric, Usable, Chans, Configure, CtrlConfigured, SecondOf, task
<1>7. ComparedInTime'
  BY DEF IndInv, ComparedInTime, Configure, CtrlConfigured, SecondOf, task
<1> QED  BY <1>1, <1>2, <1>3, <1>4, <1>5, <1>6, <1>7 DEF IndInv

(* The interrupt channel: the reports are started. *)
LEMMA IntrConfiguredKeeps ==
    ASSUME IndInv, NEW m \in {"req", "rsp"}, Configure("intr", m)
    PROVE  IndInv'
<1>1. TypeOK'
  BY DEF IndInv, TypeOK, Types, Chans, Configure, IntrConfigured, SecondOf, HidInit, task
<1>2. UsedWhenConfigured'
  BY DEF IndInv, TypeOK, UsedWhenConfigured, ChannelsNoted, UsedWhenConfigured, Usable, Chans,
        Configure, IntrConfigured, SecondOf, HidInit, task
<1>3. ChannelsNoted'
  BY DEF IndInv, TypeOK, ChannelsNoted, Usable, Chans, Configure, IntrConfigured, SecondOf,
        HidInit, task
<1>4. FeaturesInOrder'
  BY DEF IndInv, FeaturesInOrder, Configure, IntrConfigured, SecondOf, HidInit, task
<1>5. AuthenticatedFirst'
  BY DEF IndInv, AuthenticatedFirst, Configure, IntrConfigured, SecondOf, HidInit, task
<1>6. AskedAsGeneric'
  BY DEF IndInv, AskedAsGeneric, Usable, Configure, IntrConfigured, SecondOf, HidInit, task
<1>7. ComparedInTime'
  BY DEF IndInv, ComparedInTime, Configure, IntrConfigured, SecondOf, HidInit, task
<1> QED  BY <1>1, <1>2, <1>3, <1>4, <1>5, <1>6, <1>7 DEF IndInv

(* The descriptors are there. *)
LEMMA SdpEndKeeps ==
    ASSUME IndInv, SdpEnd
    PROVE  IndInv'
<1>1. TypeOK'
  BY DEF IndInv, TypeOK, Types, Chans, SdpEnd, Answered, task
<1>2. UsedWhenConfigured'
  BY DEF IndInv, UsedWhenConfigured, Usable, SdpEnd, Answered, task
<1>3. ChannelsNoted'
  BY DEF IndInv, ChannelsNoted, Usable, SdpEnd, Answered, task
<1>4. FeaturesInOrder'
  BY DEF IndInv, FeaturesInOrder, SdpEnd, Answered, task
<1>5. AuthenticatedFirst'
  BY DEF IndInv, AuthenticatedFirst, SdpEnd, Answered, task
<1>6. AskedAsGeneric'
  BY DEF IndInv, TypeOK, UsedWhenConfigured, ChannelsNoted, AskedAsGeneric, Usable, Chans,
        SdpEnd, Answered, task
<1>7. ComparedInTime'
  BY DEF IndInv, ComparedInTime, SdpEnd, Answered, task
<1> QED  BY <1>1, <1>2, <1>3, <1>4, <1>5, <1>6, <1>7 DEF IndInv

(* bt_host_task sees the descriptors. *)
LEMMA SdpDataSeenKeeps ==
    ASSUME IndInv, SdpDataSeen
    PROVE  IndInv'
<1>1. TypeOK'
  BY DEF IndInv, TypeOK, Types, Chans, SdpDataSeen, HGoto, session
<1>2. UsedWhenConfigured'
  BY DEF IndInv, UsedWhenConfigured, Usable, SdpDataSeen, HGoto, session
<1>3. ChannelsNoted'
  BY DEF IndInv, ChannelsNoted, Usable, SdpDataSeen, HGoto, session
<1>4. FeaturesInOrder'
  BY DEF IndInv, FeaturesInOrder, SdpDataSeen, HGoto, session
<1>5. AuthenticatedFirst'
  BY DEF IndInv, AuthenticatedFirst, SdpDataSeen, HGoto, session
<1>6. AskedAsGeneric'
  BY DEF IndInv, AskedAsGeneric, Usable, SdpDataSeen, HGoto, session
<1>7. ComparedInTime'
  BY DEF IndInv, ComparedInTime, SdpDataSeen, HGoto, session
<1> QED  BY <1>1, <1>2, <1>3, <1>4, <1>5, <1>6, <1>7 DEF IndInv

(* bt_host_task parses them. *)
LEMMA ParseKeeps ==
    ASSUME IndInv, NEW t \in {"generic", "other"}, Parse(t)
    PROVE  IndInv'
<1>1. TypeOK'
  BY DEF IndInv, TypeOK, Types, Chans, Parse, HGoto
<1>2. UsedWhenConfigured'
  BY DEF IndInv, UsedWhenConfigured, Usable, Parse, HGoto
<1>3. ChannelsNoted'
  BY DEF IndInv, ChannelsNoted, Usable, Parse, HGoto
<1>4. FeaturesInOrder'
  BY DEF IndInv, FeaturesInOrder, Parse, HGoto
<1>5. AuthenticatedFirst'
  BY DEF IndInv, AuthenticatedFirst, Parse, HGoto
<1>6. AskedAsGeneric'
  BY DEF IndInv, TypeOK, UsedWhenConfigured, ChannelsNoted, FeaturesInOrder, AuthenticatedFirst,
        AskedAsGeneric, ComparedInTime, Usable, Types, Chans, Parse, HGoto
<1>7. ComparedInTime'
  BY DEF IndInv, TypeOK, ComparedInTime, AuthenticatedFirst, FeaturesInOrder, AskedAsGeneric,
        Parse, HGoto
<1> QED  BY <1>1, <1>2, <1>3, <1>4, <1>5, <1>6, <1>7 DEF IndInv

(* bt_host_task compares the types. *)
LEMMA TestTypeKeeps ==
    ASSUME IndInv, TestType
    PROVE  IndInv'
<1>1. TypeOK'
  BY DEF IndInv, TypeOK, Types, Chans, TestType, HGoto, session
<1>2. UsedWhenConfigured'
  BY DEF IndInv, UsedWhenConfigured, Usable, TestType, HGoto, session
<1>3. ChannelsNoted'
  BY DEF IndInv, ChannelsNoted, Usable, TestType, HGoto, session
<1>4. FeaturesInOrder'
  BY DEF IndInv, FeaturesInOrder, TestType, HGoto, session
<1>5. AuthenticatedFirst'
  BY DEF IndInv, AuthenticatedFirst, TestType, HGoto, session
<1>6. AskedAsGeneric'
  BY DEF IndInv, AskedAsGeneric, Usable, TestType, HGoto, session
<1>7. ComparedInTime'
  BY DEF IndInv, ComparedInTime, TestType, HGoto, session
<1> QED  BY <1>1, <1>2, <1>3, <1>4, <1>5, <1>6, <1>7 DEF IndInv

(* bt_host_task starts the reports again. *)
LEMMA InitAgainKeeps ==
    ASSUME IndInv, InitAgain
    PROVE  IndInv'
<1>1. TypeOK'
  BY DEF IndInv, TypeOK, Types, Chans, InitAgain, HidInit, HGoto
<1>2. UsedWhenConfigured'
  BY DEF IndInv, UsedWhenConfigured, Usable, InitAgain, HidInit, HGoto
<1>3. ChannelsNoted'
  BY DEF IndInv, ChannelsNoted, Usable, InitAgain, HidInit, HGoto
<1>4. FeaturesInOrder'
  BY DEF IndInv, FeaturesInOrder, InitAgain, HidInit, HGoto
<1>5. AuthenticatedFirst'
  BY DEF IndInv, AuthenticatedFirst, InitAgain, HidInit, HGoto
<1>6. AskedAsGeneric'
  BY DEF IndInv, AskedAsGeneric, Usable, InitAgain, HidInit, HGoto
<1>7. ComparedInTime'
  BY DEF IndInv, ComparedInTime, InitAgain, HidInit, HGoto
<1> QED  BY <1>1, <1>2, <1>3, <1>4, <1>5, <1>6, <1>7 DEF IndInv

(* bt_host_task is done. *)
LEMMA SdpDataDoneKeeps ==
    ASSUME IndInv, SdpDataDone
    PROVE  IndInv'
<1>1. TypeOK'
  BY DEF IndInv, TypeOK, Types, Chans, SdpDataDone, HGoto
<1>2. UsedWhenConfigured'
  BY DEF IndInv, UsedWhenConfigured, Usable, SdpDataDone, HGoto
<1>3. ChannelsNoted'
  BY DEF IndInv, ChannelsNoted, Usable, SdpDataDone, HGoto
<1>4. FeaturesInOrder'
  BY DEF IndInv, FeaturesInOrder, SdpDataDone, HGoto
<1>5. AuthenticatedFirst'
  BY DEF IndInv, AuthenticatedFirst, SdpDataDone, HGoto
<1>6. AskedAsGeneric'
  BY DEF IndInv, AskedAsGeneric, Usable, SdpDataDone, HGoto
<1>7. ComparedInTime'
  BY DEF IndInv, ComparedInTime, SdpDataDone, HGoto
<1> QED  BY <1>1, <1>2, <1>3, <1>4, <1>5, <1>6, <1>7 DEF IndInv

-----------------------------------------------------------------------------
LEMMA HostTaskKeeps ==
    ASSUME IndInv, HostTask
    PROVE  IndInv'
  BY SdpDataSeenKeeps, ParseKeeps, TestTypeKeeps, InitAgainKeeps, SdpDataDoneKeeps DEF HostTask

LEMMA ChannelAnswersKeeps ==
    ASSUME IndInv, NEW c \in Chans, ChannelAnswers(c)
    PROVE  IndInv'
<1>1. CASE \E r \in {"open", "refused"} : ConnRsp(c, r)
  BY <1>1, ConnRspKeeps
<1>2. CASE \E m \in {"req", "rsp"} : Configure(c, m)
  BY <1>2, SdpConfiguredKeeps, CtrlConfiguredKeeps, IntrConfiguredKeeps DEF Chans
<1> QED  BY <1>1, <1>2 DEF ChannelAnswers

LEMMA StepKeeps == IndInv /\ [Next]_vars => IndInv'
<1> SUFFICES ASSUME IndInv, [Next]_vars PROVE IndInv'
  OBVIOUS
<1>1. CASE \E paged \in BOOLEAN : Connected(paged)  BY <1>1, ConnectedKeeps
<1>2. CASE Disconnected  BY <1>2, DisconnectedKeeps
<1>3. CASE \E t \in Types \ {"none"} : NameFound(t)  BY <1>3, NameFoundKeeps
<1>4. CASE \E encrypts \in BOOLEAN : RemoteFeatures(encrypts)  BY <1>4, RemoteFeaturesKeeps
<1>5. CASE InfoRsp  BY <1>5, InfoRspKeeps
<1>6. CASE AuthComplete  BY <1>6, AuthCompleteKeeps
<1>7. CASE AuthFailed  BY <1>7, AuthFailedKeeps
<1>8. CASE \E c \in Chans : ChannelAnswers(c) \/ ConnReq(c)
  BY <1>8, ChannelAnswersKeeps, ConnReqKeeps
<1>9. CASE SdpEnd  BY <1>9, SdpEndKeeps
<1>10. CASE HostTask  BY <1>10, HostTaskKeeps
<1>11. CASE UNCHANGED vars  BY <1>11, StutterKeeps
<1> QED
  BY <1>1, <1>2, <1>3, <1>4, <1>5, <1>6, <1>7, <1>8, <1>9, <1>10, <1>11 DEF Next

(* The strengthened invariant is one: the handlers impose it on the session *)
(* of a slot, whatever order the answers and the turns of bt_host_task take. *)
THEOREM Invariant == Spec => []IndInv
  BY InitHolds, StepKeeps, PTL DEF Spec

(* Nothing is sent on a channel that is not configured in both directions   *)
(* (bt_l2cap_sig_hdlr, which keeps one flag for the two messages).          *)
THEOREM OnlyConfiguredUsed == Spec => []UsedWhenConfigured
<1>1. IndInv => UsedWhenConfigured  BY DEF IndInv
<1> QED  BY Invariant, <1>1, PTL

(* bt_hid_init was last called for the type of the controller, once the     *)
(* interrupt channel is ready, whether the channel or the discovery came    *)
(* first, except while bt_host_task is about to call it.                    *)
THEOREM InitialisedRight == Spec => []InitialisedForType
<1>1. IndInv => InitialisedForType
  BY DEF IndInv, TypeOK, ComparedInTime, InitialisedForType
<1> QED  BY Invariant, <1>1, PTL

-----------------------------------------------------------------------------
(***************************************************************************)
(* SwStart, for any number of starts.  The chains of requests run one      *)
(* behind the other in the queue of what the controller has to answer, so  *)
(* the argument looks at no chain: it asks which requests are left at all. *)
(***************************************************************************)

\* The requests of the chains that are at a request or before it.
UpTo603D == {"SET_LED", "EN_RUMBLE", "603D"}
UpTo6086 == UpTo603D \cup {"6086"}
UpTo6098 == UpTo6086 \cup {"6098"}
UpTo8010 == UpTo6098 \cup {"8010"}

\* An answer takes the head away and may put a request at the end.
LEMMA AnswerTaken ==
    ASSUME asked \in Seq(Requests), asked # <<>>, NEW r \in Requests, NEW R,
           asked' = Append(Tail(asked), r) \/ asked' = Tail(asked)
    PROVE  /\ asked' \in Seq(Requests)
           /\ Asked(R) => Head(asked) \in R \/ Asked(R)'
           /\ asked' = Append(Tail(asked), r) /\ r \in R => Asked(R)'
<1>1. /\ Len(asked) \in Nat /\ Len(asked) > 0 /\ Head(asked) = asked[1]
      /\ Tail(asked) \in Seq(Requests) /\ Len(Tail(asked)) = Len(asked) - 1
      /\ \A i \in 1 .. Len(Tail(asked)) : Tail(asked)[i] = asked[i + 1]
  OBVIOUS
<1>2. /\ asked' \in Seq(Requests) /\ Len(asked') \in Nat /\ Len(asked') >= Len(asked) - 1
      /\ \A i \in 1 .. Len(asked) - 1 : asked'[i] = asked[i + 1]
  BY <1>1
<1>3. ASSUME Asked(R), Head(asked) \notin R PROVE Asked(R)'
  <2>1. PICK i \in 1 .. Len(asked) : asked[i] \in R
    BY <1>3 DEF Asked
  <2>2. i # 1
    BY <1>1, <1>3, <2>1
  <2>3. i - 1 \in 1 .. Len(asked) - 1 /\ i - 1 \in 1 .. Len(asked') /\ (i - 1) + 1 = i
    BY <1>1, <1>2, <2>2
  <2>4. asked'[i - 1] \in R
    BY <1>2, <2>1, <2>3
  <2> QED
    BY <2>3, <2>4 DEF Asked
<1>4. ASSUME asked' = Append(Tail(asked), r), r \in R PROVE Asked(R)'
  <2>1. Len(asked') \in 1 .. Len(asked') /\ asked'[Len(asked')] = r
    BY <1>1, <1>4
  <2> QED
    BY <1>4, <2>1 DEF Asked
<1> QED
  BY <1>2, <1>3, <1>4

\* A request that is added does not take one away.
LEMMA RequestAdded ==
    ASSUME asked \in Seq(Requests), NEW r \in Requests, asked' = Append(asked, r)
    PROVE  asked' \in Seq(Requests) /\ \A R : Asked(R) \/ r \in R => Asked(R)'
<1>1. /\ asked' \in Seq(Requests) /\ Len(asked) \in Nat /\ Len(asked') = Len(asked) + 1
      /\ asked'[Len(asked')] = r /\ \A i \in 1 .. Len(asked) : asked'[i] = asked[i]
  OBVIOUS
<1>2. Len(asked') \in 1 .. Len(asked') /\ 1 .. Len(asked) \subseteq 1 .. Len(asked')
  BY <1>1
<1> QED
  BY <1>1, <1>2 DEF Asked

LEMMA ThenFact ==
    /\ Then("SET_LED") = "EN_RUMBLE" /\ Then("EN_RUMBLE") = "603D" /\ Then("603D") = "6086"
    /\ Then("RUMBLE") = "RUMBLE_EN" /\ Then("RUMBLE_EN") = "603D"
    /\ Then("6086") = "6098" /\ Then("6098") = "8010" /\ Then("8010") = "SET_REP_MODE"
  BY DEF Then

LEMMA SwInitInv == SwInit => SwInv
<1> SUFFICES ASSUME SwInit PROVE SwInv
  OBVIOUS
<1>1. SwTypeOK
  <2>1. BT_INIT \in BOOLEAN
    BY Zenon DEF SwInit
  <2>2. BlankCalib \in [centre : {"none", "factory", "user"}, dead : SUBSET {"left", "right"}]
    BY DEF BlankCalib
  <2> QED
    BY <2>1, <2>2, SwAssumption DEF SwInit, SwTypeOK
<1>2. /\ asked \in Seq(Requests) /\ asked = <<"SET_LED">> /\ calib.centre = "none"
      /\ 1 \in 1 .. Len(asked) /\ asked[1] = "SET_LED" /\ BT_INIT = FALSE
  BY DEF SwInit, Requests, BlankCalib
<1>3. \A R : "SET_LED" \in R => Asked(R)
  BY <1>2 DEF Asked
<1>4. CalibrationRead
  BY <1>3 DEF CalibrationRead
<1> QED
  BY <1>1, <1>2, <1>4 DEF SwInv, OwnCalibrationUsed

\* What an answer makes of the calibration.
LEMMA CalibFact ==
    ASSUME SwTypeOK, calib.centre \in memory \cup {"none"}, NEW r \in Requests
    PROVE  /\ CalibOf(r) \in [centre : {"none", "factory", "user"}, dead : SUBSET {"left", "right"}]
           /\ CalibOf(r).centre \in memory \cup {"none"}
           /\ calib.dead \subseteq CalibOf(r).dead
           /\ calib.centre # "none" => CalibOf(r).centre # "none"
           /\ r # "603D" /\ calib.centre = "user" => CalibOf(r).centre = "user"
           /\ r = "603D" /\ "factory" \in memory => CalibOf(r).centre # "none"
           /\ r = "6086" => "left" \in CalibOf(r).dead
           /\ r = "6098" => "right" \in CalibOf(r).dead
           /\ r = "8010" /\ "user" \in memory => CalibOf(r).centre = "user"
<1>1. calib \in [centre : {"none", "factory", "user"}, dead : SUBSET {"left", "right"}]
  BY DEF SwTypeOK
<1>2. CASE r = "603D"
  <2>1. CalibOf(r) = IF "factory" \in memory THEN [calib EXCEPT !.centre = "factory"] ELSE calib
    BY <1>2 DEF CalibOf, Read
  <2> QED
    BY <1>1, <1>2, <2>1
<1>3. CASE r = "6086"
  <2>1. CalibOf(r) = [calib EXCEPT !.dead = calib.dead \cup {"left"}]
    BY <1>1, <1>3 DEF CalibOf
  <2> QED
    BY <1>1, <1>3, <2>1
<1>4. CASE r = "6098"
  <2>1. CalibOf(r) = [calib EXCEPT !.dead = calib.dead \cup {"right"}]
    BY <1>1, <1>4 DEF CalibOf
  <2> QED
    BY <1>1, <1>4, <2>1
<1>5. CASE r = "8010"
  <2>1. CalibOf(r) = IF "user" \in memory THEN [calib EXCEPT !.centre = "user"] ELSE calib
    BY <1>5 DEF CalibOf, Read
  <2> QED
    BY <1>1, <1>5, <2>1
<1>6. CASE r \notin {"603D", "6086", "6098", "8010"}
  <2>1. CalibOf(r) = calib
    BY <1>6 DEF CalibOf
  <2> QED
    BY <1>1, <1>6, <2>1
<1> QED
  BY <1>2, <1>3, <1>4, <1>5, <1>6

\* An answer: what is left to ask, and what has been read.
LEMMA AckEffect ==
    ASSUME SwTypeOK, asked \in Seq(Requests), calib.centre \in memory \cup {"none"}, SubcmdAck
    PROVE  /\ asked' \in Seq(Requests)
           /\ Head(asked) \in Requests /\ Head(asked) # "SET_REP_MODE"
           /\ calib' = CalibOf(Head(asked)) /\ hid_state' \in {0, 1} /\ cut' \in BOOLEAN
           /\ UNCHANGED <<memory, mode, reporting, starting>>
           /\ \A R : Asked(R) => Head(asked) \in R \/ Asked(R)'
           /\ ~cut' => /\ ~cut
                       /\ \A R : \/ Then(Head(asked)) \in R => Asked(R)'
                                \/ Head(asked) \in {"RUMBLE", "RUMBLE_EN"}
<1> DEFINE r == Head(asked)
<1>1. asked # <<>> /\ r # "SET_REP_MODE" /\ r \in Requests
  BY DEF SubcmdAck
<1>2. Then(r) \in Requests
  BY <1>1, ThenFact DEF Requests
<1>3. asked' = Append(Tail(asked), Then(r)) \/ asked' = Tail(asked)
  BY DEF SubcmdAck
<1>4. /\ asked' \in Seq(Requests)
      /\ \A R : Asked(R) => r \in R \/ Asked(R)'
      /\ \A R : asked' = Append(Tail(asked), Then(r)) /\ Then(r) \in R => Asked(R)'
  BY <1>1, <1>2, <1>3, AnswerTaken
<1>5. ~cut' => ~cut /\ (asked' = Append(Tail(asked), Then(r)) \/ r \in {"RUMBLE", "RUMBLE_EN"})
  <2>1. ~cut' => ~cut /\ (Repeats(r) \/ r \in {"RUMBLE", "RUMBLE_EN"})
    <3>1. ~cut' => ~cut /\ ~(r \in {"SET_LED", "EN_RUMBLE"} /\ ~Repeats(r))
      BY Zenon DEF SubcmdAck
    <3>2. r \notin {"SET_LED", "EN_RUMBLE", "RUMBLE", "RUMBLE_EN"} => Repeats(r)
      BY Zenon DEF Repeats
    <3> QED
      BY <3>1, <3>2
  <2>2. Repeats(r) => asked' = Append(Tail(asked), Then(r))
    BY Zenon DEF SubcmdAck
  <2> QED
    BY <2>1, <2>2, Zenon
<1>6. cut' \in BOOLEAN
  BY Zenon DEF SubcmdAck
<1>7. calib' = CalibOf(r) /\ hid_state' \in {0, 1} /\ UNCHANGED <<memory, mode, reporting, starting>>
  BY DEF SubcmdAck, SwTypeOK
<1>8. ~cut' => ~cut /\ \A R : (Then(r) \in R => Asked(R)') \/ r \in {"RUMBLE", "RUMBLE_EN"}
  BY <1>4, <1>5
<1> QED
  BY <1>1, <1>4, <1>6, <1>7, <1>8

LEMMA AckReads == SwInv /\ SubcmdAck => CalibrationRead'
<1> SUFFICES ASSUME SwInv, SubcmdAck, ~cut', sw_at' = "idle"
    PROVE  /\ ~Asked(UpTo603D)' /\ "factory" \in memory' => calib'.centre # "none"
           /\ ~Asked(UpTo6086)' => "left" \in calib'.dead
           /\ ~Asked(UpTo6098)' => "right" \in calib'.dead
           /\ ~Asked(UpTo8010)' /\ "user" \in memory' => calib'.centre = "user"
  <2>1. /\ UpTo603D = {"SET_LED", "EN_RUMBLE", "603D"}
        /\ UpTo6086 = {"SET_LED", "EN_RUMBLE", "603D", "6086"}
        /\ UpTo6098 = {"SET_LED", "EN_RUMBLE", "603D", "6086", "6098"}
        /\ UpTo8010 = {"SET_LED", "EN_RUMBLE", "603D", "6086", "6098", "8010"}
    BY DEF UpTo603D, UpTo6086, UpTo6098, UpTo8010
  <2> QED
    BY <2>1 DEF CalibrationRead, Asked
<1> DEFINE r == Head(asked)
<1>1. SwTypeOK /\ asked \in Seq(Requests) /\ calib.centre \in memory \cup {"none"}
  BY DEF SwInv
<1>2. /\ r \in Requests /\ r # "SET_REP_MODE" /\ calib' = CalibOf(r) /\ ~cut
      /\ UNCHANGED <<memory, sw_at>>
      /\ \A R : Asked(R) => r \in R \/ Asked(R)'
      /\ \A R : (Then(r) \in R => Asked(R)') \/ r \in {"RUMBLE", "RUMBLE_EN"}
  BY <1>1, AckEffect DEF starting
<1>3. /\ ~Asked(UpTo603D) /\ "factory" \in memory => calib.centre # "none"
      /\ ~Asked(UpTo6086) => "left" \in calib.dead
      /\ ~Asked(UpTo6098) => "right" \in calib.dead
      /\ ~Asked(UpTo8010) /\ "user" \in memory => calib.centre = "user"
  <2>1. /\ UpTo603D = {"SET_LED", "EN_RUMBLE", "603D"}
        /\ UpTo6086 = {"SET_LED", "EN_RUMBLE", "603D", "6086"}
        /\ UpTo6098 = {"SET_LED", "EN_RUMBLE", "603D", "6086", "6098"}
        /\ UpTo8010 = {"SET_LED", "EN_RUMBLE", "603D", "6086", "6098", "8010"}
    BY DEF UpTo603D, UpTo6086, UpTo6098, UpTo8010
  <2>2. sw_at = "idle"
    BY <1>2
  <2> QED
    BY <1>2, <2>1, <2>2 DEF SwInv, CalibrationRead
<1>4. /\ calib.dead \subseteq calib'.dead
      /\ calib.centre # "none" => calib'.centre # "none"
      /\ r # "603D" /\ calib.centre = "user" => calib'.centre = "user"
      /\ r = "603D" /\ "factory" \in memory => calib'.centre # "none"
      /\ r = "6086" => "left" \in calib'.dead
      /\ r = "6098" => "right" \in calib'.dead
      /\ r = "8010" /\ "user" \in memory => calib'.centre = "user"
  BY <1>1, <1>2, CalibFact
\* The answer that takes the last of these requests away is the one to the last of them.
<1>5. /\ Asked(UpTo603D) /\ ~Asked(UpTo603D)' => r = "603D"
      /\ Asked(UpTo6086) /\ ~Asked(UpTo6086)' => r = "6086"
      /\ Asked(UpTo6098) /\ ~Asked(UpTo6098)' => r = "6098"
      /\ Asked(UpTo8010) /\ ~Asked(UpTo8010)' => r = "8010"
      /\ r = "603D" => Asked(UpTo8010)'
  <2>1. ASSUME NEW R, R \cap {"RUMBLE", "RUMBLE_EN"} = {}
        PROVE  Asked(R) /\ ~Asked(R)' => r \in R /\ Then(r) \notin R
    BY <1>2, <2>1
  <2>2. r = "603D" => Then(r) \in UpTo8010
    BY ThenFact DEF UpTo603D, UpTo6086, UpTo6098, UpTo8010
  <2>3. r \in UpTo603D /\ Then(r) \notin UpTo603D => r = "603D"
    BY ThenFact DEF UpTo603D
  <2>4. r \in UpTo6086 /\ Then(r) \notin UpTo6086 => r = "6086"
    BY ThenFact DEF UpTo603D, UpTo6086
  <2>5. r \in UpTo6098 /\ Then(r) \notin UpTo6098 => r = "6098"
    BY ThenFact DEF UpTo603D, UpTo6086, UpTo6098
  <2>6. r \in UpTo8010 /\ Then(r) \notin UpTo8010 => r = "8010"
    BY ThenFact DEF UpTo603D, UpTo6086, UpTo6098, UpTo8010
  <2>7. r = "603D" => Asked(UpTo8010)'
    BY <1>2, <2>2
  <2>8. \A R \in {UpTo603D, UpTo6086, UpTo6098, UpTo8010} : R \cap {"RUMBLE", "RUMBLE_EN"} = {}
    BY DEF UpTo603D, UpTo6086, UpTo6098, UpTo8010
  <2> QED
    BY <2>1, <2>3, <2>4, <2>5, <2>6, <2>7, <2>8
<1> QED
  BY <1>2, <1>3, <1>4, <1>5

LEMMA SwStepInv == SwInv /\ [SwNext]_swvars => SwInv'
<1> SUFFICES ASSUME SwInv, [SwNext]_swvars PROVE SwInv'
  OBVIOUS
<1>0. /\ SwTypeOK /\ asked \in Seq(Requests) /\ calib.centre \in memory \cup {"none"}
      /\ CalibrationRead /\ OwnCalibrationUsed
  BY DEF SwInv
<1>1. CASE SubcmdAck
  <2>1. /\ asked' \in Seq(Requests) /\ Head(asked) \in Requests /\ calib' = CalibOf(Head(asked))
        /\ hid_state' \in {0, 1} /\ UNCHANGED <<memory, mode, reporting, starting>> /\ (~cut' => ~cut)
    BY <1>0, <1>1, AckEffect
  <2>2. /\ calib' \in [centre : {"none", "factory", "user"}, dead : SUBSET {"left", "right"}]
        /\ calib'.centre \in memory \cup {"none"}
    BY <1>0, <2>1, CalibFact
  <2>3. SwTypeOK'
    BY <1>0, <2>1, <2>2 DEF SwTypeOK, reporting, starting
  <2>4. OwnCalibrationUsed'
    BY <1>0, <2>1 DEF OwnCalibrationUsed, OwnCalibration, reporting
  <2> QED
    BY <1>1, <2>1, <2>2, <2>3, <2>4, AckReads DEF SwInv
<1>2. CASE ModeAck
  <2>1. /\ asked # <<>> /\ Head(asked) = "SET_REP_MODE" /\ asked' = Tail(asked) /\ mode' = "native"
        /\ UNCHANGED <<memory, hid_state, calib, cut, reporting, starting>>
    BY <1>2 DEF ModeAck
  <2>2. "SET_REP_MODE" \in Requests
    BY DEF Requests
  <2>3. asked' \in Seq(Requests) /\ \A R : Asked(R) => "SET_REP_MODE" \in R \/ Asked(R)'
    BY <1>0, <2>1, <2>2, AnswerTaken
  <2>4. CalibrationRead'
    BY <1>0, <2>1, <2>3 DEF CalibrationRead, starting
  <2>5. SwTypeOK'
    BY <1>0, <2>1 DEF SwTypeOK, reporting, starting
  <2>6. OwnCalibrationUsed'
    BY <1>0, <2>1 DEF OwnCalibrationUsed, OwnCalibration, reporting
  <2> QED
    BY <1>0, <2>1, <2>3, <2>4, <2>5, <2>6 DEF SwInv
<1>3. CASE Report
  <2>1. UNCHANGED <<asking, starting>> /\ report_type' = mode
    BY <1>3 DEF Report
  <2>2. CalibrationRead'
    BY <1>0, <2>1 DEF CalibrationRead, asking, starting, Asked
  <2>3. BT_INIT' \in BOOLEAN
    BY <1>3, Zenon DEF Report, Tables
  <2>4. report_cnt' \in 0 .. 2
    BY <1>0, <1>3 DEF Report, SwTypeOK
  <2>5. SwTypeOK'
    BY <1>0, <2>1, <2>3, <2>4 DEF SwTypeOK, asking, starting
  <2>6. OwnCalibrationUsed'
    <3>1. CASE Tables
      <4>1. BT_INIT /\ report_type = mode
        BY <3>1, Zenon DEF Tables
      <4>2. UNCHANGED <<meta, amid, cut, memory, report_type>>
        BY <1>3, <3>1, <4>1, Zenon DEF Report, asking
      <4> QED
        BY <1>0, <4>1, <4>2 DEF OwnCalibrationUsed, OwnCalibration
    <3>2. CASE ~Tables /\ ~BT_INIT'
      BY <3>2 DEF OwnCalibrationUsed
    <3>3. CASE ~Tables /\ BT_INIT'
      <4>1. /\ meta' = IF mode = "status" THEN STATUS
                       ELSE IF calib.centre = "none" THEN DEFAULT ELSE calib
            /\ amid' = (mode = "native" /\ (asked # <<>> \/ sw_at # "idle"))
        <5>1. (IF report_type = mode THEN report_cnt ELSE 0) > 1
          BY <1>3, <3>3, Zenon DEF Report
        <5> QED
          BY <1>3, <3>3, <5>1, Zenon DEF Report
      <4>2. CASE mode = "status"
        BY <2>1, <4>1, <4>2 DEF OwnCalibrationUsed
      <4>3. CASE mode = "native" /\ (asked # <<>> \/ sw_at # "idle")
        <5>1. amid'
          BY <4>1, <4>3, Zenon
        <5> QED
          BY <5>1 DEF OwnCalibrationUsed
      <4>4. CASE mode = "native" /\ asked = <<>> /\ sw_at = "idle"
        <5>1. SUFFICES ASSUME ~cut PROVE meta' = OwnCalibration
          BY <2>1, <4>4 DEF OwnCalibrationUsed, OwnCalibration, asking
        <5>2. \A R : ~Asked(R)
          BY <4>4 DEF Asked
        <5>3. /\ "factory" \in memory => calib.centre # "none"
              /\ "left" \in calib.dead /\ "right" \in calib.dead
              /\ "user" \in memory => calib.centre = "user"
          BY <1>0, <4>4, <5>1, <5>2 DEF CalibrationRead
        <5>4. /\ calib = [centre |-> calib.centre, dead |-> {"left", "right"}]
              /\ calib.centre \in memory \cup {"none"} /\ memory \subseteq {"factory", "user"}
          BY <1>0, <5>3 DEF SwTypeOK
        <5>5. CASE "user" \in memory
          BY <4>1, <4>4, <5>3, <5>4, <5>5 DEF OwnCalibration
        <5>6. CASE memory = {"factory"}
          BY <4>1, <4>4, <5>3, <5>4, <5>6 DEF OwnCalibration
        <5>7. CASE memory = {}
          BY <4>1, <4>4, <5>3, <5>4, <5>7 DEF OwnCalibration, DEFAULT
        <5> QED
          BY <5>4, <5>5, <5>6, <5>7
      <4> QED
        BY <1>0, <4>2, <4>3, <4>4 DEF SwTypeOK
    <3> QED
      BY <3>1, <3>2, <3>3
  <2> QED
    BY <1>0, <2>1, <2>2, <2>5, <2>6 DEF SwInv, asking
<1>4. CASE Wipe
  <2>1. /\ sw_at' = "wiped" /\ calib' = BlankCalib /\ starts' = starts + 1 /\ starts < MaxStarts
        /\ UNCHANGED <<memory, mode, asked, hid_state, cut, rumbles, reporting>>
    BY <1>4 DEF Wipe
  <2>2. CalibrationRead'
    BY <2>1 DEF CalibrationRead
  <2>3. SwTypeOK' /\ calib'.centre = "none"
    BY <1>0, <2>1, SwAssumption DEF SwTypeOK, reporting, BlankCalib
  <2>4. OwnCalibrationUsed'
    BY <1>0, <2>1 DEF OwnCalibrationUsed, OwnCalibration, reporting
  <2> QED
    BY <1>0, <2>1, <2>2, <2>3, <2>4 DEF SwInv
<1>5. CASE SetLed
  <2>1. /\ sw_at' = "idle" /\ asked' = Append(asked, "SET_LED")
        /\ UNCHANGED <<memory, mode, hid_state, calib, cut, reporting, starts, rumbles>>
    BY <1>5 DEF SetLed
  <2>2. asked' \in Seq(Requests) /\ (\A R : "SET_LED" \in R => Asked(R)')
    <3>1. "SET_LED" \in Requests
      BY DEF Requests
    <3> QED
      BY <1>0, <2>1, <3>1, RequestAdded
  <2>3. CalibrationRead'
    BY <2>2 DEF CalibrationRead
  <2>4. SwTypeOK'
    BY <1>0, <2>1 DEF SwTypeOK, reporting
  <2>5. OwnCalibrationUsed'
    BY <1>0, <2>1 DEF OwnCalibrationUsed, OwnCalibration, reporting
  <2> QED
    BY <1>0, <2>1, <2>2, <2>3, <2>4, <2>5 DEF SwInv
<1>6. CASE Rumble
  <2>1. /\ asked' = Append(asked, "RUMBLE") /\ rumbles' = rumbles + 1 /\ rumbles < MaxRumbles
        /\ UNCHANGED <<memory, mode, hid_state, calib, cut, reporting, sw_at, starts>>
    BY <1>6 DEF Rumble
  <2>2. asked' \in Seq(Requests) /\ (\A R : Asked(R) => Asked(R)')
    <3>1. "RUMBLE" \in Requests
      BY DEF Requests
    <3> QED
      BY <1>0, <2>1, <3>1, RequestAdded
  <2>3. CalibrationRead'
    BY <1>0, <2>1, <2>2 DEF CalibrationRead
  <2>4. SwTypeOK'
    BY <1>0, <2>1, SwAssumption DEF SwTypeOK, reporting
  <2>5. OwnCalibrationUsed'
    BY <1>0, <2>1 DEF OwnCalibrationUsed, OwnCalibration, reporting
  <2> QED
    BY <1>0, <2>1, <2>2, <2>3, <2>4, <2>5 DEF SwInv
<1>7. CASE UNCHANGED swvars
  BY <1>0, <1>7 DEF swvars, asking, reporting, starting, SwInv, SwTypeOK, CalibrationRead, Asked,
                    OwnCalibrationUsed, OwnCalibration
<1> QED
  BY <1>1, <1>2, <1>3, <1>4, <1>5, <1>6, <1>7 DEF SwNext

\* The invariant of the start of a Switch controller.
THEOREM StartInvariant == SwSpec => []SwInv
  BY SwInitInv, SwStepInv, PTL DEF SwSpec

(***************************************************************************)
(* The tables of the conversion hold the calibration of the controller,    *)
(* however often bt_hid_sw_init wipes it and starts a chain of requests    *)
(* while others are on their way.                                          *)
(***************************************************************************)
THEOREM CalibrationIsItsOwn == SwSpec => []OwnCalibrationUsed
<1>1. SwInv => OwnCalibrationUsed
  BY DEF SwInv
<1> QED
  BY <1>1, StartInvariant, PTL

=============================================================================
