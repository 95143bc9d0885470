------------------------------ MODULE HidLink ------------------------------
(***************************************************************************)
(* From the link to the reports of a BR/EDR controller, in one slot of     *)
(* bt_dev: its name, its features, the authentication, the L2CAP channels  *)
(* and the service discovery (bt_hci_evt_hdlr, bt_l2cap_sig_hdlr,          *)
(* bt_sdp_hdlr), and the task that parses what was discovered              *)
(* (bt_host_task).  bt_hid_init starts the reports; it depends on the type *)
(* of the controller, which the name and the discovery tell.               *)
(*                                                                         *)
(* The handlers run to their end in the task of the Bluetooth controller.  *)
(* bt_host_task has a lower priority: its turn is divided where a handler  *)
(* can come between.  The remote controller and the Bluetooth controller   *)
(* (external) answer what they are asked, in any order, positively or not. *)
(*                                                                         *)
(* Definitions marked as mutants are wrong on purpose, to see that a       *)
(* property notices the mistake.                                           *)
(***************************************************************************)

\* ids.type: not a device, BT_HID_GENERIC, BT_SW, or any of the others.
Types == {"none", "generic", "switch", "other"}

\* sdp_tx_chan, ctrl_chan, intr_chan
Chans == {"sdp", "ctrl", "intr"}

VARIABLES
    found,               \* the slot has a device, and its link is up
    flags,               \* BT_DEV_...
    type,                \* ids.type
    inited,              \* the type bt_hid_init was last called with
    owed,                \* the answers the host waits for
    chan,                \* "closed", "asked" (by the host), "open", "refused"
    configs,             \* the configuration messages that came for each channel
    hpc, old_type        \* where bt_host_task is, and the type it saw

session == <<found, flags, type, inited, owed, chan, configs>>
task == <<hpc, old_type>>
vars == <<session, task>>

\* bt_host_reset_dev, and the claim that may follow it
Blank(f, fl, t, o) ==
    /\ found' = f
    /\ flags' = fl
    /\ type' = t
    /\ owed' = o
    /\ inited' = "none"
    /\ chan' = [c \in Chans |-> "closed"]
    /\ configs' = [c \in Chans |-> {}]

Init ==
    /\ found = FALSE
    /\ flags = {}
    /\ type = "none"
    /\ owed = {}
    /\ inited = "none"
    /\ chan = [c \in Chans |-> "closed"]
    /\ configs = [c \in Chans |-> {}]
    /\ hpc = "idle"
    /\ old_type = "none"

-----------------------------------------------------------------------------
(* The link: a slot is claimed, its device connects, its name is asked     *)
(* for; the link and the slot go together (see BtConnections).             *)

Connected(paged) ==
    /\ ~found
    /\ Blank(TRUE, IF paged THEN {"PAGE"} ELSE {}, "generic", {"name"})
    /\ UNCHANGED task

Disconnected ==
    /\ found
    /\ Blank(FALSE, {}, "none", {})
    /\ UNCHANGED task

Answered(a, more) == a \in owed /\ owed' = (owed \ {a}) \cup more

\* BT_HCI_EVT_REMOTE_NAME_REQ_COMPLETE: the features of some, the authentication if we paged.
NameFound(t) ==
    /\ type' = t
    /\ Answered("name", (IF t \in {"generic", "switch"} THEN {"features"} ELSE {})
                        \cup (IF "PAGE" \in flags THEN {} ELSE {"auth"}))
    /\ UNCHANGED <<found, flags, inited, chan, configs, task>>

\* BT_HCI_EVT_REMOTE_FEATURES, also with an error
RemoteFeatures(encrypts) ==
    /\ Answered("features", {"info"})
    /\ flags' = IF encrypts THEN flags \cup {"ENCRYPTION"} ELSE flags
    /\ UNCHANGED <<found, type, inited, chan, configs, task>>

\* BT_L2CAP_INFO_RSP: only a generic device is asked for its descriptors.
InfoRsp ==
    /\ Answered("info", {})
    /\ chan' = IF type \in {"none", "generic"} THEN [chan EXCEPT !["sdp"] = "asked"] ELSE chan
    /\ UNCHANGED <<found, flags, type, inited, configs, task>>

\* BT_HCI_EVT_AUTH_COMPLETE (the encryption it asks for changes nothing here)
AuthComplete ==
    /\ Answered("auth", {})
    /\ chan' = [chan EXCEPT !["ctrl"] = "asked"]
    /\ UNCHANGED <<found, flags, type, inited, configs, task>>

AuthFailed ==
    /\ Answered("auth", {})
    /\ UNCHANGED <<found, flags, type, inited, chan, configs, task>>

-----------------------------------------------------------------------------
(* L2CAP.  An end that opens a channel, or accepts it, sends one CONF_REQ. *)

\* BT_L2CAP_CONN_RSP
ConnRsp(c, result) ==
    /\ chan[c] = "asked"
    /\ result \in {"open", "refused"}
    /\ chan' = [chan EXCEPT ![c] = result]
    /\ UNCHANGED <<found, flags, type, inited, owed, configs, task>>

\* BT_L2CAP_CONN_REQ: a controller that paged us opens the HID channels, in their order.
ConnReq(c) ==
    /\ found
    /\ "PAGE" \in flags
    /\ c = "ctrl" \/ (c = "intr" /\ configs["ctrl"] = {"req", "rsp"})
    /\ chan[c] = "closed"
    /\ chan' = [chan EXCEPT ![c] = "open"]
    /\ UNCHANGED <<found, flags, type, inited, owed, configs, task>>

\* bt_hid_init
HidInit(fl) ==
    /\ flags' = fl \cup {"HID_INIT_DONE"}
    /\ inited' = type

AnyOf(flag) == TRUE                \* mutant: the first is taken for the second

\* The message is the second of the two that open the channel: the flag remembers the first.
SecondOf(flag) == flag \in flags

SdpConfigured ==
    /\ IF SecondOf("SDP_TX_PENDING")
       THEN owed' = owed \cup {"attributes"} /\ UNCHANGED flags
       ELSE flags' = flags \cup {"SDP_TX_PENDING"} /\ UNCHANGED owed
    /\ UNCHANGED <<chan, inited>>

CtrlConfiguredMute ==              \* mutant: the next channel is not asked for
    /\ IF "PAGE" \in flags THEN UNCHANGED flags
       ELSE flags' = flags \cup {"HID_CTRL_PENDING"}
    /\ UNCHANGED <<chan, owed, inited>>

CtrlConfigured ==
    /\ IF "PAGE" \in flags THEN UNCHANGED <<chan, flags>>
       ELSE IF SecondOf("HID_CTRL_PENDING")
       THEN chan' = [chan EXCEPT !["intr"] = "asked"] /\ UNCHANGED flags
       ELSE flags' = flags \cup {"HID_CTRL_PENDING"} /\ UNCHANGED chan
    /\ UNCHANGED <<owed, inited>>

IntrConfigured ==
    /\ IF SecondOf("HID_INTR_PENDING")
       THEN HidInit(flags \cup {"HID_INTR_READY"})
       ELSE flags' = flags \cup {"HID_INTR_PENDING"} /\ UNCHANGED inited
    /\ UNCHANGED <<chan, owed>>

\* BT_L2CAP_CONF_REQ and BT_L2CAP_CONF_RSP, m being "req" or "rsp"
Configure(c, m) ==
    /\ chan[c] = "open"
    /\ m \notin configs[c]
    /\ configs' = [configs EXCEPT ![c] = @ \cup {m}]
    /\ CASE c = "sdp" -> SdpConfigured
         [] c = "ctrl" -> CtrlConfigured
         [] c = "intr" -> IntrConfigured
    /\ UNCHANGED <<found, type, task>>

\* BT_SDP_SVC_SEARCH_ATTR_RSP, the last of them: the others only ask for the rest.
SdpEnd ==
    /\ Answered("attributes", {})
    /\ flags' = flags \cup {"SDP_DATA"}
    /\ UNCHANGED <<found, type, inited, chan, configs, task>>

-----------------------------------------------------------------------------
(* bt_host_task: one turn of its loop for this slot.                       *)

HGoto(from, to) == hpc = from /\ hpc' = to

SdpDataSeen ==
    /\ HGoto("idle", "parse")
    /\ found
    /\ "SDP_DATA" \in flags
    /\ old_type' = type
    /\ UNCHANGED session

\* bt_sdp_parser: the descriptor may tell the type of a generic device.  (A reset drops the data.)
Parse(t) ==
    /\ HGoto("parse", "test")
    /\ type' = IF type = "generic" /\ "SDP_DATA" \in flags THEN t ELSE type
    /\ UNCHANGED <<found, flags, inited, owed, chan, configs, old_type>>

TestTypeNever ==                   \* mutant: the new type is not told to the controller
    /\ HGoto("test", "clear")
    /\ UNCHANGED <<session, old_type>>

TestType ==
    /\ HGoto("test", IF type # old_type /\ "HID_INTR_READY" \in flags THEN "init" ELSE "clear")
    /\ UNCHANGED <<session, old_type>>

InitAgain ==
    /\ HGoto("init", "clear")
    /\ HidInit(flags)
    /\ UNCHANGED <<found, type, owed, chan, configs, old_type>>

SdpDataDone ==
    /\ HGoto("clear", "idle")
    /\ flags' = flags \ {"SDP_DATA"}
    /\ UNCHANGED <<found, type, inited, owed, chan, configs, old_type>>

-----------------------------------------------------------------------------
ChannelAnswers(c) ==
    \/ \E r \in {"open", "refused"} : ConnRsp(c, r)
    \/ \E m \in {"req", "rsp"} : Configure(c, m)

HostTask ==
    \/ SdpDataSeen
    \/ \E t \in {"generic", "other"} : Parse(t)
    \/ TestType
    \/ InitAgain
    \/ SdpDataDone

Next ==
    \/ \E paged \in BOOLEAN : Connected(paged)
    \/ Disconnected
    \/ \E t \in Types \ {"none"} : NameFound(t)
    \/ \E encrypts \in BOOLEAN : RemoteFeatures(encrypts)
    \/ InfoRsp
    \/ AuthComplete
    \/ AuthFailed
    \/ \E c \in Chans : ChannelAnswers(c) \/ ConnReq(c)
    \/ SdpEnd
    \/ HostTask

Spec == Init /\ [][Next]_vars

\* L2CAP obliges the remote controller to answer, and bt_host_task loops for ever.
HidLinkFairness == WF_vars(HostTask) /\ \A c \in Chans : WF_vars(ChannelAnswers(c))

-----------------------------------------------------------------------------
(* Properties.                                                             *)

TypeOK ==
    /\ found \in BOOLEAN
    /\ flags \subseteq {"PAGE", "ENCRYPTION", "SDP_TX_PENDING", "HID_CTRL_PENDING",
                        "HID_INTR_PENDING", "HID_INTR_READY", "HID_INIT_DONE", "SDP_DATA"}
    /\ type \in Types
    /\ inited \in Types
    /\ owed \subseteq {"name", "features", "info", "auth", "attributes"}
    /\ chan \in [Chans -> {"closed", "asked", "open", "refused"}]
    /\ configs \in [Chans -> SUBSET {"req", "rsp"}]
    /\ hpc \in {"idle", "parse", "test", "init", "clear"}
    /\ old_type \in Types
    /\ ~found => type = "none" /\ owed = {}

Usable(c) == configs[c] = {"req", "rsp"}

(***************************************************************************)
(* Nothing is sent on a channel that is not configured in both directions: *)
(* the reports are started when the interrupt channel is, the interrupt    *)
(* channel is opened when the control channel is, and the descriptors are  *)
(* asked for when the discovery channel is.  The host keeps one flag for   *)
(* the two messages of a channel.                                          *)
(***************************************************************************)
UsedWhenConfigured ==
    /\ "HID_INTR_READY" \in flags => Usable("intr") /\ Usable("ctrl")
    /\ chan["intr"] # "closed" => Usable("ctrl")
    /\ "attributes" \in owed => Usable("sdp")

(***************************************************************************)
(* A controller that the adapter paged is initialised for what it is: once *)
(* its interrupt channel is ready, bt_hid_init was last called with its    *)
(* type, whether the channel or the discovery came first, except while     *)
(* bt_host_task is about to do it.  (One that paged the adapter may open   *)
(* its channels before it has told its name.)                              *)
(***************************************************************************)
InitialisedForType ==
    "HID_INTR_READY" \in flags /\ "PAGE" \notin flags => inited = type \/ hpc \in {"test", "init"}

-----------------------------------------------------------------------------
(* Why they hold: how far a session has come.                              *)

\* A channel is configured while it is open, and the flags say how far.
ChannelsNoted ==
    /\ \A c \in Chans : configs[c] # {} => chan[c] = "open"
    /\ configs["sdp"] # {} => "SDP_TX_PENDING" \in flags
    /\ "SDP_TX_PENDING" \in flags => configs["sdp"] # {}
    /\ "PAGE" \notin flags /\ "HID_CTRL_PENDING" \in flags => configs["ctrl"] # {}
    /\ "HID_INTR_PENDING" \in flags => configs["intr"] # {}
    /\ "HID_INTR_READY" \in flags => Usable("intr")
    /\ "attributes" \in owed \/ "SDP_DATA" \in flags => Usable("sdp")

\* The name comes first; the features, the extended features and the discovery channel follow.
FeaturesInOrder ==
    /\ owed \cap {"name", "features", "info"} # {} => chan["sdp"] = "closed"
    /\ "name" \in owed => owed \cap {"features", "info"} = {}
    /\ "features" \in owed => "info" \notin owed
    /\ "attributes" \in owed => "SDP_DATA" \notin flags

\* Only a controller we paged is authenticated, after the name and before the channels.
AuthenticatedFirst ==
    /\ "PAGE" \in flags => "auth" \notin owed
    /\ "PAGE" \notin flags =>
        /\ "auth" \in owed => "name" \notin owed
        /\ owed \cap {"name", "auth"} # {} => chan["ctrl"] = "closed"

\* The descriptors are asked for, and parsed, while the type is still the generic one.
AskedAsGeneric ==
    /\ chan["sdp"] # "closed" /\ ~Usable("sdp") => type = "generic"
    /\ "attributes" \in owed => type = "generic"
    /\ "SDP_DATA" \in flags /\ hpc \in {"idle", "parse"} => type = "generic"
    /\ chan["sdp"] = "closed" => "SDP_DATA" \notin flags
    /\ hpc \in {"parse", "test"} => old_type = "generic"
    /\ found => type # "none"

\* Where bt_host_task compares the types, bt_hid_init has been called with one of the two.
ComparedInTime ==
    "HID_INTR_READY" \in flags /\ "PAGE" \notin flags =>
        /\ hpc \in {"idle", "parse", "clear"} => inited = type
        /\ hpc = "test" => inited \in {type, old_type}

(***************************************************************************)
(* The strengthened invariant: with the properties above, the order the    *)
(* handlers impose on the answers and on the channels, and what the host   *)
(* task may rely on when it compares the types.                            *)
(***************************************************************************)
IndInv ==
    /\ TypeOK
    /\ UsedWhenConfigured
    /\ ChannelsNoted
    /\ FeaturesInOrder
    /\ AuthenticatedFirst
    /\ AskedAsGeneric
    /\ ComparedInTime

(***************************************************************************)
(* Once it is authenticated, a controller that the adapter paged gets its  *)
(* reports started, unless it refuses a channel or leaves.                 *)
(***************************************************************************)
ReportsStart ==
    chan["ctrl"] = "asked" ~>
        ({"HID_INTR_READY", "HID_INIT_DONE"} \subseteq flags \/ ~found \/ \E c \in Chans : chan[c] = "refused")

=============================================================================
