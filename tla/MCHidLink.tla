----------------------------- MODULE MCHidLink ------------------------------
(***************************************************************************)
(* From the link of a controller to its reports (HidLink), and what comes  *)
(* then for a Switch controller (its calibration), for a PlayStation 3     *)
(* controller (its motors) and for a Wii Remote (its extension); each      *)
(* explored from its own beginning.                                        *)
(***************************************************************************)
EXTENDS HidLink, SwStart, Ps3Rumble, WiiStart

VARIABLE which           \* the machine that runs

hidvars == <<vars, swvars, ps3vars, wiivars, which>>

HidsInit ==
    /\ Init /\ SwInit /\ Ps3Init /\ WiiInit
    /\ which \in {"link", "switch", "ps3", "wii"}
    /\ which # "switch" => memory = {} /\ mode = "status"
    /\ which # "wii" => ext = "none"

\* Bound: starts and rumbles together.
ThreeChains == starts' + rumbles' <= 3

HidsNext ==
    \/ which = "link" /\ Next /\ UNCHANGED <<swvars, ps3vars, wiivars, which>>
    \/ /\ which = "switch" /\ SwNext /\ ThreeChains
       /\ UNCHANGED <<vars, ps3vars, wiivars, which>>
    \/ which = "ps3" /\ Ps3Next /\ UNCHANGED <<vars, swvars, wiivars, which>>
    \/ which = "wii" /\ WiiNext /\ UNCHANGED <<vars, swvars, ps3vars, which>>

\* What does not run is at its beginning, where nothing is enabled that fairness is asked of.
HidsSpec == HidsInit /\ [][HidsNext]_hidvars /\ HidLinkFairness /\ Ps3Fairness /\ WiiFairness

HidsTypeOK == TypeOK /\ SwTypeOK /\ Ps3TypeOK /\ WiiTypeOK

=============================================================================
