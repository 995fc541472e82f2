------------------------------ MODULE EspWifi -------------------------------
(***************************************************************************)
(* The Wi-Fi driver (esp_wifi over the ESP-Hosted co-processor) as         *)
(* wifi_manager.c uses it: external code, so only what the callers rely on *)
(* is modelled.  Requests return at once; the outcome arrives later as an  *)
(* event.  Events are delivered in the order in which they happen, and the *)
(* event that ends an association the program gave up itself can arrive    *)
(* long after the program has moved on.                                    *)
(***************************************************************************)
EXTENDS Integers

CONSTANTS
    Nets,       \* the SSIDs a configuration may name
    NoNet,      \* the empty SSID, one of them
    Right,      \* the password the access point accepts
    Wrong,      \* any other password, or none
    LeavingMax  \* bound: unreported associations given up at one time

VARIABLES
    link,       \* the association of the station: its phase, SSID and password
    leaving     \* associations given up whose STA_DISCONNECTED is still to come

driverVars == <<link, leaving>>

Passwords == {Right, Wrong}
Phases    == {"Idle", "Joining", "Up"}

DriverType ==
    /\ link \in [phase : Phases, ssid : Nets, pw : Passwords]
    /\ leaving \in 0 .. LeavingMax

Down == [phase |-> "Idle", ssid |-> NoNet, pw |-> Wrong]

DriverInit ==
    /\ link = Down
    /\ leaving = 0

-----------------------------------------------------------------------------
(* Requests.                                                               *)

\* esp_wifi_set_config() and esp_wifi_connect() both accepted.
EspConnect(s, pw) ==
    /\ link.phase = "Idle"
    /\ s # NoNet
    /\ link' = [phase |-> "Joining", ssid |-> s, pw |-> pw]
    /\ UNCHANGED leaving

\* One of the two returns an error: the station is busy, the SSID is empty,
\* or (mayFail) the request did not reach the co-processor.
EspConnectRefused(s, mayFail) ==
    /\ link.phase # "Idle" \/ s = NoNet \/ mayFail
    /\ UNCHANGED driverVars

\* esp_wifi_disconnect(): reported later, and only if there was anything to
\* give up.
EspDisconnect ==
    \/ /\ link.phase = "Idle"
       /\ UNCHANGED driverVars
    \/ /\ link.phase # "Idle"
       /\ leaving < LeavingMax
       /\ link' = Down
       /\ leaving' = leaving + 1

-----------------------------------------------------------------------------
(* What the driver does by itself; each of these ends in one event.        *)

\* STA_DISCONNECTED for an association the program gave up.
EspLeft ==
    /\ leaving > 0
    /\ leaving' = leaving - 1
    /\ UNCHANGED link

\* STA_DISCONNECTED instead of an association.  A wrong password fails the
\* handshake; an access point out of reach can make any attempt fail.
EspJoinFails(class) ==
    /\ leaving = 0
    /\ link.phase = "Joining"
    /\ class = "Auth" => link.pw = Wrong
    /\ link' = Down
    /\ UNCHANGED leaving

\* IP_EVENT_STA_GOT_IP.
EspJoinSucceeds ==
    /\ leaving = 0
    /\ link.phase = "Joining"
    /\ link.pw = Right
    /\ link' = [link EXCEPT !.phase = "Up"]
    /\ UNCHANGED leaving

\* STA_DISCONNECTED because the access point went away.
EspLinkDrops ==
    /\ leaving = 0
    /\ link.phase = "Up"
    /\ link' = Down
    /\ UNCHANGED leaving

=============================================================================
