----------------------------- MODULE JoinTarget -----------------------------
(***************************************************************************)
(* What provisioning promises, seen from the network the switch will join  *)
(* at its next start: none, or the credentials in flash.  An unprovisioned *)
(* switch goes to a pair that has been tried and has joined, in one step.  *)
(* A provisioned one may be rewritten half by half, or forget its network. *)
(***************************************************************************)
CONSTANTS
  Forms,  \* the [ssid, pwd] pairs that may be tried
  Empty,  \* the ssid and the password of a device that has none
  None    \* no network

VARIABLES
  target,   \* what the next start joins
  obtained  \* the pairs that have joined

Stored(form) == [ssid |-> form.ssid, pwd |-> form.pwd, mode |-> "OPERATION"]

Init == target = None /\ obtained = {}

Obtain ==
  /\ \E f \in Forms : obtained' = obtained \cup {f}
  /\ UNCHANGED target

Adopt ==
  /\ target = None
  /\ \E f \in obtained : target' = Stored(f)
  /\ UNCHANGED obtained

Rewrite ==
  /\ target # None
  /\ \/ \E s \in {f.ssid : f \in Forms} \cup {Empty} :
          target' = [target EXCEPT !.ssid = s]
     \/ \E p \in {f.pwd : f \in Forms} \cup {Empty} :
          target' = [target EXCEPT !.pwd = p]
  /\ UNCHANGED obtained

Forget == target' = None /\ UNCHANGED obtained

Next == Obtain \/ Adopt \/ Rewrite \/ Forget

Spec == Init /\ [][Next]_<<target, obtained>>
=============================================================================
