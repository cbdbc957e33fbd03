-------------------------- MODULE MCEventDelivery --------------------------
(***************************************************************************)
(* Instances of EventDelivery for TLC.                                     *)
(***************************************************************************)
EXTENDS EventDelivery

NoneAsync  == {}
ThirdAsync == {3}      \* of four: the fourth subscriber is never called
=============================================================================
