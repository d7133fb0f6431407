-------------------------- MODULE MCSignalDelivery --------------------------
(***************************************************************************)
(* Instances of SignalDelivery with two providers, tried in this order.    *)
(***************************************************************************)
EXTENDS SignalDelivery

TwoProviders == <<"discord", "email">>
=============================================================================
