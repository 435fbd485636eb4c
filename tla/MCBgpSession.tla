---------------------------- MODULE MCBgpSession ----------------------------
(***************************************************************************)
(* Instances of BgpSession: which callbacks of others take part.           *)
(***************************************************************************)
EXTENDS BgpSession

CollisionInputs == {<<"listener", "accept">>}

OperatorInputs == {<<"vty", "clear">>, <<"vty", "shutdown">>, <<"vty", "no_shutdown">>}

NexthopInputs == {<<"zclient", "nht_valid">>, <<"zclient", "nht_invalid">>}

NoInputs == {}

AdminInputs == OperatorInputs \cup NexthopInputs

SuppressInputs == OperatorInputs \cup {<<"zclient", "nht_valid">>}

AllInputs == AdminInputs \cup CollisionInputs

=============================================================================
