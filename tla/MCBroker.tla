------------------------------ MODULE MCBroker ------------------------------
(* Small instances of the broker.                                          *)
EXTENDS Broker

CONSTANTS w1, w2, c1, world, logic, mmi

UnknownType == "UnknownServiceType"

\* The repository's deployment: one worker per service, one gateway.
OffersDeployed == {<<w1, world, DoNotWait>>, <<w2, logic, DoNotWait>>}

\* Everything READY can carry: a service under both types, offered by two workers,
\* one of which offers another service too, and an unknown type.
OffersAll == {<<w1, world, Wait>>, <<w1, world, DoNotWait>>, <<w2, world, DoNotWait>>,
              <<w1, mmi, Wait>>, <<w1, mmi, UnknownType>>}
=============================================================================
