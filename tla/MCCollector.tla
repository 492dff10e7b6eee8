---------------------------- MODULE MCCollector ----------------------------
(* One route with one transfer out and one back; three endpoints of two    *)
(* failure domains.                                                        *)
EXTENDS Collector

MCOutbound   == {1}
MCInbound    == {2}
MCAmount     == [m \in {1, 2} |-> IF m = 1 THEN 2 ELSE 1]
MCDust       == [m \in {1} |-> 1]

Endpoint(id, domain, provider) ==
  [id |-> id, trustDomain |-> domain, providerGroup |-> provider,
   secretRef |-> id, host |-> "unresolved"]

\* The second and the third are one provider's.
MCEndpoints == <<Endpoint(1, 1, "P"), Endpoint(2, 2, "Q"), Endpoint(3, 3, "Q")>>
=============================================================================
