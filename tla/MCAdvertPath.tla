----------------------------- MODULE MCAdvertPath -----------------------------
(* AdvertPath on a small instance: texts of at most three symbols. *)
EXTENDS AdvertPath

MCKeyOf == [e \in End |-> e]

\* Empty, with brackets that do no harm, with one that encode refuses, with the
\* beginning of a closing tag, which does not parse, and too long.
MCHosted ==
  {<<>>, <<"]", "/">>, <<"[", "x">>, <<"[", "/">>, <<"x", "x", "x">>}

\* No port, and what is no port.
MCNoise ==
  {OpenTag("MOTD") \o <<"x">> \o CloseTag("MOTD"),
   OpenTag("AD") \o <<"x">> \o CloseTag("AD")}

MCMaxHanded == [e \in End |-> IF e = Near THEN 2 ELSE 1]

\* Pings pile up where the initiator writes before the responder runs.
MCMaxPings == [e \in End |-> IF e = "initiator" THEN 2 ELSE 1]

MCText == MCHosted

=============================================================================
