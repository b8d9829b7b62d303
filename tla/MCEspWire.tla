----------------------------- MODULE MCEspWire -----------------------------
(* EspWire with messages chosen so that payloads contain what an answer, a  *)
(* prompt or a connection report would contain.                             *)
EXTENDS EspWire

Line(t)    == [kind |-> "line", text |-> t]
Ipd(i, d)  == [kind |-> "ipd", id |-> i, data |-> d]
Prompt     == [kind |-> "prompt"]

MCSay ==
    { Line(Keyword.atc_ok), Prompt,
      [kind |-> "connect", id |-> 0], [kind |-> "closed", id |-> 0],
      Ipd(0, CrLf \o <<"O", "K">> \o CrLf \o <<"d", "0", "comma", ">">>),
      Ipd(1, <<">">>) }

MCTyped == { Keyword.atc_ok \o <<"cr">>, <<"x">> }
=============================================================================
