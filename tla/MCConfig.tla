------------------------------- MODULE MCConfig -------------------------------
(* ConfigEditor for TLC: a driver that is optional and a provider; one that *)
(* the driver's value needs, which is a rule between two sections.          *)
EXTENDS ConfigEditor

MCDoc == [Section -> Value \cup {"absent", "unset"}]
MCStart == {[driver |-> "absent", llm |-> "absent"], [driver |-> "a", llm |-> "d"], [driver |-> "unset", llm |-> "unset"]}
MCValid(d) == d["driver"] = "a" => d["llm"] # "absent"
=============================================================================
