-------------------------- MODULE MCParserSessions --------------------------
(* Three parses in one process, over lists that share names or fail. *)
EXTENDS ParserSessions

MCNames == {"A", "B", "a", "b", "-"}

Sign(kind) == [kind |-> kind, text |-> "-"]
Id(kind, text) == [kind |-> kind, text |-> text]

TokenA == <<Id("tokenDecl", "A"), Sign("equal"), Sign("block"), Sign("semicolon")>>
TokenB == <<Id("tokenDecl", "B"), Sign("equal"), Id("upper", "A"), Sign("semicolon")>>
RuleOf(name) == <<Id("ruleDecl", name), Sign("equal"), Id("upper", "A"),
                  Sign("pipe"), Id("lower", "b"), Sign("semicolon")>>
BadItem == <<Id("ruleDecl", "b"), Sign("equal"), Sign("block"), Sign("plus"),
             Sign("semicolon")>>
Broken == <<Id("tokenDecl", "B"), Sign("equal"), Sign("loneBracket"), Sign("semicolon")>>
BadRule == <<Id("ruleDecl", "b"), Sign("equal"), Sign("semicolon")>>

MCSources == {<<>>, TokenA, TokenA \o TokenB, RuleOf("a"), TokenA \o RuleOf("b"),
              RuleOf("b") \o RuleOf("a"), BadItem, RuleOf("a") \o BadRule,
              TokenA \o Broken}
=============================================================================
