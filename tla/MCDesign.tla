------------------------------ MODULE MCDesign ------------------------------
(* Instances of Design for TLC: all files in which at most two of the sections *)
(* hosts, nodes and sequences leave what is plain, and all texts of nodes.     *)
EXTENDS Design

MCHostPart == ("h1:22" :> "h1") @@ ("h1:2:2" :> Bad) @@ (":22" :> "")
MCParses   == {"good", "same"}

Host(w, l, h, a, u) == [weight |-> w, local |-> l, host |-> h, ssh |-> [host |-> a, user |-> u]]
HostYAMLs ==
    {Null, Host(1, TRUE, "h1", "", ""), Host(2, TRUE, "", "", ""),
     Host(0, TRUE, "h2", "", ""), Host(1, FALSE, "", "h1:22", "u"),
     Host(2, FALSE, "", "h2", "u"), Host(1, FALSE, "h3", "h2", "u"),
     Host(1, FALSE, "", "h1:2:2", "u"), Host(1, FALSE, "", ":22", "u"),
     Host(1, FALSE, "", "blank", "u"),
     Host(1, FALSE, "h1", "h2", "blank")}

Aliases    == {"n0", "n1"}
NodesYAMLs == UNION {[S -> {Nil, "text", Other}] : S \in SUBSET Aliases}

Action(n, a, ns, e) == [name |-> n, args |-> a, nodes |-> ns, error |-> e]
Idle == Action(Nil, Nil, <<>>, Nil)
Actions ==
    {Idle, Action(Nil, <<"a">>, <<>>, Nil), Action(Nil, Nil, <<"n0">>, Nil),
     Action("", <<"a">>, <<>>, Nil), Action("", Nil, <<"n0">>, Nil),
     Action("unknown", Nil, <<>>, Nil), Action("host-command", Nil, <<>>, Nil),
     Action("host-command", <<"a">>, <<>>, Nil)}
    \cup {Action("kill", Nil, <<>>, e) : e \in {Nil, "text", Other}}
    \cup {Action(n, Nil, ns, Nil) : n \in {"start-nodes", "stop-nodes"},
                                    ns \in SeqOf({"n0", "n1", "n2", Other}, 2)}

Registers == {[type |-> t, to |-> o] : t \in {Nil, "", "blank", "last_match", "first_match"},
                                       o \in {Nil, "", "blank", "found"}}
Sequence(q, st, a, r) == [query |-> q, storage |-> st, action |-> a, register |-> r]
NoRegister == [type |-> Nil, to |-> Nil]
Plain == Sequence("good", "", Action("start-nodes", Nil, <<"n0">>, Nil), NoRegister)

SequenceYAMLs ==
    {Null}
    \cup {[Plain EXCEPT !.query = q, !.storage = st] :
             q \in {Nil, "blank", "good", "broken", Other},
             st \in {"", "blank", "same", "broken", "template"}}
    \cup {[Plain EXCEPT !.action = a] : a \in Actions}
    \cup {[Plain EXCEPT !.register = r] : r \in Registers}

Nodes2 == [a \in Aliases |-> "text"]
Base   == [storage |-> "", hosts |-> <<>>, nodes |-> Nodes2, common |-> "shared",
           nodesConfig |-> "text", sequences |-> <<Plain>>, skip |-> FALSE]

\* Texts of nodes: plain ones, one with a _nodes-config, one whose template is broken, one
\* that needs a var of another node, and one with a null where "shared" has a value.
NodeTokens == {"text", "shared", "broken", "unsure", "null"}

MCCompiles == [t \in NodeTokens \cup {""} |->
                  CASE t = "broken" -> {"error"} [] t = "unsure" -> {"ok", "error"}
                    [] OTHER -> {"ok"}]
MCClashes  == {<<"shared", "null">>}
MCAliases  == SUBSET Aliases \cup {{"n0", "n/1"}}

MCFiles ==
    {[Base EXCEPT !.hosts = hs, !.nodes = ns] : hs \in SeqOf(HostYAMLs, 2), ns \in NodesYAMLs}
    \cup {[Base EXCEPT !.nodes = ns, !.sequences = ss] :
             ns \in NodesYAMLs, ss \in SeqOf(SequenceYAMLs, 1)}
    \cup {[Base EXCEPT !.sequences = ss] : ss \in SeqOf(SequenceYAMLs, 2)}
    \cup {[Base EXCEPT !.hosts = hs, !.sequences = ss] :
             hs \in SeqOf(HostYAMLs, 1), ss \in SeqOf(SequenceYAMLs, 1)}
    \cup {[Base EXCEPT !.storage = st, !.common = c, !.skip = sk, !.sequences = ss] :
             st \in {"blank", "good", "broken"}, c \in {Nil, "shared", Other},
             sk \in BOOLEAN, ss \in SeqOf(SequenceYAMLs, 1)}
    \cup {[Base EXCEPT !.nodes = ns, !.common = c, !.nodesConfig = nc] :
             ns \in UNION {[S -> NodeTokens \cup {Nil}] : S \in MCAliases},
             c \in NodeTokens \cup {Nil}, nc \in {Nil, "text", "broken", "unsure"}}
=============================================================================
