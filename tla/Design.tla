------------------------------- MODULE Design -------------------------------
(***************************************************************************)
(* From design.yml to the sequences the log watcher runs: the merging of   *)
(* the YAML and its validation (src/config/design*.go), what ProcessHosts  *)
(* makes of the hosts, what ProcessNodes makes of the texts of the nodes,  *)
(* and the loaders of the actions (src/cmds/action.go, src/cmds/util.go).  *)
(* The database is initialised before the hosts, and mongodb started on a  *)
(* host before its nodes: what they refuse is refused late.                *)
(*                                                                         *)
(* Texts are tokens: "" is empty and "blank" has only spaces; Nil is what  *)
(* the file does not give, where that differs from an empty text, and      *)
(* Other a value that is neither a text nor what else is expected.         *)
(***************************************************************************)
EXTENDS Integers, SequencesExt

CONSTANTS Files,        (* the design files                                   *)
          HostPart,     (* addresses with a colon: their host, or Bad         *)
          Parses,       (* the queries and URIs that parse                    *)
          Compiles,     (* what comes of a text that has to compile to a map: *)
                        (* ok, error, or either of them where that depends on *)
                        (* what other nodes left in the vars                  *)
          Renders,      (* the same of a nodes-config, which need be no map   *)
          Clashes,      (* common texts and nodes' that cannot be merged      *)
          Sharing,      (* the texts that give a _nodes-config                *)
          Unwritable,   (* the aliases that cannot name a file                *)
          Null, Nil, Other, Bad

ASSUME TokensAssumption ==
    /\ Bad \notin Parses /\ "" \notin Parses /\ "blank" \notin Parses
    /\ "" \notin DOMAIN HostPart
    /\ Nil \notin {"", "blank", "init-nodes", "start-nodes", "custom-nodes", "stop-nodes"}
    /\ Other \notin STRING

\* What a section of a file can be once YAML has read it.
HostYAML == [weight : Nat, local : BOOLEAN, host : STRING, ssh : [host : STRING, user : STRING]]

ActionYAML == [name : STRING \cup {Nil}, args : Seq(STRING) \cup {Nil},
               nodes : Seq(STRING \cup {Other}), error : STRING \cup {Nil, Other}]

SequenceYAML == [query : STRING \cup {Nil, Other}, storage : STRING, action : ActionYAML,
                 register : [type : STRING \cup {Nil}, to : STRING \cup {Nil}]]

ASSUME FilesAssumption ==
    \A f \in Files :
        /\ f.hosts \in Seq(HostYAML \cup {Null})
        /\ DOMAIN f.nodes \subseteq STRING /\ IsFiniteSet(DOMAIN f.nodes)
        /\ f.nodesConfig \in STRING \cup {Nil}
        /\ f.sequences \in Seq(SequenceYAML \cup {Null})

VARIABLES file,         (* DesignYAML                                         *)
          design,       (* Design                                             *)
          hosts,        (* host.Hosts: their names                            *)
          sqs,          (* the sequences loaded so far                        *)
          pc, result

vars == <<file, design, hosts, sqs, pc, result>>

NoDesign == [storage |-> "", hosts |-> <<>>, nodes |-> <<>>, common |-> "", nodesConfig |-> "",
             sequences |-> <<>>, skip |-> FALSE]

Init == /\ file \in Files
        /\ design = NoDesign /\ hosts = {} /\ sqs = <<>>
        /\ pc = "merge" /\ result = "none"

Trim(s) == IF s = "blank" THEN "" ELSE s
Text(s) == IF s = Nil THEN "" ELSE s

End(r) == /\ pc' = "done" /\ result' = r
          /\ UNCHANGED <<file, design, hosts, sqs>>
-----------------------------------------------------------------------------
(* Merge                                                                   *)

\* A list may have null elements; they are not looked for.
MergesHosts == \A k \in DOMAIN file.hosts : file.hosts[k] # Null

MergedHost(h) == [h EXCEPT !.ssh = [host |-> Trim(h.ssh.host), user |-> Trim(h.ssh.user)]]

MergesCommon == file.common # Other

MergesNodes == \A a \in DOMAIN file.nodes : file.nodes[a] # Other

MergesAction(a) == a.name # Nil \/ a.args = Nil

MergesSequence(s) ==
    IF s = Null THEN "panic"
    ELSE IF /\ s.query # Other
            /\ MergesAction(s.action)
            /\ Trim(s.register.type) # "" /\ Trim(s.register.to) # ""
    THEN "ok" ELSE "error"

\* Without a name there is no action, whatever else is given; names keep their spaces.
MergedAction(a) ==
    IF a.name = Nil THEN [name |-> "", args |-> <<>>, nodes |-> <<>>, error |-> Nil]
                    ELSE [a EXCEPT !.args = IF @ = Nil THEN <<>> ELSE @]

MergedSequence(s) ==
    [query    |-> Trim(Text(s.query)),
     storage  |-> Trim(s.storage),
     action   |-> MergedAction(s.action),
     register |-> [type |-> Text(s.register.type), to |-> Text(s.register.to)]]

Map(Op(_), s) == [k \in DOMAIN s |-> Op(s[k])]

Merged == [storage     |-> Trim(file.storage),
           hosts       |-> Map(MergedHost, file.hosts),
           nodes       |-> Map(Text, file.nodes),
           common      |-> Text(file.common),
           nodesConfig |-> Text(file.nodesConfig),
           sequences   |-> Map(MergedSequence, file.sequences),
           skip        |-> file.skip]

SequencesMerge == \A k \in DOMAIN file.sequences : MergesSequence(file.sequences[k]) = "ok"

\* Hosts, nodes and sequences in turn, and the sequences up to the first that is refused.
Merge ==
    /\ pc = "merge"
    /\ IF ~MergesHosts \/ ~MergesCommon THEN End("panic")
       ELSE IF ~MergesNodes THEN End("error")
       ELSE IF SequencesMerge
       THEN /\ design' = Merged
            /\ pc' = "valid"
            /\ UNCHANGED <<file, hosts, sqs, result>>
       ELSE \E k \in DOMAIN file.sequences :
               /\ MergesSequence(file.sequences[k]) # "ok"
               /\ \A j \in 1..(k - 1) : MergesSequence(file.sequences[j]) = "ok"
               /\ End(MergesSequence(file.sequences[k]))
-----------------------------------------------------------------------------
(* IsValid                                                                 *)

HasPort(address) == address \in DOMAIN HostPart

\* DesignHostSSH.IsValid
ValidSSH(ssh) == /\ ssh.host # "" /\ ~(HasPort(ssh.host) /\ HostPart[ssh.host] = Bad)
                 /\ ssh.user # ""

\* A remote host without a name has that of its address.
HostName(h) == IF h.local \/ h.host # "" THEN h.host
               ELSE IF HasPort(h.ssh.host) THEN HostPart[h.ssh.host] ELSE h.ssh.host

ValidHost(h) == (~h.local => ValidSSH(h.ssh)) /\ HostName(h) # ""

HostNamed(h) == [h EXCEPT !.host = HostName(h)]

DefaultHost == [weight |-> 1, local |-> TRUE, host |-> "", ssh |-> [host |-> "", user |-> ""]]

ValidAction(a) == a.name = "" => a.args = <<>>

IsEmptyRegister(r) == r.type = "" \/ r.to = ""

ValidRegister(r) == IsEmptyRegister(r) \/ r.type = "last_match"

\* A register with only one of its fields is cleared without a word.
RegisterKept(s) ==
    IF IsEmptyRegister(s.register) THEN [s EXCEPT !.register = [type |-> "", to |-> ""]] ELSE s

ValidSequence(s) == /\ s.query \in Parses
                    /\ s.storage \in Parses \cup {"", "template"}
                    /\ ValidAction(s.action) /\ ValidRegister(s.register)

IsValid ==
    /\ pc = "valid"
    /\ IF \/ design.storage \notin Parses \cup {""}
          \/ \E k \in DOMAIN design.hosts : ~ValidHost(design.hosts[k])
          \/ \E k \in DOMAIN design.sequences : ~ValidSequence(design.sequences[k])
       THEN End("error")
       ELSE IF design.skip THEN End("skipped")
       ELSE /\ design' = [design EXCEPT
                  !.storage = IF @ = "" THEN "default" ELSE @,
                  !.hosts = IF @ = <<>> THEN <<DefaultHost>> ELSE Map(HostNamed, @),
                  !.sequences = Map(RegisterKept, @)]
            /\ pc' = "storage"
            /\ UNCHANGED <<file, hosts, sqs, result>>

\* HookConfigStorage: the database of a run is named after the test, too.
SetDatabase == /\ pc = "storage"
               /\ design' = [design EXCEPT !.storage = "own"]
               /\ pc' = "hosts"
               /\ UNCHANGED <<file, hosts, sqs, result>>
-----------------------------------------------------------------------------
(* ProcessHosts; see SpreadNodes for the shares                            *)

Written(k) == design.hosts[k]

\* (A slip: hosts without a weight are given nodes, too.)
HostedAll == DOMAIN design.hosts

Hosted == {k \in DOMAIN design.hosts : Written(k).weight > 0}
Nodes  == DOMAIN design.nodes
Least(i, j) == IF i < j THEN i ELSE j

\* The hosts that are given nodes: as many of those with a weight as there are nodes;
\* any one if none has a weight.
Chosen ==
    {c \in SUBSET DOMAIN design.hosts :
        IF Nodes = {} THEN c = {}
        ELSE IF Hosted = {} \/ Cardinality(Nodes) = 1 THEN Cardinality(c) = 1
        ELSE /\ c \subseteq Hosted
             /\ Cardinality(c) = Least(Cardinality(Nodes), Cardinality(Hosted))}

\* For fewer than two nodes there is one share, and no index for a second host.
\* Hosts.AddHost refuses a name it has.
PrepareHosts ==
    /\ pc = "hosts"
    /\ IF Cardinality(Nodes) < 2 /\ Len(design.hosts) > 1 THEN End("panic")
       ELSE \E c \in Chosen :
            IF \E j, k \in c : j # k /\ Written(j).host = Written(k).host THEN End("error")
            ELSE /\ hosts' = {Written(k).host : k \in c}
                 /\ pc' = "nodes"
                 /\ UNCHANGED <<file, design, sqs, result>>
-----------------------------------------------------------------------------
(* ProcessNodes                                                            *)

NodeTexts == {design.nodes[a] : a \in Nodes}
Templates == NodeTexts \cup {design.common}

\* Every host is a LocalHost, on the same docker, and starts a container of the one name
\* contest-mongodb: there can be no second host.  What is shared is looked up for every
\* node, whether any shares or not.  Which host and node comes first is left open.
PrepareNodes ==
    /\ pc = "nodes"
    /\ IF Nodes = {}
       THEN pc' = "load" /\ UNCHANGED <<file, design, hosts, sqs, result>>
       ELSE \/ (\E t \in Templates : "error" \in Compiles[t]) /\ End("error")
            \/ (\E t \in NodeTexts : <<design.common, t>> \in Clashes) /\ End("panic")
            \/ Cardinality(hosts) > 1 /\ End("error")
            \/ /\ Cardinality(hosts) = 1
               /\ \A t \in Templates : "ok" \in Compiles[t]
               /\ \A t \in NodeTexts : <<design.common, t>> \notin Clashes
               /\ IF Templates \cap Sharing = {} THEN End("panic")
                  ELSE \/ /\ \/ "error" \in Renders[design.nodesConfig]
                             \/ Nodes \cap Unwritable # {}
                          /\ End("error")
                       \/ /\ "ok" \in Renders[design.nodesConfig] /\ Nodes \cap Unwritable = {}
                          /\ pc' = "load"
                          /\ UNCHANGED <<file, design, hosts, sqs, result>>
-----------------------------------------------------------------------------
(* ProcessLogWatcher                                                       *)

NodesLoaders == {"init-nodes", "start-nodes", "custom-nodes", "stop-nodes"}
ActionLoaders == NodesLoaders \cup {"kill", "host-command"}

\* findNodesFromDesign: an empty list is as good as none.
FoundNodes(a) == a.nodes # <<>> /\ Other \notin ToSet(a.nodes)

\* (A slip: one alias more may be given twice.)
FiltersTwo(aliases) == /\ Len(aliases) > 2 => IsInjective(aliases)
                       /\ ToSet(aliases) \subseteq Nodes

\* filterNodes
Filters(aliases) == /\ Len(aliases) > 1 => IsInjective(aliases)
                    /\ ToSet(aliases) \subseteq Nodes

LoadAction(a) ==
    IF a.name = "" THEN "ok"                            \* NullAction
    ELSE IF a.name = "kill" /\ a.error = Other THEN "panic"
    ELSE IF /\ a.name \in ActionLoaders
            /\ a.name \in NodesLoaders => FoundNodes(a) /\ Filters(a.nodes)
            /\ a.name = "host-command" => a.args # <<>>
    THEN "ok" ELSE "error"

\* NewCondition: the database is that of the run unless there is another.
NewCondition(s) == [s EXCEPT !.storage = IF @ = "" THEN design.storage ELSE @]

\* It looks for a local host before, and every host is one.
ParseSequence ==
    /\ pc = "load" /\ Len(sqs) < Len(design.sequences)
    /\ LET s == design.sequences[Len(sqs) + 1]
           outcome == IF hosts = {} THEN "error" ELSE LoadAction(s.action)
       IN  IF outcome # "ok" THEN End(outcome)
           ELSE /\ sqs' = Append(sqs, NewCondition(s))
                /\ UNCHANGED <<file, design, hosts, pc, result>>

\* NewLogWatcher
NewLogWatcher ==
    /\ pc = "load" /\ Len(sqs) = Len(design.sequences)
    /\ End(IF sqs = <<>> THEN "error" ELSE "watching")

Next == \/ Merge \/ IsValid \/ SetDatabase \/ PrepareHosts \/ PrepareNodes
        \/ ParseSequence \/ NewLogWatcher

Spec == Init /\ [][Next]_vars
-----------------------------------------------------------------------------
\* The watcher runs what the file says, one sequence for each of it: with a query that
\* parses, in the database of the run or the one it names, with the action it names on
\* the nodes it lists, none of them twice and all of them known, and with the register
\* it gives.  Only a register with one field and an action without a name are dropped.
LoadedAsWritten ==
    result = "watching" =>
        /\ Len(sqs) = Len(file.sequences) /\ sqs # <<>>
        /\ \A k \in DOMAIN sqs :
            LET s == file.sequences[k]
                whole == s.register.type # Nil /\ s.register.to # Nil
            IN  /\ sqs[k].query = s.query /\ s.query \in Parses
                /\ sqs[k].storage = IF Trim(s.storage) = "" THEN "own" ELSE s.storage
                /\ sqs[k].action.name = Text(s.action.name)
                /\ s.action.name \in NodesLoaders =>
                      /\ sqs[k].action.nodes = s.action.nodes
                      /\ s.action.nodes # <<>> /\ IsInjective(s.action.nodes)
                      /\ ToSet(s.action.nodes) \subseteq DOMAIN file.nodes
                /\ sqs[k].register = IF whole THEN [type |-> "last_match", to |-> s.register.to]
                                              ELSE [type |-> "", to |-> ""]

WrittenNodes     == {Text(file.nodes[a]) : a \in DOMAIN file.nodes}
WrittenTemplates == WrittenNodes \cup {Text(file.common)}

\* What makes a run end after it has begun to change the database and the hosts: too few
\* nodes, two hosts to be given some, texts of nodes that do not compile, cannot be merged
\* or give no _nodes-config, a nodes-config that cannot be executed, an alias that names no
\* file, no sequence, or an action that cannot be loaded.
LateFaults ==
    \/ DOMAIN file.nodes = {}
    \/ Cardinality(DOMAIN file.nodes) = 1 /\ Len(file.hosts) > 1
    \/ \E j, k \in DOMAIN file.hosts :
          j # k /\ file.hosts[j].weight > 0 /\ file.hosts[k].weight > 0
    \/ \E t \in WrittenTemplates : "error" \in Compiles[t]
    \/ \E t \in WrittenNodes : <<Text(file.common), t>> \in Clashes
    \/ WrittenTemplates \cap Sharing = {}
    \/ "error" \in Renders[Text(file.nodesConfig)]
    \/ DOMAIN file.nodes \cap Unwritable # {}
    \/ file.sequences = <<>>
    \/ \E s \in ToSet(file.sequences) :
          /\ s.action.name \notin {Nil, ""}
          /\ \/ s.action.name \notin ActionLoaders
             \/ s.action.name = "kill" /\ s.action.error = Other
             \/ s.action.name = "host-command" /\ s.action.args \in {Nil, <<>>}
             \/ /\ s.action.name \in NodesLoaders
                /\ \/ s.action.nodes = <<>>
                   \/ ~IsInjective(s.action.nodes)
                   \/ ~(ToSet(s.action.nodes) \subseteq DOMAIN file.nodes)

\* No run ends after the database, and mongodb, were touched but for one of these, which
\* ProcessConfig does not look for; all else that it or what comes later would refuse in
\* the hosts, nodes and sequences of a file is refused by ProcessConfig, before any of that.
RefusedEarly ==
    [][result' \in {"error", "panic"} /\ pc \in {"hosts", "nodes", "load"} => LateFaults]_vars

\* The inductive invariant.  What the file gives is taken over only in its entirety:
MergedInFull == MergesHosts /\ SequencesMerge

\* every host and sequence of the design is what the file gives, looked through;
Validated ==
    /\ MergedInFull
    /\ \A k \in DOMAIN Merged.hosts : ValidHost(Merged.hosts[k])
    /\ \A k \in DOMAIN Merged.sequences : ValidSequence(Merged.sequences[k])
    /\ design.hosts = IF file.hosts = <<>> THEN <<DefaultHost>> ELSE Map(HostNamed, Merged.hosts)
    /\ design.nodes = Merged.nodes /\ design.common = Merged.common
    /\ design.nodesConfig = Merged.nodesConfig
    /\ design.sequences = Map(RegisterKept, Merged.sequences)

\* there is a host for the nodes, and a second only where two hosts have a weight;
HostsGiven ==
    /\ hosts = {} => Nodes = {}
    /\ IsFiniteSet(hosts)
    /\ Cardinality(hosts) > 1 => \E j, k \in DOMAIN design.hosts :
          j # k /\ design.hosts[j].weight > 0 /\ design.hosts[k].weight > 0

\* and every sequence loaded is the one of the design at its place, with an action that
\* could be loaded.
LoadedInTurn ==
    /\ sqs \in Seq({NewCondition(design.sequences[k]) : k \in DOMAIN design.sequences})
    /\ Len(sqs) <= Len(design.sequences)
    /\ \A k \in DOMAIN sqs : /\ sqs[k] = NewCondition(design.sequences[k])
                             /\ LoadAction(design.sequences[k].action) = "ok"

DesignInv ==
    /\ file \in Files
    /\ pc \in {"merge", "valid", "storage", "hosts", "nodes", "load", "done"}
    /\ pc # "done" => result = "none"
    /\ pc \in {"merge", "valid", "storage", "hosts", "nodes"} => sqs = <<>>
    /\ pc = "valid" => MergedInFull /\ design = Merged
    /\ pc \in {"storage", "hosts", "nodes", "load"} \/ result = "watching" => Validated
    /\ pc \in {"hosts", "nodes", "load"} \/ result = "watching" => design.storage = "own"
    /\ pc \in {"nodes", "load"} => HostsGiven
    /\ pc = "load" \/ result = "watching" => LoadedInTurn
    /\ result = "watching" => Len(sqs) = Len(design.sequences) /\ sqs # <<>>
=============================================================================
