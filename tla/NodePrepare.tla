---------------------------- MODULE NodePrepare ----------------------------
(***************************************************************************)
(* How the nodes get their configuration (src/cmds/process_nodes.go,       *)
(* util.go; src/host/local_host.go, node.go; src/config): host by host and *)
(* node by node, in the order of Go's maps, the template of the node and   *)
(* then the common one are executed with the variables the nodes before    *)
(* have left; both results are merged, what begins with "_" is shared, and *)
(* each node is given what the other nodes share.                          *)
(*                                                                         *)
(* A template is any sequence of the calls that matter here, MaxCalls at   *)
(* most, and it may be another one for another node: templates may test    *)
(* .Self.Alias.  There is one variable below Self, the URL of a node with  *)
(* the host port of one container port in it, and one that nodes share, X. *)
(* The template nodes-config makes none of these calls.                    *)
(***************************************************************************)
EXTENDS Integers, SequencesExt

CONSTANTS Hosts,
          Nodes,
          MaxCalls,     (* bound on the calls a template makes                *)
          MaxFaults     (* bound on failed calls of docker and of the system  *)

ASSUME ConstantsAssumption ==
    /\ Nodes \cap {"unset", "null", "vars"} = {}
    /\ MaxCalls \in Nat /\ MaxFaults \in Nat

VARIABLES rootX,        (* X in the root vars: the section "vars" may set it   *)
          hostOf,       (* the host of each node; a host without one is left   *)
                        (*   out                                              *)
          mongodb,      (* there is a container of the name contest-mongodb   *)
          hosts,        (* hosts not yet prepared                             *)
          host,         (* the one being prepared                             *)
          todo,         (* its nodes not yet prepared                         *)
          node,         (* the one being prepared                             *)
          phase, calls, (* the template being executed, and its calls so far  *)
          url, x,       (* variables Self.URL and X of the node's vars        *)
          binder,       (* whose method ContainerBindPort is in the funcMap,  *)
                        (*   which all clones of the vars share               *)
          ports,        (* ho.ports of each host                              *)
          asked,        (* history: ports handed to the templates of a node   *)
          portMap,      (* the host port the container port is bound to       *)
          rendered,     (* what the templates of the node printed             *)
          config,       (* X in the merged configuration of each node         *)
          shared,       (* URLs that the nodes of this host share             *)
          allShared,    (* shared["nodes-config"]                             *)
          common,       (* Design.Common.X of the root vars                   *)
          peers,        (* what each node is told of the others               *)
          saved,        (* nodes with their files                             *)
          pc,
          overridden,   (* history: OverrideVar was called                    *)
          faults

tmplVars == <<phase, calls, url, x, rendered, overridden>>
portVars == <<ports, asked, portMap>>
hostVars == <<rootX, hostOf, mongodb, hosts, host, todo, node, binder>>
outVars  == <<config, shared, allShared, common, peers, saved>>
vars == <<hostVars, tmplVars, portVars, outVars, pc, faults>>

Unset == 0
Fault == faults < MaxFaults /\ faults' = faults + 1
Blank == [p \in {"design", "common"} |-> [url |-> Unset, x |-> "unset"]]
NoUrls == [n \in Nodes |-> Unset]
Shares(urls) == {n \in Nodes : urls[n] # Unset}

\* HookVars: the section "vars" of the design is a template, too.
HookVars == rootX \in {"unset", "vars"}

Init == /\ HookVars
        /\ hostOf \in [Nodes -> Hosts]
        /\ mongodb = FALSE /\ hosts = {hostOf[n] : n \in Nodes}
        /\ host = (CHOOSE h \in Hosts : TRUE)  \* not read before they are set
        /\ node = (CHOOSE n \in Nodes : TRUE)
        /\ todo = {} /\ phase = "design" /\ calls = 0 /\ url = Unset /\ x = "unset"
        /\ binder = "unset" /\ ports = [h \in Hosts |-> {}]
        /\ asked = [n \in Nodes |-> <<>>] /\ portMap = NoUrls
        /\ rendered = Blank /\ config = [n \in Nodes |-> "unset"]
        /\ shared = NoUrls /\ allShared = NoUrls /\ common = "unset"
        /\ peers = [n \in Nodes |-> NoUrls] /\ saved = {}
        /\ pc = "hosts" /\ overridden = FALSE /\ faults = 0
-----------------------------------------------------------------------------
(* Hosts and nodes.                                                        *)

\* LocalHost.Prepare, up to its nodes: every host has its mongodb launched under
\* the same name, by the same docker.
PrepareHost(h) ==
    /\ pc = "hosts" /\ h \in hosts
    /\ \/ /\ ~mongodb /\ mongodb' = TRUE
          /\ hosts' = hosts \ {h} /\ host' = h
          /\ todo' = {n \in Nodes : hostOf[n] = h}
          /\ shared' = NoUrls /\ url' = Unset /\ x' = rootX
          /\ pc' = "nodes" /\ UNCHANGED faults
       \/ /\ mongodb /\ pc' = "failed"
          /\ UNCHANGED <<mongodb, hosts, host, todo, shared, url, x, faults>>
       \/ /\ Fault /\ pc' = "failed" /\ mongodb' \in {mongodb, TRUE}
          /\ UNCHANGED <<hosts, host, todo, shared, url, x>>
    /\ UNCHANGED <<rootX, hostOf, node, binder, phase, calls, rendered, overridden, config,
                   allShared, common, peers, saved>>
    /\ UNCHANGED portVars

PrepareWith(n, bindTo, self) ==
    /\ pc = "nodes" /\ n \in todo
    /\ todo' = todo \ {n} /\ node' = n
    /\ binder' = bindTo /\ url' = self
    /\ phase' = "design" /\ calls' = 0 /\ rendered' = Blank
    /\ pc' = "render"
    /\ UNCHANGED <<rootX, hostOf, mongodb, hosts, host, x, overridden, faults>>
    /\ UNCHANGED portVars /\ UNCHANGED outVars

\* (Slips: the function is added once; Self of the node before is handed on.)
PrepareFuncOnce(n) == PrepareWith(n, IF binder = "unset" THEN n ELSE binder, Unset)
PrepareSelfKept(n) == PrepareWith(n, n, url)

\* newNodeVars hands the variables of the node before on, Self left out;
\* prepareVars adds the node's own ContainerBindPort.
PrepareNode(n) ==
    /\ pc = "nodes" /\ n \in todo
    /\ todo' = todo \ {n} /\ node' = n
    /\ binder' = n /\ url' = Unset
    /\ phase' = "design" /\ calls' = 0 /\ rendered' = Blank
    /\ pc' = "render"
    /\ UNCHANGED <<rootX, hostOf, mongodb, hosts, host, x, overridden, faults>>
    /\ UNCHANGED portVars /\ UNCHANGED outVars
-----------------------------------------------------------------------------
(* Calls in the templates.                                                 *)

Calling == /\ pc = "render" /\ calls < MaxCalls
           /\ UNCHANGED phase /\ UNCHANGED hostVars /\ UNCHANGED outVars

Called == calls' = calls + 1 /\ UNCHANGED <<pc, faults>>

\* Ports the system may offer: any that the host has not given out yet.  Their
\* order does not matter, so it is the next one.
AvailablePort(h) == Cardinality(ports[h]) + 1

\* SetVar "Self.URL" (ContainerBindPort ..): the port is bound anew even if the
\* variable is set and stays as it is; or there is no port, a panic.
SetURL == /\ Calling
          /\ \/ LET p == AvailablePort(hostOf[binder]) IN
                /\ ports' = [ports EXCEPT ![hostOf[binder]] = @ \cup {p}]
                /\ asked' = [asked EXCEPT ![node] = Append(@, p)]
                /\ portMap' = [portMap EXCEPT ![binder] = p]
                /\ url' = IF url = Unset THEN p ELSE url
                /\ Called
             \/ /\ Fault /\ pc' = "panic" /\ UNCHANGED <<portVars, url, calls>>
          /\ UNCHANGED <<x, rendered, overridden>>

\* (A slip: the value is set again.)
SetAgain == /\ Calling /\ x' = node /\ Called
            /\ UNCHANGED <<url, rendered, overridden>> /\ UNCHANGED portVars

\* SetVar "X" or NewKey "X": the first value stays.
SetX == /\ Calling /\ x' = (IF x = "unset" THEN node ELSE x) /\ Called
        /\ UNCHANGED <<url, rendered, overridden>> /\ UNCHANGED portVars

\* OverrideVar "X"
OverrideX == /\ Calling /\ x' = node /\ overridden' = TRUE /\ Called
             /\ UNCHANGED <<url, rendered>> /\ UNCHANGED portVars

PrintKey(key, value, unset) ==
    /\ Calling /\ rendered[phase][key] = unset
    /\ IF value = unset                     \* "<no value>" fails the template
       THEN pc' = "failed" /\ UNCHANGED <<rendered, calls, faults>>
       ELSE rendered' = [rendered EXCEPT ![phase][key] = value] /\ Called
    /\ UNCHANGED <<url, x, overridden>> /\ UNCHANGED portVars

PrintX    == PrintKey("x", x, "unset")
PrintNull == PrintKey("x", "null", "unset")    \* x: null
ShareURL  == PrintKey("url", url, Unset)       \* _nodes-config: {url: ..}
-----------------------------------------------------------------------------
(* What comes after.                                                       *)

Design == rendered["design"]
Common == rendered["common"]

\* MergeItem: the node's own value goes first, and null is left out.  mergeItem
\* panics when a null is to replace a value.
MergePanics == Design.x = "null" /\ Common.x \notin {"unset", "null"}
MergedX == LET v == IF Design.x = "unset" THEN Common.x ELSE Design.x
           IN IF v = "null" THEN "unset" ELSE v
MergedURL == IF Design.url # Unset THEN Design.url ELSE Common.url

\* The end of a template: the common one is next, or the results are merged.
EndTemplate ==
    /\ pc = "render"
    /\ \/ /\ phase = "design" /\ phase' = "common" /\ calls' = 0
          /\ UNCHANGED <<config, shared, pc>>
       \/ /\ phase = "common" /\ UNCHANGED <<phase, calls>>
          /\ IF MergePanics
             THEN pc' = "panic" /\ UNCHANGED <<config, shared>>
             ELSE /\ config' = [config EXCEPT ![node] = MergedX]
                  /\ shared' = [shared EXCEPT ![node] = MergedURL]
                  /\ pc' = "nodes"
    /\ UNCHANGED <<url, x, rendered, overridden, allShared, common, peers, saved, faults>>
    /\ UNCHANGED hostVars /\ UNCHANGED portVars

\* The end of LocalHost.Prepare; generateNodesConfig replaces what an earlier host
\* shared, and goes on with the next.
EndHost ==
    /\ pc = "nodes" /\ todo = {}
    /\ common' = x
    /\ allShared' = IF Shares(shared) = {} THEN allShared ELSE shared
    /\ pc' = IF hosts = {} THEN "peers" ELSE "hosts"
    /\ UNCHANGED <<config, shared, peers, saved, faults>>
    /\ UNCHANGED hostVars /\ UNCHANGED portVars /\ UNCHANGED tmplVars

\* The rest of generateNodesConfig: a nil map of shared URLs is a panic.
GiveNodesConfig ==
    /\ pc = "peers"
    /\ IF Shares(allShared) = {}
       THEN pc' = "panic" /\ UNCHANGED peers
       ELSE /\ peers' = [n \in Nodes |-> [allShared EXCEPT ![n] = Unset]]
            /\ pc' = "save"
    /\ UNCHANGED <<config, shared, allShared, common, saved, faults>>
    /\ UNCHANGED hostVars /\ UNCHANGED portVars /\ UNCHANGED tmplVars

\* saveNodeConfig and createNodeLogFile, node by node.
Save(n) ==
    /\ pc = "save" /\ n \notin saved
    /\ \/ /\ saved' = saved \cup {n} /\ UNCHANGED faults
          /\ pc' = IF saved' = Nodes THEN "done" ELSE "save"
       \/ Fault /\ pc' = "failed" /\ UNCHANGED saved
    /\ UNCHANGED <<config, shared, allShared, common, peers>>
    /\ UNCHANGED hostVars /\ UNCHANGED portVars /\ UNCHANGED tmplVars

Terminating == pc \in {"done", "failed", "panic"} /\ UNCHANGED vars

Next == \/ \E h \in Hosts : PrepareHost(h)
        \/ \E n \in Nodes : PrepareNode(n) \/ Save(n)
        \/ SetURL \/ SetX \/ OverrideX \/ PrintX \/ PrintNull \/ ShareURL
        \/ EndTemplate \/ EndHost \/ GiveNodesConfig
        \/ Terminating

Spec == Init /\ [][Next]_vars
-----------------------------------------------------------------------------
Asked(n) == ToSet(asked[n])

\* No port is handed out twice on a host, and what is published for a node is the
\* port its own templates were handed last: ContainerBindPort is a method of one
\* node in a map that the variables of all nodes share.
PortsAreOwn ==
    \A m, n \in Nodes :
        /\ m # n /\ hostOf[m] = hostOf[n] => Asked(m) \cap Asked(n) = {}
        /\ portMap[n] = (IF asked[n] = <<>> THEN Unset ELSE Last(asked[n]))

\* Every node is told of all others that share their URL, and the port in it is
\* the published one, unless the templates of that node have asked for a port
\* again: containerBindPort does not find the one it has bound before.
PeersAreReachable ==
    pc = "done" => \A m, n \in Nodes :
        IF m = n \/ shared[m] = Unset
        THEN peers[n][m] = Unset
        ELSE /\ asked[m] # <<>> /\ peers[n][m] = Head(asked[m])
             /\ Len(asked[m]) = 1 => peers[n][m] = portMap[m]

\* What the templates set for all is one value for all: the nodes of a run that
\* print X print the same, and conditions find it as Design.Common.X.
CommonIsCommon ==
    ~overridden /\ pc = "done" => \A n \in Nodes : config[n] \in {"unset", common}

\* Every variable has its type; those that a run has not set yet are not read.
Values == {"unset", "null", "vars"} \cup Nodes

TypeOK ==
    /\ hostOf \in [Nodes -> Hosts] /\ hosts \subseteq Hosts /\ mongodb \in BOOLEAN
    /\ todo \subseteq Nodes /\ saved \subseteq Nodes
    /\ phase \in {"design", "common"} /\ calls \in 0..MaxCalls
    /\ {rootX, x, common} \subseteq Values /\ config \in [Nodes -> Values]
    /\ rendered \in [{"design", "common"} -> [url : Nat, x : Values]] /\ url \in Nat
    /\ ports \in [Hosts -> SUBSET (Nat \ {0})] /\ asked \in [Nodes -> Seq(Nat \ {0})]
    /\ {portMap, shared, allShared} \subseteq [Nodes -> Nat]
    /\ peers \in [Nodes -> [Nodes -> Nat]]
    /\ pc \in {"hosts", "nodes", "render", "peers", "save", "done", "failed", "panic"}
    /\ pc \in {"nodes", "render"} => host \in Hosts
    /\ pc = "render" => node \in Nodes \ todo
    /\ overridden \in BOOLEAN /\ faults \in 0..MaxFaults

\* The inductive invariant.  The ports of a host are the first ones it could give.
PortsCounted ==
    \A h \in Hosts : /\ Cardinality(ports[h]) \in Nat
                     /\ ports[h] = 1..Cardinality(ports[h])

AskedOfHost == \A n \in Nodes : Asked(n) \subseteq ports[hostOf[n]]

\* Nothing is prepared before the first mongodb is launched, and no host after it.
Untouched ==
    /\ ~mongodb => /\ pc \in {"hosts", "failed"} /\ allShared = NoUrls
                   /\ \A n \in Nodes : asked[n] = <<>> /\ config[n] = "unset"
    /\ \A n \in todo : asked[n] = <<>>

\* The URL of a node has the first of the ports its templates were handed, wherever
\* it is; the function that hands them out is the node's own.
FirstAsked(n) == IF asked[n] = <<>> THEN Unset ELSE Head(asked[n])

FirstPortStays ==
    /\ pc = "render" => /\ binder = node /\ url = FirstAsked(node)
                        /\ \A p \in {"design", "common"} : rendered[p].url \in {Unset, url}
    /\ \A n \in Nodes : shared[n] \in {Unset, FirstAsked(n)}

\* What is shared is what the only host that is prepared shares.
SharedByOne ==
    /\ pc \in {"nodes", "render"} => allShared = NoUrls
    /\ pc \in {"peers", "save", "done"} => allShared = shared
    /\ pc \in {"save", "done"} =>
          peers = [n \in Nodes |-> [allShared EXCEPT ![n] = Unset]]

\* X has one value from the first time it is set.
FirstXStays ==
    ~overridden =>
        /\ \A n \in Nodes : config[n] \in {"unset", x}
        /\ pc = "render" => \A p \in {"design", "common"} :
                               rendered[p].x \in {"unset", "null", x}
        /\ pc \in {"peers", "save", "done"} => common = x

PrepareInv == /\ TypeOK /\ PortsCounted /\ AskedOfHost /\ PortsAreOwn /\ Untouched
              /\ FirstPortStays /\ SharedByOne /\ FirstXStays
=============================================================================
