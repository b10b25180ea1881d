-------------------------- MODULE NodePrepareProofs --------------------------
(* Theorems about NodePrepare, for every set of hosts and of nodes, every    *)
(* number of calls in a template and of faults.                              *)
EXTENDS NodePrepare, FiniteSetTheorems, TLAPS

\* The port that a host gives out next is the one after those it has given out.
LEMMA NextPort ==
  ASSUME TypeOK, PortsCounted, NEW h \in Hosts
  PROVE  /\ AvailablePort(h) \in Nat \ {0} /\ AvailablePort(h) \notin ports[h]
         /\ LET q == ports[h] \cup {AvailablePort(h)} IN
               Cardinality(q) \in Nat /\ q = 1..Cardinality(q)
<1> DEFINE c == Cardinality(ports[h])
<1>1. c \in Nat /\ ports[h] = 1..c
  BY DEF PortsCounted
<1>2. Cardinality(1..(c + 1)) = c + 1
  <2> HIDE DEF c
  <2>1. QED BY <1>1, FS_Interval
<1>3. AvailablePort(h) = c + 1
  BY DEF AvailablePort
<1> HIDE DEF c
<1>4. ports[h] \cup {c + 1} = 1..(c + 1) /\ c + 1 \notin ports[h] /\ c + 1 \in Nat \ {0}
  BY <1>1
<1>5. QED BY <1>2, <1>3, <1>4

\* SetURL gives out a port that is new on the host of the node, unless it fails.
LEMMA PortGiven ==
  ASSUME TypeOK, PortsCounted, SetURL, binder = node
  PROVE  /\ pc = "render" /\ node \in Nodes /\ hostOf[node] \in Hosts
         /\ \/ UNCHANGED <<portVars, url>>
            \/ \E p \in Nat \ {0} :
               /\ p \notin ports[hostOf[node]]
               /\ ports' = [ports EXCEPT ![hostOf[node]] = @ \cup {p}]
               /\ asked' = [asked EXCEPT ![node] = Append(@, p)]
               /\ portMap' = [portMap EXCEPT ![node] = p]
               /\ url' = IF url = Unset THEN p ELSE url
               /\ LET q == ports[hostOf[node]] \cup {p} IN
                     Cardinality(q) \in Nat /\ q = 1..Cardinality(q)
<1>1. pc = "render" /\ node \in Nodes /\ hostOf[node] \in Hosts
  BY DEF SetURL, Calling, TypeOK
<1> DEFINE p == AvailablePort(hostOf[node])
<1>2. /\ p \in Nat \ {0} /\ p \notin ports[hostOf[node]]
      /\ LET q == ports[hostOf[node]] \cup {p} IN
            Cardinality(q) \in Nat /\ q = 1..Cardinality(q)
  BY <1>1, NextPort
<1>3. \/ UNCHANGED <<portVars, url>>
      \/ /\ ports' = [ports EXCEPT ![hostOf[node]] = @ \cup {p}]
         /\ asked' = [asked EXCEPT ![node] = Append(@, p)]
         /\ portMap' = [portMap EXCEPT ![node] = p]
         /\ url' = IF url = Unset THEN p ELSE url
  BY DEF SetURL
<1> HIDE DEF p
<1>4. QED BY <1>1, <1>2, <1>3

\* Which variables only some actions change.
LEMMA OnlyBy ==
  ASSUME [Next]_vars
  PROVE  /\ SetURL \/ UNCHANGED portVars
         /\ EndTemplate \/ UNCHANGED config
         /\ EndTemplate \/ (\E h \in Hosts : PrepareHost(h)) \/ UNCHANGED shared
         /\ PrintX \/ PrintNull \/ ShareURL \/ (\E n \in Nodes : PrepareNode(n))
               \/ UNCHANGED rendered
         /\ SetX \/ OverrideX \/ (\E h \in Hosts : PrepareHost(h)) \/ UNCHANGED x
         /\ EndHost \/ UNCHANGED <<common, allShared>>
         /\ GiveNodesConfig \/ UNCHANGED peers
         /\ SetURL \/ (\E h \in Hosts : PrepareHost(h)) \/ (\E n \in Nodes : PrepareNode(n))
               \/ UNCHANGED url
BY DEF Next, vars, hostVars, tmplVars, portVars, outVars, PrepareHost, PrepareNode, Save,
       SetURL, SetX, OverrideX, PrintX, PrintNull, ShareURL, PrintKey, Calling, EndTemplate,
       EndHost, GiveNodesConfig, Terminating

\* What a template prints goes below one key of its own.
LEMMA Printed ==
  ASSUME TypeOK, PrintX \/ PrintNull \/ ShareURL
  PROVE  /\ pc = "render" /\ node \in Nodes /\ phase \in {"design", "common"}
         /\ \/ UNCHANGED rendered
            \/ /\ x # "unset" /\ rendered' = [rendered EXCEPT ![phase]["x"] = x]
            \/ rendered' = [rendered EXCEPT ![phase]["x"] = "null"]
            \/ rendered' = [rendered EXCEPT ![phase]["url"] = url]
BY DEF TypeOK, PrintX, PrintNull, ShareURL, PrintKey, Calling

\* Types are kept.
LEMMA TypesKept ==
  ASSUME PrepareInv, [Next]_vars
  PROVE  TypeOK' /\ PortsCounted'
<1> USE DEF PrepareInv
<1>1. TypeOK /\ (pc = "render" => binder = node)
  BY DEF FirstPortStays
<1>2. /\ hostOf' \in [Nodes -> Hosts] /\ hosts' \subseteq Hosts /\ mongodb' \in BOOLEAN
      /\ todo' \subseteq Nodes /\ saved' \subseteq Nodes
      /\ phase' \in {"design", "common"} /\ overridden' \in BOOLEAN
  BY DEF TypeOK, Next, vars, hostVars, tmplVars, portVars, outVars, PrepareHost, PrepareNode,
         Save, SetURL, SetX, OverrideX, PrintX, PrintNull, ShareURL, PrintKey, Calling,
         Called, EndTemplate, EndHost, GiveNodesConfig, Terminating
<1>3. /\ pc' \in {"hosts", "nodes", "render", "peers", "save", "done", "failed", "panic"}
      /\ pc' \in {"nodes", "render"} => host' \in Hosts
      /\ pc' = "render" => node' \in Nodes \ todo'
  BY DEF TypeOK, Next, vars, hostVars, tmplVars, portVars, outVars, PrepareHost, PrepareNode,
         Save, SetURL, SetX, OverrideX, PrintX, PrintNull, ShareURL, PrintKey, Calling,
         Called, EndTemplate, EndHost, GiveNodesConfig, Terminating
<1>4. calls' \in 0..MaxCalls
  <2>1. UNCHANGED calls \/ calls' = 0 \/ (calls < MaxCalls /\ calls' = calls + 1)
    BY DEF Next, vars, hostVars, tmplVars, portVars, outVars, PrepareHost, PrepareNode,
           Save, SetURL, SetX, OverrideX, PrintX, PrintNull, ShareURL, PrintKey, Calling,
           Called, EndTemplate, EndHost, GiveNodesConfig, Terminating
  <2>2. calls \in 0..MaxCalls /\ MaxCalls \in Nat
    BY ConstantsAssumption DEF TypeOK
  <2>3. QED BY <2>1, <2>2
<1>5. faults' \in 0..MaxFaults
  <2>1. UNCHANGED faults \/ Fault
    BY DEF Next, vars, hostVars, tmplVars, portVars, outVars, PrepareHost, PrepareNode,
           Save, SetURL, SetX, OverrideX, PrintX, PrintNull, ShareURL, PrintKey, Calling,
           Called, EndTemplate, EndHost, GiveNodesConfig, Terminating
  <2>2. faults \in 0..MaxFaults /\ MaxFaults \in Nat
    BY ConstantsAssumption DEF TypeOK
  <2>3. QED BY <2>1, <2>2 DEF Fault
<1>6. rootX' \in Values /\ x' \in Values /\ common' \in Values
  <2>1. UNCHANGED rootX
    BY DEF Next, vars, hostVars, tmplVars, portVars, outVars, PrepareHost, PrepareNode,
           Save, SetURL, SetX, OverrideX, PrintX, PrintNull, ShareURL, PrintKey, Calling,
           EndTemplate, EndHost, GiveNodesConfig, Terminating
  <2>2. rootX \in Values /\ x \in Values /\ common \in Values
    BY DEF TypeOK
  <2>3. x' \in Values
    <3>1. CASE SetX \/ OverrideX
      <4>1. node \in Nodes /\ x' \in {x, node}
        BY <3>1 DEF SetX, OverrideX, Calling, TypeOK
      <4>2. QED BY <2>2, <4>1 DEF Values
    <3>2. CASE \E h \in Hosts : PrepareHost(h)
      BY <2>2, <3>2 DEF PrepareHost
    <3>3. CASE UNCHANGED x
      BY <2>2, <3>3
    <3>4. QED BY <3>1, <3>2, <3>3, OnlyBy
  <2>4. common' \in Values
    BY <2>2, OnlyBy DEF EndHost
  <2>5. QED BY <2>1, <2>2, <2>3, <2>4
<1>7. config' \in [Nodes -> Values]
  <2>1. CASE EndTemplate
    <3>1. Design.x \in Values /\ Common.x \in Values
      BY DEF TypeOK, Design, Common
    <3>2. MergedX \in Values
      BY <3>1 DEF MergedX, Values
    <3>3. QED BY <2>1, <3>2 DEF EndTemplate, TypeOK
  <2>2. QED BY <2>1, OnlyBy DEF TypeOK
<1>8. rendered' \in [{"design", "common"} -> [url : Nat, x : Values]]
  <2> DEFINE R == [url : Nat, x : Values]
             P == {"design", "common"}
  <2>1. rendered \in [P -> R] /\ phase \in P /\ x \in Values /\ url \in Nat
        /\ "null" \in Values
    BY DEF TypeOK, Values
  <2>2. ASSUME NEW v \in Values, rendered' = [rendered EXCEPT ![phase]["x"] = v]
        PROVE  rendered' \in [P -> R]
    <3>1. [rendered[phase] EXCEPT !["x"] = v] \in R
      BY <2>1
    <3>2. QED BY <2>1, <2>2, <3>1
  <2>3. ASSUME rendered' = [rendered EXCEPT ![phase]["url"] = url]
        PROVE  rendered' \in [P -> R]
    <3>1. [rendered[phase] EXCEPT !["url"] = url] \in R
      BY <2>1
    <3>2. QED BY <2>1, <2>3, <3>1
  <2>4. CASE PrintX \/ PrintNull \/ ShareURL
    BY <2>1, <2>2, <2>3, <2>4, Printed
  <2>5. CASE \E n \in Nodes : PrepareNode(n)
    <3>1. rendered' = Blank
      BY <2>5 DEF PrepareNode
    <3>2. [url |-> Unset, x |-> "unset"] \in R
      BY DEF Unset, Values
    <3>3. QED BY <3>1, <3>2 DEF Blank
  <2>6. QED BY <2>1, <2>4, <2>5, OnlyBy
<1>9. /\ url' \in Nat
      /\ ports' \in [Hosts -> SUBSET (Nat \ {0})] /\ asked' \in [Nodes -> Seq(Nat \ {0})]
      /\ portMap' \in [Nodes -> Nat] /\ PortsCounted'
  <2>1. /\ url \in Nat
        /\ ports \in [Hosts -> SUBSET (Nat \ {0})] /\ asked \in [Nodes -> Seq(Nat \ {0})]
        /\ portMap \in [Nodes -> Nat] /\ PortsCounted
    BY DEF TypeOK
  <2>2. CASE UNCHANGED <<portVars, url>>
    BY <2>1, <2>2 DEF portVars, PortsCounted
  <2>3. CASE SetURL /\ ~UNCHANGED <<portVars, url>>
    <3>1. pc = "render"
      BY <2>3 DEF SetURL, Calling
    <3>2. node \in Nodes /\ hostOf[node] \in Hosts
      BY <1>1, <2>3, <3>1, PortGiven, <2>1
    <3>3. PICK p \in Nat \ {0} :
             /\ ports' = [ports EXCEPT ![hostOf[node]] = @ \cup {p}]
             /\ asked' = [asked EXCEPT ![node] = Append(@, p)]
             /\ portMap' = [portMap EXCEPT ![node] = p]
             /\ url' = IF url = Unset THEN p ELSE url
             /\ LET q == ports[hostOf[node]] \cup {p} IN
                   Cardinality(q) \in Nat /\ q = 1..Cardinality(q)
      BY <1>1, <2>1, <2>3, <3>1, PortGiven
    <3>4. url' \in Nat /\ portMap' \in [Nodes -> Nat]
      BY <2>1, <3>3
    <3>5. ports' \in [Hosts -> SUBSET (Nat \ {0})]
      BY <2>1, <3>2, <3>3
    <3>6. Append(asked[node], p) \in Seq(Nat \ {0})
      BY <2>1, <3>2
    <3>7. asked' \in [Nodes -> Seq(Nat \ {0})]
      BY <2>1, <3>3, <3>6
    <3>8. ASSUME NEW h \in Hosts
          PROVE  Cardinality(ports'[h]) \in Nat /\ ports'[h] = 1..Cardinality(ports'[h])
      <4>1. CASE h = hostOf[node]
        <5>1. ports'[h] = ports[hostOf[node]] \cup {p}
          BY <2>1, <3>2, <3>3, <4>1
        <5>2. QED BY <3>3, <5>1
      <4>2. CASE h # hostOf[node]
        <5>1. ports'[h] = ports[h]
          BY <2>1, <3>2, <3>3, <4>2
        <5>2. QED BY <2>1, <5>1 DEF PortsCounted
      <4>3. QED BY <4>1, <4>2
    <3>9. PortsCounted'
      BY <3>8 DEF PortsCounted
    <3>10. QED BY <3>4, <3>5, <3>7, <3>9
  <2>4. CASE UNCHANGED portVars /\ (\E h \in Hosts : PrepareHost(h))
    <3>1. url' = url \/ url' = Unset
      BY <2>4 DEF PrepareHost
    <3>2. QED BY <2>1, <2>4, <3>1 DEF portVars, PortsCounted, Unset
  <2>5. CASE UNCHANGED portVars /\ (\E n \in Nodes : PrepareNode(n))
    BY <2>1, <2>5 DEF PrepareNode, portVars, PortsCounted, Unset
  <2>6. QED BY <2>2, <2>3, <2>4, <2>5, OnlyBy
<1>10. /\ shared' \in [Nodes -> Nat] /\ allShared' \in [Nodes -> Nat]
       /\ peers' \in [Nodes -> [Nodes -> Nat]]
  <2>1. /\ shared \in [Nodes -> Nat] /\ allShared \in [Nodes -> Nat]
        /\ peers \in [Nodes -> [Nodes -> Nat]]
    BY DEF TypeOK
  <2>2. shared' \in [Nodes -> Nat]
    <3>1. CASE EndTemplate
      <4>1. MergedURL \in Nat
        BY DEF TypeOK, MergedURL, Design, Common
      <4>2. QED BY <2>1, <3>1, <4>1 DEF EndTemplate
    <3>2. CASE \E h \in Hosts : PrepareHost(h)
      <4>1. shared' = shared \/ shared' = NoUrls
        BY <3>2 DEF PrepareHost
      <4>2. QED BY <2>1, <4>1 DEF NoUrls, Unset
    <3>3. QED BY <2>1, <3>1, <3>2, OnlyBy
  <2>3. allShared' \in [Nodes -> Nat]
    BY <2>1, OnlyBy DEF EndHost
  <2>4. peers' \in [Nodes -> [Nodes -> Nat]]
    <3>1. CASE GiveNodesConfig
      <4>1. UNCHANGED peers \/ peers' = [n \in Nodes |-> [allShared EXCEPT ![n] = Unset]]
        BY <3>1 DEF GiveNodesConfig
      <4>2. QED BY <2>1, <4>1 DEF Unset
    <3>2. QED BY <2>1, <3>1, OnlyBy
  <2>5. QED BY <2>2, <2>3, <2>4
<1>11. QED
  BY <1>2, <1>3, <1>4, <1>5, <1>6, <1>7, <1>8, <1>9, <1>10 DEF TypeOK

\* Where a node is does not change, and a list of ports only grows at its end.
LEMMA HostsStay ==
  ASSUME [Next]_vars
  PROVE  UNCHANGED hostOf
BY DEF Next, vars, hostVars, tmplVars, portVars, outVars, PrepareHost, PrepareNode, Save,
       SetURL, SetX, OverrideX, PrintX, PrintNull, ShareURL, PrintKey, Calling, EndTemplate,
       EndHost, GiveNodesConfig, Terminating

\* A node that asks for one more port: its first one stays.
LEMMA AskedAppend ==
  ASSUME TypeOK, NEW m \in Nodes, NEW p \in Nat \ {0},
         asked' = [asked EXCEPT ![m] = Append(@, p)]
  PROVE  /\ \A n \in Nodes \ {m} : asked'[n] = asked[n]
         /\ asked'[m] # <<>> /\ Last(asked'[m]) = p
         /\ Asked(m)' = Asked(m) \cup {p}
         /\ FirstAsked(m)' = IF asked[m] = <<>> THEN p ELSE FirstAsked(m)
<1>1. asked[m] \in Seq(Nat \ {0}) /\ asked'[m] = Append(asked[m], p)
      /\ \A n \in Nodes \ {m} : asked'[n] = asked[n]
  BY DEF TypeOK
<1>2. ToSet(asked'[m]) = ToSet(asked[m]) \cup {p}
  <2>1. /\ Len(asked'[m]) = Len(asked[m]) + 1 /\ Len(asked[m]) \in Nat
        /\ \A k \in 1..Len(asked[m]) : asked'[m][k] = asked[m][k]
        /\ asked'[m][Len(asked[m]) + 1] = p
        /\ DOMAIN asked[m] = 1..Len(asked[m])
        /\ DOMAIN asked'[m] = 1..(Len(asked[m]) + 1)
    BY <1>1
  <2>2. \A k \in 1..(Len(asked[m]) + 1) : k = Len(asked[m]) + 1 \/ k \in 1..Len(asked[m])
    BY <2>1
  <2>3. ToSet(asked'[m]) \subseteq ToSet(asked[m]) \cup {p}
    BY <2>1, <2>2 DEF ToSet
  <2>4. /\ \A k \in 1..Len(asked[m]) : k \in 1..(Len(asked[m]) + 1)
        /\ Len(asked[m]) + 1 \in 1..(Len(asked[m]) + 1)
    BY <2>1
  <2>5. ToSet(asked[m]) \cup {p} \subseteq ToSet(asked'[m])
    BY <2>1, <2>4 DEF ToSet
  <2>6. QED BY <2>3, <2>5
<1>3. asked'[m] # <<>> /\ Last(asked'[m]) = p
  BY <1>1 DEF Last
<1>4. Head(asked'[m]) = IF asked[m] = <<>> THEN p ELSE Head(asked[m])
  BY <1>1
<1>5. QED BY <1>1, <1>2, <1>3, <1>4 DEF Asked, FirstAsked

\* The ports handed to a node are ports of its host that no other node was handed, and
\* the last of them is published.
LEMMA PortsKept ==
  ASSUME PrepareInv, [Next]_vars
  PROVE  AskedOfHost' /\ PortsAreOwn'
<1>1. /\ TypeOK /\ PortsCounted /\ AskedOfHost /\ PortsAreOwn
      /\ pc = "render" => binder = node
  BY DEF PrepareInv, FirstPortStays
<1>2. UNCHANGED hostOf /\ hostOf \in [Nodes -> Hosts] /\ portMap \in [Nodes -> Nat]
      /\ ports \in [Hosts -> SUBSET (Nat \ {0})]
  BY <1>1, HostsStay DEF TypeOK
<1>3. CASE UNCHANGED portVars
  BY <1>1, <1>2, <1>3 DEF portVars, AskedOfHost, PortsAreOwn, Asked
<1>4. CASE SetURL /\ ~UNCHANGED portVars
  <2>1. PICK m \in Nodes : m = node /\ hostOf[m] \in Hosts /\ binder = m
    BY <1>1, <1>4, PortGiven DEF SetURL, Calling
  <2>2. PICK p \in Nat \ {0} :
           /\ p \notin ports[hostOf[m]]
           /\ ports' = [ports EXCEPT ![hostOf[m]] = @ \cup {p}]
           /\ asked' = [asked EXCEPT ![m] = Append(@, p)]
           /\ portMap' = [portMap EXCEPT ![m] = p]
    BY <1>1, <1>4, <2>1, PortGiven
  <2>3. /\ \A n \in Nodes \ {m} : asked'[n] = asked[n]
        /\ asked'[m] # <<>> /\ Last(asked'[m]) = p
        /\ Asked(m)' = Asked(m) \cup {p}
    BY <1>1, <2>1, <2>2, AskedAppend
  <2>4. /\ \A n \in Nodes \ {m} : Asked(n)' = Asked(n) /\ portMap'[n] = portMap[n]
        /\ portMap'[m] = p
    BY <1>2, <2>1, <2>2, <2>3 DEF Asked
  <2>5. \A h \in Hosts : ports'[h] = IF h = hostOf[m] THEN ports[h] \cup {p} ELSE ports[h]
    BY <1>2, <2>1, <2>2
  <2>6. AskedOfHost'
    <3>1. \A n \in Nodes : hostOf[n] \in Hosts /\ Asked(n) \subseteq ports[hostOf[n]]
      BY <1>1, <1>2 DEF AskedOfHost
    <3>2. \A n \in Nodes : Asked(n)' \subseteq ports'[hostOf[n]]
      BY <2>3, <2>4, <2>5, <3>1
    <3>3. QED BY <1>2, <3>2 DEF AskedOfHost
  <2>7. ASSUME NEW n \in Nodes, NEW k \in Nodes, n # k, hostOf[n] = hostOf[k]
        PROVE  Asked(n)' \cap Asked(k)' = {}
    <3>1. Asked(n) \cap Asked(k) = {}
      BY <1>1, <2>7 DEF PortsAreOwn
    <3>2. \A i \in Nodes : hostOf[i] = hostOf[m] => p \notin Asked(i)
      BY <1>1, <2>2 DEF AskedOfHost
    <3>3. CASE n = m \/ k = m
      BY <2>3, <2>4, <2>7, <3>1, <3>2, <3>3
    <3>4. CASE n # m /\ k # m
      BY <2>4, <3>1, <3>4
    <3>5. QED BY <3>3, <3>4
  <2>8. ASSUME NEW n \in Nodes
        PROVE  portMap'[n] = IF asked'[n] = <<>> THEN Unset ELSE Last(asked'[n])
    BY <1>1, <2>3, <2>4 DEF PortsAreOwn
  <2>9. QED BY <1>2, <2>6, <2>7, <2>8 DEF PortsAreOwn
<1>5. QED BY <1>3, <1>4, OnlyBy

\* Nothing happens before the first host is prepared, and no second one is.
LEMMA UntouchedKept ==
  ASSUME PrepareInv, [Next]_vars
  PROVE  Untouched'
<1>1. TypeOK /\ PortsCounted /\ Untouched /\ (pc = "render" => binder = node)
  BY DEF PrepareInv, FirstPortStays
<1>2. ASSUME ~mongodb'
      PROVE  /\ pc' \in {"hosts", "failed"} /\ ~mongodb /\ pc \in {"hosts", "failed"}
             /\ UNCHANGED <<allShared, asked, config, todo>>
  <2>1. ~mongodb
    BY <1>2 DEF Next, vars, hostVars, tmplVars, portVars, outVars, PrepareHost, PrepareNode,
                Save, SetURL, SetX, OverrideX, PrintX, PrintNull, ShareURL, PrintKey,
                Calling, EndTemplate, EndHost, GiveNodesConfig, Terminating
  <2>2. pc \in {"hosts", "failed"}
    BY <1>1, <2>1 DEF Untouched
  <2>3. QED
    BY <1>2, <2>1, <2>2
       DEF Next, vars, hostVars, tmplVars, portVars, outVars, PrepareHost, PrepareNode, Save,
           SetURL, SetX, OverrideX, PrintX, PrintNull, ShareURL, PrintKey, Calling,
           EndTemplate, EndHost, GiveNodesConfig, Terminating
<1>3. ASSUME NEW n \in todo' PROVE asked'[n] = <<>>
  <2>1. CASE SetURL
    <3>1. node \in Nodes \ todo /\ n \in todo /\ n \in Nodes
      BY <1>1, <1>3, <2>1 DEF SetURL, Calling, hostVars, TypeOK
    <3>2. asked'[n] = asked[n]
      BY <1>1, <2>1, <3>1 DEF SetURL, portVars, TypeOK
    <3>3. QED BY <1>1, <3>1, <3>2 DEF Untouched
  <2>2. CASE \E h \in Hosts : PrepareHost(h)
    <3>1. UNCHANGED asked /\ (UNCHANGED todo \/ (~mongodb /\ todo' \subseteq Nodes))
      BY <2>2 DEF PrepareHost, portVars
    <3>2. QED BY <1>1, <1>3, <3>1 DEF Untouched
  <2>3. CASE ~SetURL /\ ~\E h \in Hosts : PrepareHost(h)
    <3>1. UNCHANGED asked
      BY <2>3, OnlyBy DEF portVars
    <3>2. todo' \subseteq todo
      BY <2>3 DEF Next, vars, hostVars, PrepareNode, Save, SetX, OverrideX, PrintX,
                  PrintNull, ShareURL, PrintKey, Calling, EndTemplate, EndHost,
                  GiveNodesConfig, Terminating
    <3>3. QED BY <1>1, <1>3, <3>1, <3>2 DEF Untouched
  <2>4. QED BY <2>1, <2>2, <2>3
<1>4. QED BY <1>1, <1>2, <1>3 DEF Untouched, NoUrls

\* The URL of a node, what it has printed of it and what it shares have the first port.
LEMMA FirstPortKept ==
  ASSUME PrepareInv, [Next]_vars
  PROVE  FirstPortStays'
<1>1. /\ TypeOK /\ PortsCounted /\ Untouched /\ FirstPortStays
      /\ asked \in [Nodes -> Seq(Nat \ {0})] /\ shared \in [Nodes -> Nat]
  BY DEF PrepareInv, TypeOK
<1>2. \A n \in Nodes : FirstAsked(n) \in Nat /\ (FirstAsked(n) = Unset <=> asked[n] = <<>>)
  <2> SUFFICES ASSUME NEW n \in Nodes, asked[n] # <<>>
               PROVE  FirstAsked(n) \in Nat \ {0}
    BY DEF FirstAsked, Unset
  <2>1. asked[n] \in Seq(Nat \ {0})
    BY <1>1
  <2>2. QED BY <2>1 DEF FirstAsked
<1>3. \A n \in Nodes : UNCHANGED asked => FirstAsked(n)' = FirstAsked(n)
  BY DEF FirstAsked
<1>4. CASE SetURL /\ ~UNCHANGED <<portVars, url>>
  <2>1. PICK m \in Nodes : m = node /\ binder = m
    BY <1>1, <1>4 DEF SetURL, Calling, TypeOK, FirstPortStays
  <2>2. PICK p \in Nat \ {0} :
           /\ asked' = [asked EXCEPT ![m] = Append(@, p)]
           /\ url' = IF url = Unset THEN p ELSE url
    BY <1>1, <1>4, <2>1, PortGiven
  <2>3. /\ \A n \in Nodes \ {m} : asked'[n] = asked[n]
        /\ FirstAsked(m)' = IF asked[m] = <<>> THEN p ELSE FirstAsked(m)
    BY <1>1, <2>1, <2>2, AskedAppend
  <2>4. \A n \in Nodes \ {m} : FirstAsked(n)' = FirstAsked(n)
    BY <2>3 DEF FirstAsked
  <2>5. /\ pc = "render" /\ UNCHANGED <<node, binder, rendered, shared>>
        /\ url = FirstAsked(m)
        /\ \A k \in {"design", "common"} : rendered[k].url \in {Unset, url}
    BY <1>1, <1>4, <2>1 DEF SetURL, Calling, hostVars, outVars, FirstPortStays
  <2>6. url' = FirstAsked(m)' /\ (url # Unset => url' = url)
    BY <1>2, <2>1, <2>2, <2>3, <2>5
  <2>7. url' = FirstAsked(node)'
    BY <2>1, <2>5, <2>6
  <2>8. \A n \in Nodes : shared'[n] \in {Unset, FirstAsked(n)'}
    <3>1. \A n \in Nodes : shared[n] \in {Unset, FirstAsked(n)}
      BY <1>1 DEF FirstPortStays
    <3>2. shared[m] \in {Unset, FirstAsked(m)'}
      BY <1>2, <2>3, <3>1
    <3>3. QED BY <2>1, <2>4, <2>5, <3>1, <3>2
  <2>9. QED BY <2>1, <2>5, <2>6, <2>7, <2>8 DEF FirstPortStays
<1>5. CASE SetURL /\ UNCHANGED <<portVars, url>>
  <2>1. UNCHANGED <<asked, url, node, binder, rendered, shared>> /\ pc = "render"
    BY <1>5 DEF SetURL, Calling, portVars, hostVars, outVars
  <2>2. QED BY <1>1, <2>1 DEF FirstPortStays, FirstAsked
<1>6. CASE \E n \in Nodes : PrepareNode(n)
  <2>1. PICK n \in Nodes : PrepareNode(n)
    BY <1>6
  <2>2. /\ UNCHANGED <<asked, shared>> /\ n \in todo /\ node' = n /\ binder' = n
        /\ url' = Unset /\ rendered' = Blank
    BY <2>1 DEF PrepareNode, portVars, outVars
  <2>3. FirstAsked(node)' = Unset
    BY <1>1, <2>2 DEF Untouched, FirstAsked
  <2>4. QED BY <1>1, <1>3, <2>2, <2>3 DEF FirstPortStays, Blank
<1>7. CASE PrintX \/ PrintNull \/ ShareURL
  <2>1. UNCHANGED <<asked, url, node, binder, shared>> /\ pc = "render"
    BY <1>7 DEF PrintX, PrintNull, ShareURL, PrintKey, Calling, hostVars, portVars, outVars
  <2>2. \A k \in {"design", "common"} :
           rendered'[k].url = rendered[k].url \/ rendered'[k].url = url
    <3>1. rendered \in [{"design", "common"} -> [url : Nat, x : Values]]
          /\ phase \in {"design", "common"}
      BY <1>1 DEF TypeOK
    <3>2. QED BY <1>1, <1>7, <3>1, Printed
  <2>3. QED BY <1>1, <1>3, <2>1, <2>2 DEF FirstPortStays, FirstAsked
<1>8. CASE EndTemplate
  <2>1. /\ UNCHANGED <<asked, url, node, binder, rendered>> /\ pc = "render"
        /\ UNCHANGED shared \/ shared' = [shared EXCEPT ![node] = MergedURL]
    BY <1>8 DEF EndTemplate, hostVars, portVars
  <2>2. MergedURL \in {Unset, FirstAsked(node)} /\ node \in Nodes
    BY <1>1, <2>1 DEF MergedURL, Design, Common, FirstPortStays, TypeOK
  <2>3. \A n \in Nodes : shared'[n] \in {Unset, FirstAsked(n)}
    BY <1>1, <2>1, <2>2 DEF FirstPortStays
  <2>4. FirstAsked(node)' = FirstAsked(node)
    BY <2>1 DEF FirstAsked
  <2>5. QED BY <1>1, <1>3, <2>1, <2>3, <2>4 DEF FirstPortStays
<1>9. CASE \E h \in Hosts : PrepareHost(h)
  <2>1. UNCHANGED asked /\ shared' \in {shared, NoUrls} /\ pc' # "render"
    BY <1>9 DEF PrepareHost, portVars
  <2>2. QED BY <1>1, <1>3, <2>1 DEF FirstPortStays, NoUrls
<1>10. CASE /\ UNCHANGED <<asked, shared>>
            /\ pc' = "render" => /\ pc = "render"
                                 /\ UNCHANGED <<binder, node, url, rendered>>
  BY <1>1, <1>10 DEF FirstPortStays, FirstAsked
<1>11. QED
  <2>1. CASE SetX \/ OverrideX
    BY <1>10, <2>1 DEF SetX, OverrideX, Calling, hostVars, portVars, outVars
  <2>2. CASE EndHost \/ GiveNodesConfig \/ (\E n \in Nodes : Save(n))
    BY <1>10, <2>2 DEF EndHost, GiveNodesConfig, Save, hostVars, portVars
  <2>3. CASE UNCHANGED vars
    BY <1>10, <2>3 DEF vars, hostVars, portVars, tmplVars, outVars
  <2>4. QED
    BY <1>4, <1>5, <1>6, <1>7, <1>8, <1>9, <2>1, <2>2, <2>3 DEF Next, Terminating

\* What is shared is what the one host shares.
LEMMA SharedKept ==
  ASSUME PrepareInv, [Next]_vars
  PROVE  SharedByOne'
<1>1. TypeOK /\ Untouched /\ SharedByOne
  BY DEF PrepareInv
<1>2. CASE \E h \in Hosts : PrepareHost(h)
  <2>1. UNCHANGED allShared /\ (pc' = "nodes" => ~mongodb) /\ pc' \in {"nodes", "failed"}
    BY <1>2 DEF PrepareHost
  <2>2. QED BY <1>1, <2>1 DEF SharedByOne, Untouched
<1>3. CASE EndHost
  <2>1. /\ UNCHANGED shared /\ pc' \in {"peers", "hosts"} /\ allShared = NoUrls
        /\ allShared' = IF Shares(shared) = {} THEN allShared ELSE shared
    BY <1>1, <1>3 DEF EndHost, SharedByOne
  <2>2. Shares(shared) = {} => shared = NoUrls
    BY <1>1 DEF Shares, NoUrls, TypeOK
  <2>3. QED BY <2>1, <2>2 DEF SharedByOne
<1>4. CASE GiveNodesConfig
  BY <1>1, <1>4 DEF GiveNodesConfig, SharedByOne
<1>5. CASE \E n \in Nodes : Save(n)
  <2>1. UNCHANGED <<shared, allShared, peers>> /\ pc = "save"
        /\ pc' \in {"save", "done", "failed"}
    BY <1>5 DEF Save
  <2>2. QED BY <1>1, <2>1 DEF SharedByOne
<1>6. CASE EndTemplate \/ (\E n \in Nodes : PrepareNode(n))
  <2>1. UNCHANGED allShared /\ pc \in {"nodes", "render"}
        /\ pc' \in {"nodes", "render", "panic"}
    BY <1>6 DEF EndTemplate, PrepareNode, outVars
  <2>2. QED BY <1>1, <2>1 DEF SharedByOne
<1>7. CASE SetURL \/ SetX \/ OverrideX \/ PrintX \/ PrintNull \/ ShareURL
  <2>1. UNCHANGED allShared /\ pc = "render" /\ pc' \in {"render", "failed", "panic"}
    BY <1>7 DEF SetURL, SetX, OverrideX, PrintX, PrintNull, ShareURL, PrintKey, Calling,
                Called, outVars
  <2>2. QED BY <1>1, <2>1 DEF SharedByOne
<1>8. CASE UNCHANGED vars
  BY <1>1, <1>8 DEF SharedByOne, vars, outVars
<1>9. QED
  BY <1>2, <1>3, <1>4, <1>5, <1>6, <1>7, <1>8 DEF Next, Terminating

\* X keeps its first value.
LEMMA FirstXKept ==
  ASSUME PrepareInv, [Next]_vars
  PROVE  FirstXStays'
<1>1. TypeOK /\ Untouched /\ FirstXStays
  BY DEF PrepareInv
<1> SUFFICES ASSUME ~overridden'
             PROVE  /\ \A n \in Nodes : config'[n] \in {"unset", x'}
                    /\ pc' = "render" => \A p \in {"design", "common"} :
                                            rendered'[p].x \in {"unset", "null", x'}
                    /\ pc' \in {"peers", "save", "done"} => common' = x'
  BY DEF FirstXStays
<1>2. ~overridden
  BY DEF Next, vars, hostVars, tmplVars, portVars, outVars, PrepareHost, PrepareNode, Save,
         SetURL, SetX, OverrideX, PrintX, PrintNull, ShareURL, PrintKey, Calling,
         EndTemplate, EndHost, GiveNodesConfig, Terminating
<1>3. /\ \A n \in Nodes : config[n] \in {"unset", x}
      /\ pc = "render" => \A p \in {"design", "common"} :
                             rendered[p].x \in {"unset", "null", x}
      /\ pc \in {"peers", "save", "done"} => common = x
  BY <1>1, <1>2 DEF FirstXStays
<1>4. CASE SetX
  <2>1. /\ pc = "render" /\ pc' = "render" /\ UNCHANGED <<config, rendered>>
        /\ x = "unset" \/ x' = x
    BY <1>4 DEF SetX, Calling, Called, outVars
  <2>2. QED BY <1>3, <2>1
<1>5. CASE PrintX \/ PrintNull \/ ShareURL
  <2>1. UNCHANGED <<config, x>> /\ pc' \in {"render", "failed"}
    BY <1>5 DEF PrintX, PrintNull, ShareURL, PrintKey, Calling, Called, outVars
  <2>2. \A k \in {"design", "common"} : rendered'[k].x \in {rendered[k].x, "null", x}
    <3>1. rendered \in [{"design", "common"} -> [url : Nat, x : Values]]
          /\ phase \in {"design", "common"}
      BY <1>1 DEF TypeOK
    <3>2. QED BY <1>1, <1>5, <3>1, Printed
  <2>3. pc = "render"
    BY <1>1, <1>5, Printed
  <2>4. QED BY <1>3, <2>1, <2>2, <2>3
<1>6. CASE EndTemplate
  <2>1. /\ UNCHANGED <<x, rendered>> /\ pc = "render" /\ pc' \in {"render", "nodes", "panic"}
        /\ UNCHANGED config \/ config' = [config EXCEPT ![node] = MergedX]
    BY <1>6 DEF EndTemplate, hostVars
  <2>2. MergedX \in {"unset", x}
    BY <1>3, <2>1 DEF MergedX, Design, Common
  <2>3. config \in [Nodes -> Values]
    BY <1>1 DEF TypeOK
  <2>4. QED BY <1>3, <2>1, <2>2, <2>3
<1>7. CASE \E h \in Hosts : PrepareHost(h)
  <2>1. UNCHANGED config /\ pc' \in {"nodes", "failed"} /\ (UNCHANGED x \/ ~mongodb)
    BY <1>7 DEF PrepareHost
  <2>2. QED BY <1>1, <1>3, <2>1 DEF Untouched
<1>8. CASE \E n \in Nodes : PrepareNode(n)
  <2>1. UNCHANGED <<config, x>> /\ pc' = "render" /\ rendered' = Blank
    BY <1>8 DEF PrepareNode, outVars
  <2>2. QED BY <1>3, <2>1 DEF Blank
<1>9. CASE EndHost
  <2>1. UNCHANGED <<config, x>> /\ pc' \in {"peers", "hosts"} /\ common' = x
    BY <1>9 DEF EndHost, tmplVars
  <2>2. QED BY <1>3, <2>1
<1>10. CASE SetURL
  <2>1. UNCHANGED <<config, x, rendered>> /\ pc = "render" /\ pc' \in {"render", "panic"}
    BY <1>10 DEF SetURL, Calling, Called, outVars
  <2>2. QED BY <1>3, <2>1
<1>11. CASE GiveNodesConfig \/ (\E n \in Nodes : Save(n))
  <2>1. /\ UNCHANGED <<config, x, common>> /\ pc \in {"peers", "save"}
        /\ pc' \in {"save", "done", "failed", "panic"}
    BY <1>11 DEF GiveNodesConfig, Save, tmplVars
  <2>2. QED BY <1>3, <2>1
<1>12. CASE UNCHANGED vars
  BY <1>3, <1>12 DEF vars, tmplVars, outVars
<1>13. ~OverrideX
  BY DEF OverrideX
<1>14. QED
  BY <1>4, <1>5, <1>6, <1>7, <1>8, <1>9, <1>10, <1>11, <1>12, <1>13
     DEF Next, Terminating

\* The invariant: types, the ports each host has given out, the first port and the
\* first X that stay, and that only one host is ever prepared.
THEOREM PrepareInvariant == Spec => []PrepareInv
<1>1. Init => PrepareInv
  <2> SUFFICES ASSUME Init PROVE PrepareInv
    OBVIOUS
  <2> USE DEF Unset
  <2>1. /\ asked \in [Nodes -> Seq(Nat \ {0})] /\ \A n \in Nodes : asked[n] = <<>>
        /\ \A h \in Hosts : ports[h] = {}
    BY DEF Init
  <2>2. /\ ports \in [Hosts -> SUBSET (Nat \ {0})]
        /\ calls \in 0..MaxCalls /\ faults \in 0..MaxFaults
    BY ConstantsAssumption DEF Init
  <2>3. /\ {rootX, x, common} \subseteq Values /\ config \in [Nodes -> Values]
        /\ rendered \in [{"design", "common"} -> [url : Nat, x : Values]]
    <3>1. "unset" \in Values /\ rootX \in Values
      BY DEF Init, HookVars, Values
    <3>2. [url |-> Unset, x |-> "unset"] \in [url : Nat, x : Values]
      BY <3>1
    <3>3. rendered \in [{"design", "common"} -> [url : Nat, x : Values]]
      BY <3>2 DEF Init, Blank
    <3>4. QED BY <3>1, <3>3 DEF Init
  <2>4. /\ {portMap, shared, allShared} \subseteq [Nodes -> Nat]
        /\ peers \in [Nodes -> [Nodes -> Nat]]
    BY DEF Init, NoUrls
  <2>5. TypeOK
    <3>1. /\ hostOf \in [Nodes -> Hosts] /\ hosts \subseteq Hosts /\ mongodb \in BOOLEAN
          /\ todo = {} /\ saved = {} /\ phase = "design" /\ url = 0 /\ pc = "hosts"
          /\ overridden \in BOOLEAN
      BY DEF Init
    <3>2. QED BY <2>1, <2>2, <2>3, <2>4, <3>1 DEF TypeOK
  <2>6. PortsCounted
    <3>1. Cardinality({}) = 0 /\ {} = 1..0
      BY FS_EmptySet
    <3>2. ASSUME NEW h \in Hosts
          PROVE  Cardinality(ports[h]) \in Nat /\ ports[h] = 1..Cardinality(ports[h])
      <4>1. ports[h] = {} /\ Cardinality(ports[h]) = 0
        BY <2>1, <3>1
      <4>2. QED BY <3>1, <4>1
    <3>3. QED BY <3>2 DEF PortsCounted
  <2>7. AskedOfHost /\ PortsAreOwn
    <3>1. \A n \in Nodes : Asked(n) = {} /\ portMap[n] = Unset
      BY <2>1 DEF Asked, ToSet, Init, NoUrls
    <3>2. QED BY <2>1, <3>1 DEF AskedOfHost, PortsAreOwn
  <2>8. Untouched /\ FirstPortStays /\ SharedByOne /\ FirstXStays
    BY <2>1 DEF Init, Untouched, FirstPortStays, SharedByOne, FirstXStays, NoUrls
  <2>9. QED BY <2>5, <2>6, <2>7, <2>8 DEF PrepareInv
<1>2. PrepareInv /\ [Next]_vars => PrepareInv'
  <2> SUFFICES ASSUME PrepareInv, [Next]_vars PROVE PrepareInv'
    OBVIOUS
  <2>1. TypeOK' /\ PortsCounted'
    BY TypesKept
  <2>2. AskedOfHost' /\ PortsAreOwn'
    BY PortsKept
  <2>3. Untouched' /\ FirstPortStays' /\ SharedByOne' /\ FirstXStays'
    BY UntouchedKept, FirstPortKept, SharedKept, FirstXKept
  <2>4. QED BY <2>1, <2>2, <2>3 DEF PrepareInv
<1>3. QED BY <1>1, <1>2, PTL DEF Spec

\* ContainerBindPort hands no port of a host to the templates of two nodes, and what
\* is published for a node is the port its own templates were handed last.
THEOREM NodesOwnTheirPorts == Spec => []PortsAreOwn
<1>1. PrepareInv => PortsAreOwn
  BY DEF PrepareInv
<1>2. QED BY <1>1, PrepareInvariant, PTL

\* Each node is told of all others that share their URL, with the port that is
\* published unless the templates of that node have asked for one again.
THEOREM NodesReachTheirPeers == Spec => []PeersAreReachable
<1>1. PrepareInv => PeersAreReachable
  <2> SUFFICES ASSUME PrepareInv, pc = "done", NEW m \in Nodes, NEW n \in Nodes
               PROVE  IF m = n \/ shared[m] = Unset
                      THEN peers[n][m] = Unset
                      ELSE /\ asked[m] # <<>> /\ peers[n][m] = Head(asked[m])
                           /\ Len(asked[m]) = 1 => peers[n][m] = portMap[m]
    BY DEF PeersAreReachable
  <2>1. /\ shared \in [Nodes -> Nat] /\ asked[m] \in Seq(Nat \ {0})
        /\ allShared = shared
        /\ peers = [k \in Nodes |-> [allShared EXCEPT ![k] = Unset]]
        /\ shared[m] \in {Unset, FirstAsked(m)}
        /\ portMap[m] = IF asked[m] = <<>> THEN Unset ELSE Last(asked[m])
    BY DEF PrepareInv, TypeOK, SharedByOne, FirstPortStays, PortsAreOwn
  <2>2. peers[n][m] = IF m = n THEN Unset ELSE shared[m]
    BY <2>1
  <2>3. shared[m] # Unset => asked[m] # <<>> /\ shared[m] = Head(asked[m])
    BY <2>1 DEF FirstAsked
  <2>4. Len(asked[m]) = 1 => Head(asked[m]) = Last(asked[m])
    BY <2>1 DEF Last
  <2>5. QED BY <2>1, <2>2, <2>3, <2>4
<1>2. QED BY <1>1, PrepareInvariant, PTL

\* Unless a template overrides it, the nodes that print X print the same, which is
\* what the conditions find as Design.Common.X.
THEOREM NodesPrintCommonX == Spec => []CommonIsCommon
<1>1. PrepareInv => CommonIsCommon
  BY DEF PrepareInv, FirstXStays, CommonIsCommon
<1>2. QED BY <1>1, PrepareInvariant, PTL
=============================================================================
