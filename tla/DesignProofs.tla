---------------------------- MODULE DesignProofs ----------------------------
(* Theorems about Design, for every set of files, and about the spreading of *)
(* its nodes over its hosts (SpreadNodes), for every number of nodes and all *)
(* weights.                                                                  *)
EXTENDS Design, SpreadNodes, FiniteSetTheorems, TLAPS
-----------------------------------------------------------------------------
(* Design                                                                    *)

\* As long as the file is the same, so is what can be merged of it.
LEMMA FileStays ==
  ASSUME file' = file
  PROVE  /\ Merged' = Merged
         /\ MergedInFull' <=> MergedInFull
BY DEF Merged, MergedInFull, MergesHosts, SequencesMerge, Map, MergesSequence, MergedHost,
     MergedSequence

\* The fields of what has been merged.
LEMMA MergedFields ==
  /\ Merged.hosts = [k \in DOMAIN file.hosts |-> MergedHost(file.hosts[k])]
  /\ Merged.nodes = [a \in DOMAIN file.nodes |-> Text(file.nodes[a])]
  /\ Merged.sequences = [k \in DOMAIN file.sequences |-> MergedSequence(file.sequences[k])]
BY DEF Merged, Map

\* What a sequence is made of, once it is looked through.
LEMMA KeptSequence ==
  ASSUME NEW s, MergesSequence(s) = "ok", ValidSequence(MergedSequence(s))
  PROVE  LET d == RegisterKept(MergedSequence(s))
             whole == s.register.type # Nil /\ s.register.to # Nil
         IN  /\ s # Null
             /\ d.query = s.query /\ s.query \in Parses
             /\ d.storage = Trim(s.storage)
             /\ d.action = MergedAction(s.action)
             /\ d.register = IF whole THEN [type |-> "last_match", to |-> s.register.to]
                                      ELSE [type |-> "", to |-> ""]
<1> DEFINE m == MergedSequence(s)
<1>1. /\ m.query = Trim(Text(s.query)) /\ m.storage = Trim(s.storage)
      /\ m.action = MergedAction(s.action)
      /\ m.register = [type |-> Text(s.register.type), to |-> Text(s.register.to)]
      /\ RegisterKept(m).query = m.query /\ RegisterKept(m).storage = m.storage
      /\ RegisterKept(m).action = m.action
      /\ RegisterKept(m).register = IF IsEmptyRegister(m.register) THEN [type |-> "", to |-> ""]
                                                                  ELSE m.register
  BY DEF MergedSequence, RegisterKept
<1>2. /\ s # Null /\ Trim(s.register.type) # "" /\ Trim(s.register.to) # ""
  BY DEF MergesSequence
<1>3. m.query \in Parses /\ ValidRegister(m.register)
  BY DEF ValidSequence
<1>5. m.register.type = Text(s.register.type) /\ m.register.to = Text(s.register.to)
  BY DEF MergedSequence
<1> HIDE DEF m
<1>4. m.query = s.query
  BY <1>1, <1>3, TokensAssumption DEF Trim, Text
<1>6. CASE s.register.type # Nil /\ s.register.to # Nil
  <2>1. m.register.type = s.register.type /\ m.register.to = s.register.to
    BY <1>5, <1>6 DEF Text
  <2>2. ~IsEmptyRegister(m.register)
    BY <1>2, <2>1 DEF Trim, IsEmptyRegister
  <2>3. m.register.type = "last_match"
    BY <1>3, <2>2 DEF ValidRegister
  <2>4. m.register = [type |-> "last_match", to |-> s.register.to]
    BY <1>1, <1>5, <2>1, <2>3
  <2>5. QED BY <1>1, <1>2, <1>3, <1>4, <1>6, <2>2, <2>4 DEF m
<1>7. CASE ~(s.register.type # Nil /\ s.register.to # Nil)
  <2>1. IsEmptyRegister(m.register)
    BY <1>5, <1>7 DEF IsEmptyRegister, Text
  <2>2. QED BY <1>1, <1>2, <1>3, <1>4, <1>7, <2>1 DEF m
<1>8. QED BY <1>6, <1>7

\* What the invariant says of a design and of what is loaded stays as long as these do.
LEMMA DesignStays ==
  ASSUME UNCHANGED <<file, design>>
  PROVE  /\ Validated' <=> Validated
         /\ Nodes' = Nodes
         /\ \A s : NewCondition(s)' = NewCondition(s)
         /\ \A a : LoadAction(a)' = LoadAction(a)
<1>1. Merged' = Merged /\ (MergedInFull' <=> MergedInFull)
  BY FileStays
<1>2. Nodes' = Nodes
  BY DEF Nodes
<1>3. \A s : NewCondition(s)' = NewCondition(s)
  BY DEF NewCondition
<1>4. \A a : LoadAction(a)' = LoadAction(a)
  BY <1>2 DEF LoadAction, Filters
<1>5. Validated' <=> Validated
  BY <1>1 DEF Validated, Map
<1>6. QED BY <1>2, <1>3, <1>4, <1>5

\* The sequences loaded are judged by the file and the design alone.
LEMMA LoadedStays ==
  ASSUME UNCHANGED <<file, design, hosts, sqs>>
  PROVE  LoadedInTurn' <=> LoadedInTurn
BY DesignStays DEF LoadedInTurn

\* Nor do the hosts given depend on anything but themselves and the design.
LEMMA HostsStay ==
  ASSUME UNCHANGED <<design, hosts>>
  PROVE  HostsGiven' <=> HostsGiven
BY DEF HostsGiven, Nodes

\* A file that is refused, or skipped, goes no further.
LEMMA RefusalKeeps ==
  ASSUME DesignInv, NEW r, r # "watching", End(r)
  PROVE  DesignInv'
BY DEF DesignInv, End

\* Where there are nodes, a host is given some; more than one only where more than one has
\* a weight.
LEMMA HostsChosen ==
  ASSUME file \in Files, Validated, NEW c \in Chosen
  PROVE  /\ Nodes # {} => c # {}
         /\ IsFiniteSet(c) /\ c \subseteq DOMAIN design.hosts
         /\ Cardinality(c) > 1 => c \subseteq Hosted
<1> DEFINE nodes == Cardinality(Nodes)
           weighty == Cardinality(Hosted)
<1>1. Nodes = DOMAIN file.nodes /\ IsFiniteSet(Nodes)
  BY FilesAssumption, MergedFields DEF Validated, Nodes
<1>2. nodes \in Nat /\ (Nodes # {} => nodes # 0)
  BY <1>1, FS_CardinalityType, FS_EmptySet
<1>3. \E m \in Nat : DOMAIN design.hosts = 1..m
  <2>1. CASE file.hosts = <<>>
    <3>1. DOMAIN design.hosts = 1..1
      BY <2>1 DEF Validated
    <3>2. QED BY <3>1
  <2>2. CASE file.hosts # <<>>
    <3>1. DOMAIN design.hosts = DOMAIN file.hosts
      BY <2>2, MergedFields DEF Validated, Map
    <3>2. QED BY <3>1, FilesAssumption
  <2>3. QED BY <2>1, <2>2
<1>4. IsFiniteSet(DOMAIN design.hosts)
  BY <1>3, FS_Interval
<1>5. IsFiniteSet(Hosted)
  <2>1. Hosted \subseteq DOMAIN design.hosts
    BY DEF Hosted
  <2>2. QED BY <1>4, <2>1, FS_Subset
<1>6. weighty \in Nat /\ (Hosted # {} => weighty # 0)
  BY <1>5, FS_CardinalityType, FS_EmptySet
<1>7. c \subseteq DOMAIN design.hosts /\ IsFiniteSet(c)
  <2>1. c \subseteq DOMAIN design.hosts
    BY DEF Chosen
  <2>2. QED BY <1>4, <2>1, FS_Subset
<1>8. \/ Nodes = {} /\ c = {}
      \/ Nodes # {} /\ Cardinality(c) = 1
      \/ Nodes # {} /\ Hosted # {} /\ c \subseteq Hosted /\ Cardinality(c) = Least(nodes, weighty)
  BY DEF Chosen
<1>9. Nodes # {} => Cardinality(c) # 0
  BY <1>2, <1>6, <1>8 DEF Least
<1>10. Cardinality({}) = 0
  BY FS_EmptySet
<1>11. QED BY <1>7, <1>8, <1>9, <1>10

\* Where no two members differ there is at most one.
LEMMA OneAtMost ==
  ASSUME NEW S, IsFiniteSet(S), \A x, y \in S : x = y
  PROVE  ~(Cardinality(S) > 1)
<1>1. CASE S = {}
  BY <1>1, FS_EmptySet
<1>2. CASE S # {}
  <2>1. PICK x \in S : TRUE
    BY <1>2
  <2>2. S = {x}
    BY <2>1
  <2>3. QED BY <2>2, FS_Singleton
<1>3. QED BY <1>1, <1>2

\* Where two members differ there is more than one.
LEMMA SeveralOfThem ==
  ASSUME NEW S, IsFiniteSet(S), NEW x \in S, NEW y \in S, x # y
  PROVE  Cardinality(S) > 1
<1>1. Cardinality({x, y}) = 2 /\ {x, y} \subseteq S
  <2>1. IsFiniteSet({x}) /\ Cardinality({x}) = 1
    BY FS_Singleton
  <2>2. Cardinality({x} \cup {y}) = Cardinality({x}) + 1
    BY <2>1, FS_AddElement
  <2>3. {x} \cup {y} = {x, y}
    OBVIOUS
  <2>4. QED BY <2>1, <2>2, <2>3
<1>2. Cardinality(S) \in Nat /\ 2 <= Cardinality(S)
  BY <1>1, FS_Subset, FS_CardinalityType
<1>3. QED BY <1>2

\* The inductive invariant is kept by every step.
LEMMA InvKept ==
  ASSUME DesignInv, [Next]_vars
  PROVE  DesignInv'
<1> USE DEF DesignInv
<1>1. CASE Merge
  <2>1. CASE ~MergesHosts \/ ~MergesCommon
    BY <1>1, <2>1, RefusalKeeps DEF Merge
  <2>2. CASE MergesHosts /\ MergesCommon /\ ~MergesNodes
    BY <1>1, <2>2, RefusalKeeps DEF Merge
  <2>3. CASE MergesHosts /\ MergesCommon /\ MergesNodes /\ ~SequencesMerge
    <3>1. PICK k \in DOMAIN file.sequences : End(MergesSequence(file.sequences[k]))
      BY <1>1, <2>3 DEF Merge
    <3>2. MergesSequence(file.sequences[k]) # "watching"
      BY DEF MergesSequence
    <3>3. QED BY <3>1, <3>2, RefusalKeeps
  <2>4. CASE MergesHosts /\ MergesCommon /\ MergesNodes /\ SequencesMerge
    <3>1. MergedInFull /\ file' = file /\ design' = Merged /\ pc' = "valid"
          /\ UNCHANGED <<hosts, sqs, result>>
      BY <1>1, <2>4 DEF Merge, MergedInFull
    <3>2. MergedInFull' /\ design' = Merged'
      BY <3>1, FileStays
    <3>3. QED BY <1>1, <3>1, <3>2 DEF Merge
  <2>5. QED BY <2>1, <2>2, <2>3, <2>4
<1>2. CASE IsValid
  <2>1. CASE End("error") \/ End("skipped")
    BY <2>1, RefusalKeeps
  <2>2. CASE /\ \A k \in DOMAIN design.hosts : ValidHost(design.hosts[k])
             /\ \A k \in DOMAIN design.sequences : ValidSequence(design.sequences[k])
             /\ design' = [design EXCEPT
                  !.storage = IF @ = "" THEN "default" ELSE @,
                  !.hosts = IF @ = <<>> THEN <<DefaultHost>> ELSE Map(HostNamed, @),
                  !.sequences = Map(RegisterKept, @)]
             /\ pc' = "storage"
             /\ UNCHANGED <<file, hosts, sqs, result>>
    <3>1. design = Merged /\ MergedInFull /\ pc = "valid"
      BY <1>2 DEF IsValid
    <3>2. MergedInFull' /\ Merged' = Merged
      BY <2>2, <3>1, FileStays
    <3>3. Merged.hosts = <<>> <=> file.hosts = <<>>
      BY MergedFields, FilesAssumption
    <3>4. /\ design'.hosts = IF Merged.hosts = <<>> THEN <<DefaultHost>> ELSE Map(HostNamed,
               Merged.hosts)
          /\ design'.nodes = Merged.nodes
          /\ design'.sequences = Map(RegisterKept, Merged.sequences)
      BY <2>2, <3>1 DEF Merged
    <3>5. Validated'
      BY <2>2, <3>1, <3>2, <3>3, <3>4 DEF Validated
    <3>6. QED BY <2>2, <3>1, <3>5
  <2>3. QED BY <1>2, <2>1, <2>2 DEF IsValid
<1>3. CASE SetDatabase
  <2>1. /\ Validated /\ pc = "storage" /\ pc' = "hosts" /\ UNCHANGED <<file, hosts, sqs,
             result>>
        /\ design' = [design EXCEPT !.storage = "own"]
    BY <1>3 DEF SetDatabase
  <2>2. MergedInFull' /\ Merged' = Merged
    BY <2>1, FileStays DEF Validated
  <2>3. /\ design'.hosts = design.hosts /\ design'.nodes = design.nodes
        /\ design'.sequences = design.sequences
    BY <2>1
  <2>4. Validated'
    BY <2>1, <2>2, <2>3 DEF Validated
  <2>5. QED BY <2>1, <2>4
<1>4. CASE PrepareHosts
  <2>1. CASE End("panic") \/ End("error")
    BY <2>1, RefusalKeeps
  <2>2. CASE \E c \in Chosen : /\ hosts' = {Written(k).host : k \in c}
                               /\ pc' = "nodes"
                               /\ UNCHANGED <<file, design, sqs, result>>
    <3>1. PICK c \in Chosen : /\ hosts' = {Written(k).host : k \in c}
                              /\ pc' = "nodes"
                              /\ UNCHANGED <<file, design, sqs, result>>
      BY <2>2
    <3>2. pc = "hosts" /\ Validated /\ sqs = <<>> /\ design.storage = "own" /\ result = "none"
      BY <1>4 DEF PrepareHosts
    <3>3. /\ Nodes # {} => c # {}
          /\ IsFiniteSet(c) /\ c \subseteq DOMAIN design.hosts
          /\ Cardinality(c) > 1 => c \subseteq Hosted
      BY <3>2, HostsChosen
    <3>4. hosts' = {} => Nodes' = {}
      BY <3>1, <3>3, DesignStays
    <3>5. IsFiniteSet(hosts')
      <4> DEFINE f == [k \in c |-> Written(k).host]
      <4>1. f \in Surjection(c, hosts')
        BY <3>1 DEF Surjection
      <4>2. QED BY <3>3, <4>1, FS_Surjection
    <3>6. ASSUME Cardinality(hosts') > 1
          PROVE  \E j, k \in DOMAIN design.hosts :
                    j # k /\ design.hosts[j].weight > 0 /\ design.hosts[k].weight > 0
      <4>1. PICK g \in hosts', h \in hosts' : g # h
        BY <3>5, <3>6, OneAtMost
      <4>2. PICK j \in c, k \in c : g = Written(j).host /\ h = Written(k).host
        BY <3>1, <4>1
      <4>3. j # k
        BY <4>1, <4>2
      <4>4. c \subseteq Hosted
        BY <3>3, <4>3, SeveralOfThem
      <4>5. QED BY <3>3, <4>3, <4>4 DEF Hosted, Written
    <3>7. HostsGiven'
      BY <3>1, <3>4, <3>5, <3>6 DEF HostsGiven
    <3>8. QED BY <3>1, <3>2, <3>7, DesignStays
  <2>3. QED BY <1>4, <2>1, <2>2 DEF PrepareHosts
<1>9. CASE PrepareNodes
  <2>1. CASE End("panic") \/ End("error")
    BY <2>1, RefusalKeeps
  <2>2. CASE pc' = "load" /\ UNCHANGED <<file, design, hosts, sqs, result>>
    <3>1. /\ pc = "nodes" /\ Validated /\ HostsGiven /\ sqs = <<>>
          /\ design.storage = "own" /\ result = "none"
      BY <1>9 DEF PrepareNodes
    <3>2. Len(design.sequences) \in Nat
      BY <3>1, MergedFields, FilesAssumption DEF Validated, Map
    <3>3. LoadedInTurn'
      <4>1. sqs' = <<>> /\ DOMAIN sqs' = {} /\ Len(sqs') = 0 /\ design' = design
        BY <2>2, <3>1
      <4>2. \A S : <<>> \in Seq(S)
        OBVIOUS
      <4>3. /\ sqs' \in Seq({NewCondition(design.sequences[k]) : k \in DOMAIN design.sequences}')
            /\ Len(sqs') <= Len(design'.sequences)
        BY <3>2, <4>1, <4>2
      <4>4. QED BY <4>1, <4>3 DEF LoadedInTurn
    <3>4. QED BY <2>2, <3>1, <3>3, DesignStays, HostsStay
  <2>3. QED BY <1>9, <2>1, <2>2 DEF PrepareNodes
<1>5. CASE ParseSequence
  <2> DEFINE next == Len(sqs) + 1
             s == design.sequences[next]
             outcome == IF hosts = {} THEN "error" ELSE LoadAction(s.action)
             Loaded == {NewCondition(design.sequences[k]) : k \in DOMAIN design.sequences}
  <2>1. pc = "load" /\ Len(sqs) < Len(design.sequences) /\ LoadedInTurn /\ Validated
    BY <1>5 DEF ParseSequence
  <2>2. CASE outcome # "ok" /\ End(outcome)
    <3>1. outcome # "watching"
      BY DEF LoadAction
    <3>2. QED BY <2>2, <3>1, RefusalKeeps
  <2>3. CASE /\ outcome = "ok" /\ sqs' = Append(sqs, NewCondition(s))
             /\ UNCHANGED <<file, design, hosts, pc, result>>
    <3>8. HostsGiven'
      BY <2>1, <2>3, HostsStay
    <3>1. sqs \in Seq(Loaded) /\ Len(sqs) \in Nat /\ DOMAIN sqs = 1..Len(sqs)
      BY <2>1 DEF LoadedInTurn
    <3>2. Len(design.sequences) \in Nat /\ DOMAIN design.sequences = 1..Len(design.sequences)
      BY <2>1, MergedFields, FilesAssumption DEF Validated, Map
    <3>3. next \in DOMAIN design.sequences /\ NewCondition(s) \in Loaded
      BY <2>1, <3>1, <3>2
    <3>4. /\ sqs' \in Seq(Loaded) /\ Len(sqs') = next /\ DOMAIN sqs' = 1..next
          /\ \A k \in 1..Len(sqs) : sqs'[k] = sqs[k]
          /\ sqs'[next] = NewCondition(s)
      BY <2>3, <3>1, <3>3
    <3>5. LoadAction(s.action) = "ok"
      BY <2>3
    <3>6. LoadedInTurn'
      BY <2>1, <2>3, <3>1, <3>2, <3>4, <3>5, DesignStays DEF LoadedInTurn
    <3>7. QED BY <2>1, <2>3, <3>6, <3>8, DesignStays
  <2>4. QED BY <1>5, <2>2, <2>3 DEF ParseSequence
<1>6. CASE NewLogWatcher
  <2>1. CASE sqs = <<>>
    BY <1>6, <2>1, RefusalKeeps DEF NewLogWatcher
  <2>2. CASE sqs # <<>>
    <3>1. /\ pc = "load" /\ Len(sqs) = Len(design.sequences) /\ LoadedInTurn /\ Validated
          /\ design.storage = "own" /\ pc' = "done" /\ UNCHANGED <<file, design, hosts, sqs>>
      BY <1>6, <2>2 DEF NewLogWatcher, End
    <3>2. LoadedInTurn' /\ Validated'
      BY <3>1, DesignStays, LoadedStays
    <3>3. QED BY <2>2, <3>1, <3>2
  <2>3. QED BY <2>1, <2>2
<1>7. CASE UNCHANGED vars
  BY <1>7, DesignStays, LoadedStays, HostsStay, FileStays DEF vars
<1>8. QED BY <1>1, <1>2, <1>3, <1>4, <1>5, <1>6, <1>7, <1>9 DEF Next

\* The invariant of the loading of a design: the design is what the file says, each
\* sequence loaded is that of the design at its place.
THEOREM DesignInvariant == Spec => []DesignInv
<1>1. Init => DesignInv
  BY DEF Init, DesignInv
<1>2. DesignInv /\ [Next]_vars => DesignInv'
  BY InvKept
<1>3. QED BY <1>1, <1>2, PTL DEF Spec

\* What the nodes of a nodes' action are filtered for.
LEMMA FoundAndFiltered ==
  ASSUME NEW a, a.name \in NodesLoaders, LoadAction(a) = "ok",
           a.nodes \in Seq(STRING \cup {Other})
  PROVE  a.nodes # <<>> /\ IsInjective(a.nodes) /\ ToSet(a.nodes) \subseteq Nodes
<1>1. a.name # "" /\ FoundNodes(a) /\ Filters(a.nodes)
  BY DEF LoadAction, NodesLoaders, ActionLoaders
<1>2. Len(a.nodes) > 1 \/ IsInjective(a.nodes)
  <2>1. Len(a.nodes) \in Nat /\ DOMAIN a.nodes = 1..Len(a.nodes)
    OBVIOUS
  <2>2. ~(Len(a.nodes) > 1) => \A j, k \in DOMAIN a.nodes : j = k
    BY <2>1
  <2>3. QED BY <2>2 DEF IsInjective
<1>3. QED BY <1>1, <1>2 DEF FoundNodes, Filters

\* The watcher runs what the file says, in the database of the run or the one it names,
\* with the actions it names on nodes that are known and listed once, and with the
\* registers it gives.
THEOREM WhatIsWrittenIsLoaded == Spec => []LoadedAsWritten
<1>1. DesignInv => LoadedAsWritten
  <2> SUFFICES ASSUME DesignInv, result = "watching"
               PROVE  /\ Len(sqs) = Len(file.sequences) /\ sqs # <<>>
                      /\ \A k \in DOMAIN sqs :
                          LET s == file.sequences[k]
                              whole == s.register.type # Nil /\ s.register.to # Nil
                          IN  /\ sqs[k].query = s.query /\ s.query \in Parses
                              /\ sqs[k].storage = IF Trim(s.storage) =
                                   "" THEN "own" ELSE s.storage
                              /\ sqs[k].action.name = Text(s.action.name)
                              /\ s.action.name \in NodesLoaders =>
                                    /\ sqs[k].action.nodes = s.action.nodes
                                    /\ s.action.nodes # <<>> /\ IsInjective(s.action.nodes)
                                    /\ ToSet(s.action.nodes) \subseteq DOMAIN file.nodes
                              /\ sqs[k].register = IF whole
                                                   THEN [type |-> "last_match", to |-> s.register.to]
                                                   ELSE [type |-> "", to |-> ""]
    BY DEF LoadedAsWritten
  <2> DEFINE d == design.sequences
  <2>1. /\ file \in Files /\ Validated /\ LoadedInTurn /\ design.storage = "own"
        /\ Len(sqs) = Len(d) /\ sqs # <<>>
    BY DEF DesignInv
  <2>2. /\ file.sequences \in Seq(SequenceYAML \cup {Null})
        /\ DOMAIN file.sequences = 1..Len(file.sequences)
        /\ d = [k \in DOMAIN file.sequences |-> RegisterKept(MergedSequence(file.sequences[k]))]
    BY <2>1, FilesAssumption, MergedFields DEF Validated, Map
  <2>3. Len(d) = Len(file.sequences) /\ DOMAIN sqs = DOMAIN file.sequences
    BY <2>1, <2>2 DEF LoadedInTurn
  <2>4. Nodes = DOMAIN file.nodes
    BY <2>1, MergedFields DEF Validated, Nodes
  <2>5. ASSUME NEW k \in DOMAIN sqs
        PROVE LET s == file.sequences[k]
                  whole == s.register.type # Nil /\ s.register.to # Nil
              IN  /\ sqs[k].query = s.query /\ s.query \in Parses
                  /\ sqs[k].storage = IF Trim(s.storage) = "" THEN "own" ELSE s.storage
                  /\ sqs[k].action.name = Text(s.action.name)
                  /\ s.action.name \in NodesLoaders =>
                        /\ sqs[k].action.nodes = s.action.nodes
                        /\ s.action.nodes # <<>> /\ IsInjective(s.action.nodes)
                        /\ ToSet(s.action.nodes) \subseteq DOMAIN file.nodes
                  /\ sqs[k].register = IF whole THEN [type |-> "last_match",
                       to |-> s.register.to]
                                                ELSE [type |-> "", to |-> ""]
    <3> DEFINE s == file.sequences[k]
    <3>1. k \in DOMAIN file.sequences /\ d[k] = RegisterKept(MergedSequence(s))
      BY <2>2, <2>3
    <3>2. MergesSequence(s) = "ok" /\ ValidSequence(MergedSequence(s))
      BY <2>1, <3>1, MergedFields DEF Validated, MergedInFull, SequencesMerge
    <3>3. sqs[k] = NewCondition(d[k]) /\ LoadAction(d[k].action) = "ok"
      BY <2>1 DEF LoadedInTurn
    <3>4. s # Null /\ s \in SequenceYAML
      <4>1. s # Null
        BY <3>2 DEF MergesSequence
      <4>2. s \in SequenceYAML \cup {Null}
        BY <2>2, <3>1
      <4>3. QED BY <4>1, <4>2
    <3>5. /\ sqs[k].query = d[k].query /\ sqs[k].action = d[k].action
          /\ sqs[k].register = d[k].register
          /\ sqs[k].storage = IF d[k].storage = "" THEN "own" ELSE d[k].storage
      BY <2>1, <3>3, <3>1 DEF NewCondition, RegisterKept, MergedSequence
    <3>6. d[k].query = s.query /\ s.query \in Parses /\ d[k].storage = Trim(s.storage)
      BY <3>1, <3>2, KeptSequence
    <3>7. d[k].action = MergedAction(s.action)
      BY <3>1, <3>2, KeptSequence
    <3>8. d[k].register = IF s.register.type # Nil /\ s.register.to # Nil
                          THEN [type |-> "last_match", to |-> s.register.to]
                          ELSE [type |-> "", to |-> ""]
      BY <3>1, <3>2, KeptSequence
    <3>9. d[k].storage = "" \/ d[k].storage = s.storage
      BY <3>6 DEF Trim
    <3>10. d[k].action.name = Text(s.action.name)
      <4>1. s.action \in ActionYAML
        BY <3>4 DEF SequenceYAML
      <4>2. CASE s.action.name = Nil
        <5>1. MergedAction(s.action).name = ""
          BY <4>2 DEF MergedAction
        <5>2. QED BY <3>7, <4>2, <5>1 DEF Text
      <4>3. CASE s.action.name # Nil
        <5>1. d[k].action = [s.action EXCEPT !.args = IF @ = Nil THEN <<>> ELSE @]
          BY <3>7, <4>3 DEF MergedAction
        <5>2. d[k].action.name = s.action.name
          BY <4>1, <5>1 DEF ActionYAML
        <5>3. QED BY <4>3, <5>2 DEF Text
      <4>4. QED BY <4>2, <4>3
    <3>11. ASSUME s.action.name \in NodesLoaders
           PROVE  /\ d[k].action.nodes = s.action.nodes
                  /\ s.action.nodes # <<>> /\ IsInjective(s.action.nodes)
                  /\ ToSet(s.action.nodes) \subseteq DOMAIN file.nodes
      <4>1. s.action.name # Nil
        BY <3>11, TokensAssumption DEF NodesLoaders
      <4>2. d[k].action.nodes = s.action.nodes /\ d[k].action.name = s.action.name
        BY <3>4, <3>7, <4>1 DEF MergedAction, SequenceYAML, ActionYAML
      <4>3. s.action.nodes \in Seq(STRING \cup {Other})
        BY <3>4 DEF SequenceYAML, ActionYAML
      <4>4. QED BY <2>4, <3>3, <3>11, <4>2, <4>3, FoundAndFiltered
    <3>12. QED BY <3>5, <3>6, <3>7, <3>8, <3>9, <3>10, <3>11
  <2>6. QED BY <2>1, <2>3, <2>5
<1>2. QED BY <1>1, DesignInvariant, PTL

\* What the nodes' texts of the design are.
LEMMA TextsOfNodes ==
  ASSUME Validated
  PROVE  /\ Nodes = DOMAIN file.nodes
         /\ NodeTexts = WrittenNodes /\ Templates = WrittenTemplates
         /\ design.common = Text(file.common) /\ design.nodesConfig = Text(file.nodesConfig)
<1>1. /\ design.nodes = [a \in DOMAIN file.nodes |-> Text(file.nodes[a])]
      /\ design.common = Text(file.common) /\ design.nodesConfig = Text(file.nodesConfig)
  BY MergedFields DEF Validated, Merged
<1>2. NodeTexts = WrittenNodes /\ Nodes = DOMAIN file.nodes
  BY <1>1 DEF NodeTexts, WrittenNodes, Nodes
<1>3. QED BY <1>1, <1>2 DEF Templates, WrittenTemplates

\* Where two hosts have a weight, two hosts of the file have.
LEMMA WeightsOfHosts ==
  ASSUME file \in Files, Validated, NEW j \in DOMAIN design.hosts, NEW k \in DOMAIN design.hosts,
         j # k, design.hosts[j].weight > 0, design.hosts[k].weight > 0
  PROVE  \E g, h \in DOMAIN file.hosts :
            g # h /\ file.hosts[g].weight > 0 /\ file.hosts[h].weight > 0
<1>1. file.hosts # <<>>
  <2>1. file.hosts = <<>> => DOMAIN design.hosts = {1}
    BY DEF Validated
  <2>2. QED BY <2>1
<1>2. /\ design.hosts = [m \in DOMAIN file.hosts |-> HostNamed(MergedHost(file.hosts[m]))]
      /\ \A m \in DOMAIN file.hosts : file.hosts[m] \in HostYAML
  <2>1. /\ file.hosts \in Seq(HostYAML \cup {Null})
        /\ \A m \in DOMAIN file.hosts : file.hosts[m] # Null
    BY FilesAssumption DEF Validated, MergedInFull, MergesHosts
  <2>2. design.hosts = [m \in DOMAIN file.hosts |-> HostNamed(MergedHost(file.hosts[m]))]
    BY <1>1, MergedFields DEF Validated, Map
  <2>3. QED BY <2>1, <2>2
<1>3. \A h \in HostYAML : HostNamed(MergedHost(h)).weight = h.weight
  BY DEF HostNamed, MergedHost, HostYAML
<1>4. QED BY <1>2, <1>3

\* A sequence is refused when it is loaded only for a fault of its action.
LEMMA RefusedSequence ==
  ASSUME file \in Files, Validated, NEW k \in DOMAIN design.sequences,
         LoadAction(design.sequences[k].action) # "ok"
  PROVE  LateFaults
<1> DEFINE s == file.sequences[k]
           a == s.action
           m == MergedAction(a)
<1>1. /\ k \in DOMAIN file.sequences /\ file.sequences \in Seq(SequenceYAML \cup {Null})
      /\ design.sequences[k] = RegisterKept(MergedSequence(s))
  BY FilesAssumption, MergedFields DEF Validated, Map
<1>2. MergesSequence(s) = "ok" /\ ValidSequence(MergedSequence(s))
  BY <1>1, MergedFields DEF Validated, MergedInFull, SequencesMerge
<1>3. design.sequences[k].action = m
  BY <1>1, <1>2, KeptSequence
<1>4. a \in ActionYAML
  <2>1. s # Null
    BY <1>2 DEF MergesSequence
  <2>2. s \in SequenceYAML \cup {Null}
    BY <1>1
  <2>3. QED BY <2>1, <2>2 DEF SequenceYAML
<1>5. Nodes = DOMAIN file.nodes /\ Other \notin Nodes
  BY MergedFields, FilesAssumption, TokensAssumption DEF Validated, Nodes
<1>6. s \in ToSet(file.sequences)
  BY <1>1 DEF ToSet
<1>7. LoadAction(m) # "ok"
  BY <1>3
<1> HIDE DEF s, a, m
<1>8. m.name # ""
  BY <1>7 DEF LoadAction
<1>9. a.name # Nil /\ m = [a EXCEPT !.args = IF @ = Nil THEN <<>> ELSE @]
  <2>1. CASE a.name = Nil
    <3>1. m.name = ""
      BY <2>1 DEF m, MergedAction
    <3>2. QED BY <3>1, <1>8
  <2>2. CASE a.name # Nil
    BY <2>2 DEF m, MergedAction
  <2>3. QED BY <2>1, <2>2
<1>10. /\ m.name = a.name /\ m.nodes = a.nodes /\ m.error = a.error
       /\ m.args = <<>> => a.args \in {Nil, <<>>}
  BY <1>4, <1>9 DEF ActionYAML
<1>11. /\ a.name \notin {Nil, ""}
       /\ \/ a.name \notin ActionLoaders
          \/ a.name = "kill" /\ a.error = Other
          \/ a.name = "host-command" /\ a.args \in {Nil, <<>>}
          \/ /\ a.name \in NodesLoaders
             /\ \/ a.nodes = <<>>
                \/ ~IsInjective(a.nodes)
                \/ ~(ToSet(a.nodes) \subseteq DOMAIN file.nodes)
  <2>1. a.name \notin {Nil, ""}
    BY <1>8, <1>9, <1>10
  <2>2. \/ a.name \notin ActionLoaders
        \/ a.name = "kill" /\ a.error = Other
        \/ a.name = "host-command" /\ m.args = <<>>
        \/ a.name \in NodesLoaders /\ ~(FoundNodes(m) /\ Filters(m.nodes))
    BY <1>7, <1>10 DEF LoadAction
  <2>3. ~(FoundNodes(m) /\ Filters(m.nodes)) =>
           \/ a.nodes = <<>> \/ ~IsInjective(a.nodes)
           \/ ~(ToSet(a.nodes) \subseteq DOMAIN file.nodes)
    BY <1>5, <1>10 DEF FoundNodes, Filters
  <2>4. QED BY <1>10, <2>1, <2>2, <2>3
<1>12. QED BY <1>6, <1>11 DEF LateFaults, a

\* What is refused with the database and the hosts already changed is refused for one of
\* the faults of LateFaults; everything else was noticed before.
THEOREM WhatIsRefusedLate == Spec => RefusedEarly
<1>1. ASSUME DesignInv, [Next]_vars, result' \in {"error", "panic"}, pc \in {"hosts", "nodes", "load"},
             ~UNCHANGED vars
      PROVE  LateFaults
  <2>1. file \in Files /\ Validated /\ result = "none"
    BY <1>1 DEF DesignInv
  <2>2. Nodes = DOMAIN file.nodes /\ IsFiniteSet(Nodes)
    BY <2>1, FilesAssumption, MergedFields DEF Validated, Nodes
  <2>3. CASE PrepareHosts
    <3>1. CASE Cardinality(Nodes) < 2 /\ Len(design.hosts) > 1
      <4>1. Cardinality(Nodes) \in Nat /\ (Nodes = {} \/ Cardinality(Nodes) = 1)
        BY <2>2, <3>1, FS_CardinalityType, FS_EmptySet
      <4>2. Len(file.hosts) > 1
        <5>1. CASE file.hosts = <<>>
          BY <2>1, <3>1, <5>1 DEF Validated
        <5>2. CASE file.hosts # <<>>
          <6>1. file.hosts \in Seq(HostYAML \cup {Null})
            BY <2>1, FilesAssumption
          <6>2. design.hosts = [k \in DOMAIN file.hosts |-> HostNamed(MergedHost(file.hosts[k]))]
            BY <2>1, <5>2, MergedFields DEF Validated, Map
          <6>3. Len(design.hosts) = Len(file.hosts)
            BY <6>1, <6>2
          <6>4. QED BY <3>1, <6>3
        <5>3. QED BY <5>1, <5>2
      <4>3. QED BY <2>2, <4>1, <4>2 DEF LateFaults
    <3>2. CASE ~(Cardinality(Nodes) < 2 /\ Len(design.hosts) > 1)
      <4>1. PICK c \in Chosen : \E j, k \in c : j # k /\ Written(k).host = Written(j).host
        BY <1>1, <2>1, <2>3, <3>2 DEF PrepareHosts
      <4>2. PICK j \in c, k \in c : j # k /\ Written(k).host = Written(j).host
        BY <4>1
      <4>3. /\ j \in DOMAIN design.hosts /\ k \in DOMAIN design.hosts /\ j # k
            /\ design.hosts[j].weight > 0 /\ design.hosts[k].weight > 0
        <5>1. c \subseteq DOMAIN design.hosts /\ (Cardinality(c) > 1 => c \subseteq Hosted)
              /\ IsFiniteSet(c)
          BY <2>1, HostsChosen
        <5>2. c \subseteq Hosted
          BY <4>2, <5>1, SeveralOfThem
        <5>3. QED BY <4>2, <5>1, <5>2 DEF Hosted, Written
      <4>4. QED BY <2>1, <4>3, WeightsOfHosts DEF LateFaults
    <3>3. QED BY <3>1, <3>2
  <2>7. CASE PrepareNodes
    <3>1. HostsGiven
      BY <1>1, <2>7 DEF DesignInv, PrepareNodes
    <3>2. \/ \E t \in Templates : "error" \in Compiles[t]
          \/ \E t \in NodeTexts : <<design.common, t>> \in Clashes
          \/ Cardinality(hosts) > 1
          \/ Templates \cap Sharing = {}
          \/ "error" \in Renders[design.nodesConfig] \/ Nodes \cap Unwritable # {}
      <4>1. ~UNCHANGED <<file, design, hosts, sqs, result>>
        BY <1>1, <2>1
      <4>2. QED BY <2>7, <4>1 DEF PrepareNodes
    <3>3. CASE Cardinality(hosts) > 1
      BY <2>1, <3>1, <3>3, WeightsOfHosts DEF HostsGiven, LateFaults
    <3>4. CASE ~(Cardinality(hosts) > 1)
      <4>1. \/ \E t \in WrittenTemplates : "error" \in Compiles[t]
            \/ \E t \in WrittenNodes : <<Text(file.common), t>> \in Clashes
            \/ WrittenTemplates \cap Sharing = {}
            \/ "error" \in Renders[Text(file.nodesConfig)]
            \/ DOMAIN file.nodes \cap Unwritable # {}
        BY <2>1, <3>2, <3>4, TextsOfNodes
      <4>2. QED BY <4>1 DEF LateFaults
    <3>5. QED BY <3>3, <3>4
  <2>4. CASE ParseSequence
    <3>1. LoadedInTurn /\ HostsGiven
      BY <1>1, <2>4 DEF DesignInv, ParseSequence
    <3>2. CASE hosts = {}
      BY <2>2, <3>1, <3>2 DEF HostsGiven, LateFaults
    <3>3. CASE hosts # {}
      <4> DEFINE k == Len(sqs) + 1
      <4>1. LoadAction(design.sequences[k].action) # "ok"
        BY <1>1, <2>1, <2>4, <3>3 DEF ParseSequence
      <4>2. k \in DOMAIN design.sequences
        <5>1. Len(sqs) \in Nat /\ Len(sqs) < Len(design.sequences)
          BY <2>4, <3>1 DEF LoadedInTurn, ParseSequence
        <5>2. Len(design.sequences) \in Nat
              /\ DOMAIN design.sequences = 1..Len(design.sequences)
          BY <2>1, MergedFields, FilesAssumption DEF Validated, Map
        <5>3. QED BY <5>1, <5>2
      <4>3. QED BY <2>1, <4>1, <4>2, RefusedSequence
    <3>4. QED BY <3>2, <3>3
  <2>5. CASE NewLogWatcher
    <3>1. sqs = <<>> /\ Len(sqs) = Len(design.sequences)
      BY <1>1, <2>5 DEF NewLogWatcher, End
    <3>2. file.sequences = <<>>
      <4>1. file.sequences \in Seq(SequenceYAML \cup {Null})
        BY <2>1, FilesAssumption
      <4>2. Len(design.sequences) = Len(file.sequences)
        BY <2>1, <4>1, MergedFields DEF Validated, Map
      <4>3. QED BY <3>1, <4>1, <4>2
    <3>3. QED BY <3>2 DEF LateFaults
  <2>6. QED BY <1>1, <2>3, <2>4, <2>5, <2>7 DEF Next, Merge, IsValid, SetDatabase
<1>2. DesignInv /\ [Next]_vars
      => [result' \in {"error", "panic"} /\ pc \in {"hosts", "nodes", "load"} => LateFaults]_vars
  BY <1>1
<1>3. QED BY <1>2, DesignInvariant, PTL DEF Spec, RefusedEarly
-----------------------------------------------------------------------------
(* SpreadNodes                                                              *)

\* A greater number has no smaller quotient.
LEMMA QuotientsGrow ==
  ASSUME NEW a \in Nat, NEW b \in Nat, a <= b, NEW d \in Nat \ {0}
  PROVE  a \div d \in Nat /\ a \div d <= b \div d
<1> DEFINE p == a \div d
           q == b \div d
<1>1. p \in Int /\ q \in Int /\ d * p <= a /\ a < d * p + d /\ d * q <= b /\ b < d * q + d
  BY SMTT(30)
<1> HIDE DEF p, q
<1>2. ASSUME q < p PROVE FALSE
  <2>1. PICK e \in Nat : p = q + 1 + e
    <3>1. p - q - 1 \in Nat /\ p = q + 1 + (p - q - 1)
      BY <1>1, <1>2
    <3>2. QED BY <3>1
  <2>2. d * p = d * q + d + d * e
    BY <2>1, <1>1, SMTT(30)
  <2>3. d * e >= 0
    BY SMTT(30)
  <2>4. d * e \in Int /\ d * p \in Int /\ d * q \in Int
    BY <1>1
  <2>5. QED BY <1>1, <2>2, <2>3, <2>4
<1>3. ASSUME p < 0 PROVE FALSE
  <2>1. PICK e \in Nat : p = -1 - e
    <3>1. -p - 1 \in Nat /\ p = -1 - (-p - 1)
      BY <1>1, <1>3
    <3>2. QED BY <3>1
  <2>2. d * p = -d - d * e
    BY <2>1, <1>1, SMTT(30)
  <2>3. d * e >= 0
    BY SMTT(30)
  <2>4. d * e \in Int /\ d * p \in Int
    BY <1>1
  <2>5. QED BY <1>1, <2>2, <2>3, <2>4
<1>4. p \in Nat /\ p <= q
  BY <1>1, <1>2, <1>3
<1>5. QED BY <1>4 DEF p, q

\* Rounded up, the share of a weight is 0 for none, and at least that of a smaller one.
LEMMA SharesGrow ==
  ASSUME NEW v \in Nat, NEW w \in Nat, v <= w, NEW m \in Nat \ {0}, NEW d \in Nat \ {0}
  PROVE  /\ (v * m + d - 1) \div d \in Nat
         /\ (v * m + d - 1) \div d <= (w * m + d - 1) \div d
         /\ v = 0 => (v * m + d - 1) \div d = 0
         /\ v > 0 => (v * m + d - 1) \div d > 0
<1>1. v * m \in Nat /\ w * m \in Nat
  BY SMTT(30)
<1>2. v * m <= w * m
  <2>1. PICK e \in Nat : w = v + e
    <3>1. w - v \in Nat /\ w = v + (w - v)
      OBVIOUS
    <3>2. QED BY <3>1
  <2>2. w * m = v * m + e * m /\ e * m >= 0
    BY <2>1, SMTT(30)
  <2>3. QED BY <1>1, <2>2
<1> DEFINE a == v * m + d - 1
           b == w * m + d - 1
<1>3. a \in Nat /\ b \in Nat /\ a <= b
  BY <1>1, <1>2
<1>4. v = 0 => a \div d = 0
  <2>1. v = 0 => a = d - 1
    BY <1>1
  <2>2. (d - 1) \div d = 0
    BY SMTT(30)
  <2>3. QED BY <2>1, <2>2
<1>5. v > 0 => a \div d > 0
  <2>1. v > 0 => d <= a
    <3>1. v > 0 => v * m > 0
      BY SMTT(30)
    <3>2. QED BY <3>1, <1>1
  <2>2. d \div d = 1
    BY SMTT(30)
  <2>3. d <= a => d \div d <= a \div d
    BY <1>3, QuotientsGrow
  <2>4. a \div d \in Int
    BY <1>3
  <2>5. QED BY <2>1, <2>2, <2>3, <2>4
<1>6. a \div d \in Nat /\ a \div d <= b \div d
  BY <1>3, QuotientsGrow
<1>7. QED BY <1>4, <1>5, <1>6
-----------------------------------------------------------------------------
\* The weights are in descending order.
LEMMA SortedWeights ==
  ASSUME TypeOK
  PROVE  /\ H \in Nat /\ DOMAIN weights = Hosts
         /\ \A h \in Hosts : weights[h] \in Nat
         /\ \A g, h \in Hosts : g < h => weights[g] >= weights[h]
         /\ \A c \in Nat, f \in Seq(Nat) : c \in 1..Len(f) => f[c] \in Nat
  BY DEF TypeOK, H, Hosts, Descending

\* What a round of the hosts adds to one of them.
LEMMA SharesOfHosts ==
  ASSUME TypeOK, n >= 2, NEW h \in Hosts
  PROVE  /\ \A j \in Shares(weights[h]) : j \in Nat
         /\ sum > 0 => /\ Shares(weights[h]) = {Share(h)}
                       /\ weights[h] = 0 <=> Share(h) = 0
                       /\ \A g \in Hosts : g < h => Share(g) >= Share(h)
<1>1. n \in Nat \ {0} /\ sum \in Nat
  BY DEF TypeOK
<1>2. CASE sum = 0
  BY <1>1, <1>2 DEF Shares
<1>3. CASE sum > 0
  <2>1. sum \in Nat \ {0}
    BY <1>1, <1>3
  <2>2. Shares(weights[h]) = {Share(h)}
    BY <1>3 DEF Shares, Share
  <2>3. Share(h) \in Nat /\ (weights[h] = 0 <=> Share(h) = 0)
    <3>1. weights[h] \in Nat /\ weights[h] <= weights[h]
      BY SortedWeights
    <3>2. /\ Share(h) \in Nat
          /\ weights[h] = 0 => Share(h) = 0
          /\ weights[h] > 0 => Share(h) > 0
      BY <1>1, <2>1, <3>1, SharesGrow DEF Share
    <3>3. QED BY <3>1, <3>2
  <2>4. ASSUME NEW g \in Hosts, g < h PROVE Share(g) >= Share(h)
    <3>1. weights[h] \in Nat /\ weights[g] \in Nat /\ weights[h] <= weights[g]
      BY <2>4, SortedWeights
    <3>2. Share(h) <= Share(g)
      BY <1>1, <2>1, <3>1, SharesGrow DEF Share
    <3>3. Share(g) \in Nat
      BY <1>1, <2>1, <3>1, SharesGrow DEF Share
    <3>4. QED BY <2>3, <3>2, <3>3
  <2>5. QED BY <2>2, <2>3, <2>4
<1>4. QED BY <1>1, <1>2, <1>3

\* A step of the loop gives one host its share, or what is left.
LEMMA SpreadStep ==
  ASSUME TypeOK, Spread
  PROVE  /\ at = "spread" /\ i \in Hosts /\ n >= 2
         /\ UNCHANGED <<n, weights, sum, l, selected>>
         /\ \E j \in Shares(weights[i]), r \in Nat :
               /\ r <= j /\ counts' = [counts EXCEPT ![i] = @ + r]
               /\ \/ /\ r = j /\ assigned' = assigned + r /\ assigned' < n
                     /\ i' = (IF i = H THEN 1 ELSE i + 1) /\ at' = "spread"
                  \/ /\ assigned + r = n /\ assigned' = assigned
                     /\ i' = 1 /\ at' = "select"
<1>1. /\ at = "spread" /\ i \in Hosts /\ n >= 2 /\ n \in Nat
      /\ assigned \in Nat /\ assigned < n /\ UNCHANGED <<n, weights, sum, l, selected>>
  BY DEF Spread, TypeOK, Hosts, H, Go
<1>2. PICK j \in Shares(weights[i]) :
          IF assigned + j >= n
          THEN /\ counts' = [counts EXCEPT ![i] = @ + (n - assigned)]
               /\ i' = 1 /\ assigned' = assigned
               /\ at' = "select"
          ELSE /\ counts' = [counts EXCEPT ![i] = @ + j]
               /\ assigned' = assigned + j
               /\ i' = IF i = H THEN 1 ELSE i + 1
               /\ at' = "spread"
  BY DEF Spread, Go
<1>3. j \in Nat
  BY <1>1, SharesOfHosts
<1>4. CASE assigned + j >= n
  <2>1. n - assigned \in Nat /\ n - assigned <= j /\ assigned + (n - assigned) = n
    BY <1>1, <1>3, <1>4
  <2>2. QED BY <1>1, <1>2, <1>4, <2>1
<1>5. CASE ~(assigned + j >= n)
  BY <1>1, <1>2, <1>3, <1>5
<1>6. QED BY <1>4, <1>5

\* The counts of the hosts, with some more for one of them.
LEMMA CountsGrow ==
  ASSUME NEW c \in Seq(Nat), NEW h \in 1..Len(c), NEW r \in Nat
  PROVE  /\ [c EXCEPT ![h] = @ + r] \in Seq(Nat)
         /\ Len([c EXCEPT ![h] = @ + r]) = Len(c)
         /\ \A g \in 1..Len(c) : [c EXCEPT ![h] = @ + r][g] = c[g] + (IF g = h THEN r ELSE 0)
  OBVIOUS

\* The types are kept by every step.
LEMMA TypesKept ==
  ASSUME TypeOK, [CalcNext]_calcVars
  PROVE  TypeOK'
<1> USE DEF Hosts, H
<1>1. CASE Start
  <2>1. <<n>> \in Seq(Nat) /\ n \in Nat /\ Len(weights) > 0
    BY DEF TypeOK
  <2>2. /\ UNCHANGED <<n, weights, assigned, sum, i, l, selected>>
        /\ at = "start"
        /\ \/ n < 2 /\ counts' = <<n>> /\ at' = "select"
           \/ n >= 2 /\ counts' = counts /\ at' = "seed"
    BY <1>1, <2>1 DEF Start, Go
  <2>3. assigned = 0 /\ Len(counts) = Len(weights)
    BY <2>2 DEF TypeOK, Making
  <2>4. CASE n < 2
    <3>1. counts' = <<n'>> /\ at' = "select" /\ n' < 2 /\ at' \notin Making
      BY <2>1, <2>2, <2>4 DEF Making
    <3>2. counts' \in Seq(Nat)
      BY <2>1, <2>2, <3>1
    <3>3. QED BY <2>2, <3>1, <3>2 DEF TypeOK, Descending
  <2>5. CASE n >= 2
    BY <2>1, <2>2, <2>3, <2>5 DEF TypeOK, Making, Descending
  <2>6. QED BY <2>1, <2>4, <2>5
<1>2. CASE Seed
  <2>1. /\ UNCHANGED <<n, weights, l, selected>>
        /\ at = "seed" /\ i <= Len(weights) /\ i \in 1..Len(weights)
        /\ n \in Nat /\ n >= 2 /\ assigned \in Nat /\ assigned < n
        /\ Len(counts) = Len(weights) /\ weights[i] \in Nat /\ sum \in Nat
        /\ Len(weights) \in Nat
    BY <1>2 DEF Seed, Go, TypeOK, Making
  <2>2. CASE weights[i] = 0
    <3>1. i' = i + 1 /\ at' = "seed" /\ UNCHANGED <<counts, assigned, sum>>
      BY <1>2, <2>2 DEF Seed, Go
    <3>2. QED BY <2>1, <3>1 DEF TypeOK, Making, Descending
  <2>3. CASE weights[i] # 0
    <3>1. /\ counts' = [counts EXCEPT ![i] = 1]
          /\ assigned' = assigned + 1 /\ sum' = sum + weights[i]
          /\ IF assigned' = n THEN i' = 1 /\ at' = "select"
                               ELSE i' = i + 1 /\ at' = "seed"
      BY <1>2, <2>3 DEF Seed, Go
    <3>2. counts' \in Seq(Nat) /\ Len(counts') = Len(weights)
      BY <2>1, <3>1 DEF TypeOK
    <3>3. assigned' \in Nat /\ sum' \in Nat
      BY <2>1, <3>1
    <3>4. i' \in 1..(Len(weights) + 1) /\ at' \in {"select", "seed"}
      BY <2>1, <3>1
    <3>5. at' = "seed" => assigned' < n
      BY <2>1, <3>1
    <3>6. QED BY <2>1, <3>2, <3>3, <3>4, <3>5 DEF TypeOK, Making, Descending
  <2>4. QED BY <2>2, <2>3
<1>3. CASE Remainder
  <2>1. /\ UNCHANGED <<n, weights, l, selected, assigned, sum>>
        /\ at = "seed" /\ i' = 1 /\ n \in Nat /\ n >= 2
        /\ Len(counts) = Len(weights) /\ assigned < n /\ Len(weights) \in Nat \ {0}
    BY <1>3 DEF Remainder, Go, TypeOK, Making
  <2>2. \/ counts' = counts /\ at' = "spread"
        \/ \E top \in 1..Len(weights) : counts' = [counts EXCEPT ![top] = @ + 1]
           /\ at' = "select"
    BY <1>3 DEF Remainder, Go
  <2>3. counts' \in Seq(Nat) /\ Len(counts') = Len(weights) /\ at' \in {"spread", "select"}
    BY <2>1, <2>2 DEF TypeOK
  <2>4. QED BY <2>1, <2>3 DEF TypeOK, Making, Descending
<1>4. CASE Spread
  <2>1. /\ at = "spread" /\ i \in 1..Len(weights) /\ n >= 2
        /\ UNCHANGED <<n, weights, sum, l, selected>>
    BY <1>4, SpreadStep
  <2>2. PICK j \in Shares(weights[i]), r \in Nat :
               /\ counts' = [counts EXCEPT ![i] = @ + r]
               /\ \/ /\ assigned' = assigned + r /\ assigned' < n
                     /\ i' = (IF i = Len(weights) THEN 1 ELSE i + 1) /\ at' = "spread"
                  \/ /\ assigned' = assigned /\ i' = 1 /\ at' = "select"
    BY <1>4, SpreadStep
  <2>3. Len(counts) = Len(weights) /\ assigned \in Nat /\ Len(weights) \in Nat \ {0}
    BY <2>1 DEF TypeOK, Making
  <2>4. counts' \in Seq(Nat) /\ Len(counts') = Len(weights)
    BY <2>1, <2>2, <2>3, CountsGrow DEF TypeOK
  <2>5. /\ at' \in {"spread", "select"} /\ assigned' \in Nat
        /\ i' \in 1..(Len(weights) + 1) /\ (at' = "spread" => i' <= Len(weights))
        /\ at' = "spread" => assigned' < n
    BY <2>1, <2>2, <2>3
  <2>6. QED BY <2>1, <2>4, <2>5, <2>3 DEF TypeOK, Making, Descending
<1>5. CASE Select
  <2>1. /\ UNCHANGED <<n, weights, counts, assigned, sum>> /\ at = "select"
        /\ counts \in Seq(Nat) /\ Len(weights) \in Nat /\ l \in Nat
        /\ selected \in [1..Len(weights) -> SUBSET Nat]
        /\ i \in 1..(Len(weights) + 1)
    BY <1>5 DEF Select, TypeOK
  <2>2. CASE i > Len(weights) \/ i > Len(counts)
    <3>1. at' \in {"done", "panic"} /\ UNCHANGED <<i, l, selected>>
      BY <1>5, <2>2 DEF Select
    <3>2. QED BY <2>1, <3>1 DEF TypeOK, Making, Descending
  <2>3. CASE ~(i > Len(weights) \/ i > Len(counts))
    <3>1. /\ selected' = [selected EXCEPT ![i] = (l + 1)..(l + counts[i])]
          /\ l' = l + counts[i] /\ i' = i + 1 /\ at' = "select"
      BY <1>5, <2>1, <2>3 DEF Select
    <3>2. counts[i] \in Nat
      BY <2>1, <2>3
    <3>3. (l + 1)..(l + counts[i]) \in SUBSET Nat
      BY <2>1, <3>2
    <3>4. selected' \in [1..Len(weights) -> SUBSET Nat]
      BY <2>1, <3>1, <3>3
    <3>5. l' \in Nat /\ i' \in 1..(Len(weights) + 1)
      BY <2>1, <2>3, <3>1, <3>2
    <3>6. QED BY <2>1, <3>1, <3>4, <3>5 DEF TypeOK, Making, Descending
  <2>4. QED BY <2>2, <2>3
<1>6. CASE UNCHANGED calcVars
  BY <1>6 DEF calcVars, TypeOK, Descending
<1>7. QED
  BY <1>1, <1>2, <1>3, <1>4, <1>5, <1>6 DEF CalcNext, Step, Terminating

-----------------------------------------------------------------------------
\* The counts keep adding up.
LEMMA MoreAddsUp ==
  ASSUME NEW c \in Seq(Nat), NEW s \in [0..Len(c) -> Nat], NEW t \in Nat, AddUp(s, c, t),
         NEW h \in 1..Len(c), NEW r \in Nat
  PROVE  \E z \in [0..Len(c) -> Nat] : AddUp(z, [c EXCEPT ![h] = @ + r], t + r)
<1> DEFINE d == [c EXCEPT ![h] = @ + r]
           z == [g \in 0..Len(c) |-> s[g] + (IF g < h THEN 0 ELSE r)]
<1>1. /\ Len(d) = Len(c) /\ Len(c) \in Nat
      /\ \A g \in 1..Len(c) : d[g] = c[g] + (IF g = h THEN r ELSE 0)
      /\ \A g \in 1..Len(c) : c[g] \in Nat
  <2>1. Len(c) \in Nat /\ \A g \in 1..Len(c) : c[g] \in Nat
    OBVIOUS
  <2>2. d \in Seq(Nat) /\ Len(d) = Len(c)
    BY CountsGrow
  <2>3. \A g \in 1..Len(c) : [c EXCEPT ![h] = @ + r][g] = c[g] + (IF g = h THEN r ELSE 0)
    BY <2>1
  <2>4. QED BY <2>1, <2>2, <2>3
<1>2. z \in [0..Len(c) -> Nat]
  OBVIOUS
<1>3. z[0] = 0 /\ z[Len(c)] = t + r
  BY <1>1 DEF AddUp
<1>4. ASSUME NEW g \in 1..Len(c) PROVE z[g] = z[g - 1] + d[g]
  <2>1. g \in 0..Len(c) /\ g - 1 \in 0..Len(c) /\ g \in Nat /\ h \in Nat /\ g \in Int
    BY <1>1
  <2>2. s[g] = s[g - 1] + c[g] /\ s[g] \in Nat /\ s[g - 1] \in Nat /\ c[g] \in Nat
    BY <1>1, <2>1 DEF AddUp
  <2>3. /\ z[g] = s[g] + (IF g < h THEN 0 ELSE r)
        /\ z[g - 1] = s[g - 1] + (IF g - 1 < h THEN 0 ELSE r)
        /\ d[g] = c[g] + (IF g = h THEN r ELSE 0)
    BY <1>1, <2>1
  <2> HIDE DEF z, d
  <2>4. QED BY <2>1, <2>2, <2>3
<1>5. AddUp(z, d, t + r)
  <2> HIDE DEF z, d
  <2> QED BY <1>1, <1>3, <1>4 DEF AddUp
<1>6. QED BY <1>2, <1>5

\* The counts add up after every step.
LEMMA SumsKept ==
  ASSUME TypeOK, CountsAddUp, SelectedInTurn, SeededInTurn, [CalcNext]_calcVars
  PROVE  CountsAddUp'
<1> USE DEF Hosts, H
<1>0. /\ n \in Nat /\ counts \in Seq(Nat) /\ Len(counts) \in Nat /\ assigned \in Nat
      /\ i \in Nat /\ l \in Nat
  BY DEF TypeOK
<1>1. PICK s \in [0..Len(counts) -> Nat] :
        /\ AddUp(s, counts, IF at \in Making THEN assigned ELSE n)
        /\ at \notin Making => i <= Len(counts) + 1 /\ l = s[i - 1]
  BY DEF CountsAddUp
\* It is enough that some host has some more.
<1>2. ASSUME at \in Making, at' \in Making \cup {"select"}, NEW r \in Nat,
             \/ r = 0 /\ counts' = counts
             \/ \E h \in 1..Len(counts) : counts' = [counts EXCEPT ![h] = @ + r],
             assigned + r = IF at' \in Making THEN assigned' ELSE n',
             at' \notin Making => i' = 1 /\ l' = 0
      PROVE  CountsAddUp'
  <2>1. \E z \in [0..Len(counts) -> Nat] : AddUp(z, counts', assigned + r)
    <3>1. CASE counts' = counts /\ r = 0
      BY <1>0, <1>1, <1>2, <3>1
    <3>2. CASE \E h \in 1..Len(counts) : counts' = [counts EXCEPT ![h] = @ + r]
      <4>1. PICK h \in 1..Len(counts) : counts' = [counts EXCEPT ![h] = @ + r]
        BY <3>2
      <4>2. AddUp(s, counts, assigned)
        BY <1>1, <1>2
      <4>3. \E z \in [0..Len(counts) -> Nat] :
               AddUp(z, [counts EXCEPT ![h] = @ + r], assigned + r)
        BY <1>0, <4>2, MoreAddsUp
      <4>4. QED BY <4>1, <4>3
    <3>3. QED BY <1>2, <3>1, <3>2
  <2>2. PICK z \in [0..Len(counts) -> Nat] : AddUp(z, counts', assigned + r)
    BY <2>1
  <2>3. Len(counts') = Len(counts)
    BY <1>0, <1>2, CountsGrow
  <2>4. z[1 - 1] = 0
    BY <2>2 DEF AddUp
  <2>5. /\ AddUp(z, counts', IF at' \in Making THEN assigned' ELSE n')
        /\ at' \notin Making => i' <= Len(counts') + 1 /\ l' = z[i' - 1]
    BY <1>0, <1>2, <2>2, <2>3, <2>4
  <2>6. QED BY <2>3, <2>5 DEF CountsAddUp
<1>3. CASE Start
  <2>1. at = "start" /\ UNCHANGED <<n, assigned, i, l>> /\ i = 1 /\ l = 0 /\ assigned = 0
    BY <1>3 DEF Start, Go, TypeOK, SelectedInTurn, SeededInTurn, Making
  <2>2. CASE n < 2
    <3>1. counts' = <<n>> /\ at' = "select"
      BY <1>3, <2>2 DEF Start, Go
    <3> DEFINE z == [g \in 0..1 |-> IF g = 0 THEN 0 ELSE n]
    <3>2. z \in [0..1 -> Nat] /\ z[0] = 0 /\ z[1] = n
      BY <1>0
    <3> HIDE DEF z
    <3>3. Len(counts') = 1 /\ counts'[1] = n /\ \A g \in 1..1 : g = 1
      BY <3>1
    <3>4. AddUp(z, counts', n')
      BY <1>0, <2>1, <3>2, <3>3 DEF AddUp
    <3>5. z \in [0..Len(counts') -> Nat] /\ i' <= Len(counts') + 1 /\ l' = z[i' - 1]
      BY <2>1, <3>2, <3>3
    <3>6. QED BY <3>1, <3>4, <3>5 DEF CountsAddUp, Making
  <2>3. CASE n >= 2
    <3>1. counts' = counts /\ at' = "seed"
      BY <1>0, <1>3, <2>3 DEF Start, Go
    <3>2. at \in Making /\ at' \in Making /\ assigned + 0 = assigned'
      BY <1>0, <2>1, <3>1 DEF Making
    <3>3. QED BY <1>2, <3>1, <3>2
  <2>4. QED BY <1>0, <2>2, <2>3
<1>4. CASE Seed
  <2>1. /\ at = "seed" /\ i \in 1..Len(counts) /\ l = 0 /\ l' = l /\ n' = n
        /\ counts[i] = 0
    BY <1>4 DEF Seed, Go, TypeOK, SelectedInTurn, SeededInTurn, Making
  <2>2. at \in Making
    BY <2>1 DEF Making
  <2>3. CASE weights[i] = 0
    <3>1. at' = "seed" /\ UNCHANGED <<counts, assigned>>
      BY <1>4, <2>3 DEF Seed, Go
    <3>2. at' \in Making /\ assigned + 0 = assigned'
      BY <1>0, <3>1 DEF Making
    <3>3. QED BY <1>2, <2>2, <3>1, <3>2
  <2>4. CASE weights[i] # 0
    <3>1. /\ counts' = [counts EXCEPT ![i] = 1] /\ assigned' = assigned + 1
          /\ \/ assigned' = n /\ i' = 1 /\ at' = "select"
             \/ at' = "seed"
      BY <1>4, <2>4 DEF Seed, Go
    <3>2. counts' = [counts EXCEPT ![i] = @ + 1]
      BY <2>1, <3>1
    <3>3. /\ at' \in Making \cup {"select"} /\ (at' \notin Making => i' = 1)
          /\ assigned + 1 = IF at' \in Making THEN assigned' ELSE n'
      BY <2>1, <3>1 DEF Making
    <3>4. \E h \in 1..Len(counts) : counts' = [counts EXCEPT ![h] = @ + 1]
      BY <2>1, <3>2
    <3>5. l' = 0
      BY <2>1
    <3>6. QED BY <1>2, <2>2, <3>3, <3>4, <3>5
  <2>5. QED BY <2>3, <2>4
<1>5. CASE Remainder
  <2>1. /\ at = "seed" /\ i' = 1 /\ l = 0 /\ l' = l /\ n' = n /\ assigned' = assigned
        /\ Len(counts) = Len(weights)
    BY <1>5 DEF Remainder, Go, TypeOK, SelectedInTurn, Making
  <2>2. at \in Making
    BY <2>1 DEF Making
  <2>3. CASE n - assigned = 1
    <3>1. /\ \E h \in 1..Len(counts) : counts' = [counts EXCEPT ![h] = @ + 1]
          /\ at' = "select"
      BY <1>5, <2>1, <2>3 DEF Remainder, Go
    <3>2. /\ at' \in Making \cup {"select"} /\ (at' \notin Making => i' = 1)
          /\ assigned + 1 = IF at' \in Making THEN assigned' ELSE n'
      BY <1>0, <2>1, <2>3, <3>1 DEF Making
    <3>3. QED BY <1>2, <2>1, <2>2, <3>1, <3>2
  <2>4. CASE n - assigned # 1
    <3>1. at' = "spread" /\ UNCHANGED <<counts, assigned>>
      BY <1>5, <2>4 DEF Remainder, Go
    <3>2. at' \in Making /\ assigned + 0 = assigned'
      BY <1>0, <3>1 DEF Making
    <3>3. QED BY <1>2, <2>2, <3>1, <3>2
  <2>5. QED BY <2>3, <2>4
<1>6. CASE Spread
  <2>1. at = "spread" /\ i \in 1..Len(counts) /\ l = 0 /\ l' = l /\ n' = n
    BY <1>6, SpreadStep DEF TypeOK, SelectedInTurn, Making
  <2>2. PICK r \in Nat :
          /\ counts' = [counts EXCEPT ![i] = @ + r]
          /\ \/ assigned' = assigned + r /\ at' = "spread"
             \/ assigned + r = n /\ i' = 1 /\ at' = "select"
    BY <1>6, SpreadStep
  <2>3. at \in Making /\ at' \in Making \cup {"select"}
    BY <2>1, <2>2 DEF Making
  <2>4. /\ assigned + r = IF at' \in Making THEN assigned' ELSE n'
        /\ at' \notin Making => i' = 1
    BY <2>1, <2>2 DEF Making
  <2>5. QED BY <1>2, <2>1, <2>2, <2>3, <2>4
<1>7. CASE Select
  <2>1. UNCHANGED <<n, counts, assigned>> /\ at = "select" /\ at \notin Making
    BY <1>7 DEF Select, Making
  <2>2. AddUp(s, counts, n) /\ i <= Len(counts) + 1 /\ l = s[i - 1]
    BY <1>1, <2>1
  <2>3. CASE i > Len(weights) \/ i > Len(counts)
    <3>1. at' \in {"done", "panic"} /\ UNCHANGED <<i, l>>
      BY <1>7, <2>3 DEF Select
    <3>2. at' \notin Making
      BY <3>1 DEF Making
    <3>3. QED BY <2>1, <2>2, <3>1, <3>2 DEF CountsAddUp
  <2>4. CASE ~(i > Len(weights) \/ i > Len(counts))
    <3>1. l' = l + counts[i] /\ i' = i + 1 /\ at' = "select"
      BY <1>7, <2>1, <2>4 DEF Select
    <3>2. at' \notin Making
      BY <3>1 DEF Making
    <3>3. i \in 1..Len(counts)
      BY <1>0, <2>4 DEF TypeOK
    <3>4. s[i] = s[i - 1] + counts[i]
      BY <2>2, <3>3 DEF AddUp
    <3>5. i' <= Len(counts) + 1 /\ l' = s[i' - 1]
      BY <1>0, <2>2, <3>1, <3>3, <3>4
    <3>6. QED BY <2>1, <2>2, <3>2, <3>5 DEF CountsAddUp
  <2>5. QED BY <2>3, <2>4
<1>8. CASE UNCHANGED calcVars
  BY <1>8 DEF calcVars, CountsAddUp
<1>9. QED
  BY <1>3, <1>4, <1>5, <1>6, <1>7, <1>8 DEF CalcNext, Step, Terminating

-----------------------------------------------------------------------------
\* Every host is selected the nodes behind those of the hosts before it.
LEMMA SelectionKept ==
  ASSUME TypeOK, SelectedInTurn, [CalcNext]_calcVars
  PROVE  SelectedInTurn'
<1> USE DEF Hosts, H
<1>0. /\ counts \in Seq(Nat) /\ Len(counts) \in Nat /\ l \in Nat /\ Len(weights) \in Nat
      /\ i \in 1..(Len(weights) + 1) /\ selected \in [1..Len(weights) -> SUBSET Nat]
  BY DEF TypeOK
\* As long as the counts are being made nothing is selected.
<1>1. ASSUME at \in Making, at' \in Making \cup {"select"}, UNCHANGED <<weights, l, selected>>
      PROVE  SelectedInTurn'
  <2>1. l = 0 /\ \A h \in 1..Len(weights) : selected[h] = {}
    BY <1>1 DEF SelectedInTurn
  <2>2. at' # "done" /\ at' # "panic"
    BY <1>1 DEF Making
  <2>3. QED BY <1>0, <1>1, <2>1, <2>2 DEF SelectedInTurn, Selected
<1>2. CASE Start
  BY <1>1, <1>2 DEF Start, Go, Making
<1>3. CASE Seed
  BY <1>1, <1>3 DEF Seed, Go, Making
<1>4. CASE Remainder
  BY <1>1, <1>4 DEF Remainder, Go, Making
<1>5. CASE Spread
  <2>1. at \in Making /\ at' \in Making \cup {"select"} /\ UNCHANGED <<weights, l, selected>>
    BY <1>5, SpreadStep DEF Making
  <2>2. QED BY <1>1, <2>1
<1>6. CASE Select
  <2>1. UNCHANGED <<n, weights, counts, assigned>> /\ at = "select" /\ at \notin Making
    BY <1>6 DEF Select, Making
  <2>2. CASE i > Len(weights) \/ i > Len(counts)
    <3>1. at' = (IF i > Len(weights) THEN "done" ELSE "panic") /\ UNCHANGED <<i, l, selected>>
      BY <1>6, <2>2 DEF Select
    <3>2. at' \notin Making /\ (at' = "done" => i > Len(weights))
          /\ (at' = "panic" => i <= Len(weights) /\ i > Len(counts))
      BY <1>0, <2>2, <3>1 DEF Making
    <3>3. QED BY <2>1, <3>1, <3>2 DEF SelectedInTurn, Selected
  <2>3. CASE ~(i > Len(weights) \/ i > Len(counts))
    <3>1. /\ selected' = [selected EXCEPT ![i] = (l + 1)..(l + counts[i])]
          /\ l' = l + counts[i] /\ i' = i + 1 /\ at' = "select"
      BY <1>6, <2>1, <2>3 DEF Select
    <3>2. i \in 1..Len(weights) /\ i <= Len(counts) /\ counts[i] \in Nat /\ at' \notin Making
      BY <1>0, <2>3, <3>1 DEF Making
    <3>3. \A h \in 1..Len(weights) :
             selected'[h] = IF h = i THEN (l + 1)..(l + counts[i]) ELSE selected[h]
      BY <1>0, <3>1
    <3>4. \A h \in 1..Len(weights) : selected[h] \subseteq 1..l
      BY DEF SelectedInTurn
    <3>5. ASSUME NEW x \in 1..l' PROVE \E h \in 1..Len(weights) : x \in selected'[h]
      <4>1. CASE x <= l
        <5>1. PICK h \in 1..Len(weights) : x \in selected[h]
          BY <1>0, <3>1, <3>2, <3>5, <4>1 DEF SelectedInTurn
        <5>2. h # i
          BY <2>1, <3>2, <5>1 DEF SelectedInTurn, Selected
        <5>3. QED BY <3>3, <5>1, <5>2
      <4>2. CASE x > l
        BY <1>0, <3>1, <3>2, <3>3, <3>5, <4>2
      <4>3. QED BY <1>0, <3>1, <3>2, <4>1, <4>2
    <3>6. ASSUME NEW h \in 1..Len(weights)
          PROVE  /\ selected'[h] \subseteq 1..l'
                 /\ selected'[h] # {} => h <= Len(counts) /\ counts[h] > 0
                 /\ h >= i' => selected'[h] = {}
      <4>1. CASE h = i
        BY <1>0, <3>1, <3>2, <3>3, <4>1
      <4>2. CASE h # i
        <5>1. selected'[h] = selected[h] /\ selected[h] \subseteq 1..l
          BY <3>3, <3>4, <4>2
        <5>2. 1..l \subseteq 1..l'
          BY <1>0, <3>1, <3>2
        <5>3. h >= i' => h >= i
          BY <1>0, <3>1
        <5>4. QED BY <2>1, <5>1, <5>2, <5>3 DEF SelectedInTurn, Selected
      <4>3. QED BY <4>1, <4>2
    <3>7. ASSUME NEW g \in 1..Len(weights), NEW h \in 1..Len(weights), g # h
          PROVE  selected'[g] \cap selected'[h] = {}
      <4>1. \A x \in 1..l : x \notin (l + 1)..(l + counts[i])
        BY <1>0, <3>2
      <4>2. selected[g] \cap selected[h] = {}
        BY <3>7 DEF SelectedInTurn
      <4>3. QED BY <3>3, <3>4, <3>7, <4>1, <4>2
    <3>8. QED BY <2>1, <3>1, <3>2, <3>5, <3>6, <3>7 DEF SelectedInTurn, Selected
  <2>4. QED BY <2>2, <2>3
<1>7. CASE UNCHANGED calcVars
  BY <1>7 DEF calcVars, SelectedInTurn, Selected
<1>8. QED
  BY <1>2, <1>3, <1>4, <1>5, <1>6, <1>7 DEF CalcNext, Step, Terminating

\* The counts are made host by host, and the weights seen are those of these hosts.
LEMMA SeedsKept ==
  ASSUME TypeOK, SeededInTurn, [CalcNext]_calcVars
  PROVE  SeededInTurn'
<1> USE DEF Hosts, H
<1>0. /\ counts \in Seq(Nat) /\ sum \in Nat /\ assigned \in Nat /\ n \in Nat
      /\ Len(weights) \in Nat /\ i \in Nat
      /\ \A h \in 1..Len(weights) : weights[h] \in Nat
  BY SortedWeights DEF TypeOK
<1>1. CASE Start
  <2>1. UNCHANGED <<n, weights, assigned, sum, i>> /\ at = "start" /\ i = 1 /\ sum = 0
        /\ assigned = 0 /\ \A h \in 1..Len(weights) : counts[h] = 0
    BY <1>1 DEF Start, Go, SeededInTurn
  <2>2. at' = "select" \/ (at' = "seed" /\ counts' = counts)
    BY <1>1 DEF Start, Go
  <2>3. QED BY <1>0, <2>1, <2>2 DEF SeededInTurn, Weightless
<1>2. CASE Seed
  <2>1. /\ UNCHANGED <<n, weights>> /\ at = "seed" /\ i \in 1..Len(weights)
        /\ Len(counts) = Len(weights)
        /\ sum = 0 => assigned = 0
        /\ sum > 0 => ~Weightless
        /\ \A h \in 1..Len(weights) :
              /\ h < i /\ weights[h] > 0 => sum > 0
              /\ counts[h] = IF h < i /\ weights[h] > 0 THEN 1 ELSE 0
    BY <1>2 DEF Seed, Go, TypeOK, SeededInTurn, Making
  <2>2. Weightless' <=> Weightless
    BY <2>1 DEF Weightless
  <2>3. CASE weights[i] = 0
    <3>1. i' = i + 1 /\ at' = "seed" /\ UNCHANGED <<counts, assigned, sum>>
      BY <1>2, <2>3 DEF Seed, Go
    <3>2. \A h \in 1..Len(weights) : h < i + 1 <=> h < i \/ h = i
      BY <1>0
    <3>3. QED BY <2>1, <2>2, <2>3, <3>1, <3>2 DEF SeededInTurn
  <2>4. CASE weights[i] # 0
    <3>1. /\ counts' = [counts EXCEPT ![i] = 1] /\ assigned' = assigned + 1
          /\ sum' = sum + weights[i]
          /\ at' = "select" \/ (i' = i + 1 /\ at' = "seed")
      BY <1>2, <2>4 DEF Seed, Go
    <3>2. sum' > 0 /\ sum' # 0 /\ ~Weightless
      BY <1>0, <2>1, <2>4, <3>1 DEF Weightless
    <3>3. \A h \in 1..Len(weights) : h < i + 1 <=> h < i \/ h = i
      BY <1>0
    <3>4. \A h \in 1..Len(weights) : counts'[h] = IF h = i THEN 1 ELSE counts[h]
      BY <1>0, <2>1, <3>1
    <3>5. weights[i] > 0
      BY <1>0, <2>1, <2>4
    <3>6. QED BY <2>1, <2>2, <3>1, <3>2, <3>3, <3>4, <3>5 DEF SeededInTurn
  <2>5. QED BY <2>3, <2>4
<1>3. CASE Remainder
  <2>1. /\ UNCHANGED <<n, weights, sum, assigned>> /\ at = "seed" /\ i > Len(weights)
        /\ at' \in {"select", "spread"}
    BY <1>3 DEF Remainder, Go
  <2>2. sum = 0 <=> Weightless
    BY <1>0, <2>1 DEF SeededInTurn, Weightless
  <2>3. Weightless' <=> Weightless
    BY <2>1 DEF Weightless
  <2>4. QED BY <2>1, <2>2, <2>3 DEF SeededInTurn
<1>4. CASE Spread
  <2>1. at = "spread" /\ UNCHANGED <<weights, sum, n>> /\ at' \in {"select", "spread"}
    BY <1>4, SpreadStep
  <2>2. sum = 0 => assigned' = 0
    <3>1. PICK j \in Shares(weights[i]), r \in Nat :
               \/ r = j /\ assigned' = assigned + r /\ assigned' < n
               \/ assigned' = assigned
      BY <1>4, SpreadStep
    <3>2. sum = 0 => assigned = 0 /\ j \in {0, n}
      BY <3>1 DEF SeededInTurn, Shares
    <3>3. QED BY <1>0, <3>1, <3>2
  <2>3. Weightless' <=> Weightless
    BY <2>1 DEF Weightless
  <2>4. QED BY <2>1, <2>2, <2>3 DEF SeededInTurn
<1>5. CASE Select
  <2>1. /\ UNCHANGED <<assigned, sum>>
        /\ at' # "start" /\ at' # "seed" /\ at' # "spread"
    BY <1>5 DEF Select
  <2>2. QED BY <2>1 DEF SeededInTurn
<1>6. CASE UNCHANGED calcVars
  BY <1>6 DEF calcVars, SeededInTurn, Weightless
<1>7. QED
  BY <1>1, <1>2, <1>3, <1>4, <1>5, <1>6 DEF CalcNext, Step, Terminating

-----------------------------------------------------------------------------
\* What one share does to the counts before and after it: the order by weight stays.
LEMMA FairnessKept ==
  ASSUME TypeOK, TypeOK', SeededInTurn, FairInTurn, [CalcNext]_calcVars
  PROVE  FairInTurn'
<1> USE DEF Hosts, H
<1>0. /\ counts \in Seq(Nat) /\ sum \in Nat /\ assigned \in Nat /\ n \in Nat
      /\ Len(weights) \in Nat /\ i \in 1..(Len(weights) + 1)
      /\ \A h \in 1..Len(weights) : weights[h] \in Nat
      /\ \A g, h \in 1..Len(weights) : g < h => weights[g] >= weights[h]
  BY SortedWeights DEF TypeOK
<1>1. CASE Start
  <2>1. UNCHANGED weights /\ at = "start"
    BY <1>1 DEF Start, Go
  <2>2. CASE n >= 2
    <3>1. at' = "seed" /\ at' \in Making
      BY <1>0, <1>1, <2>2 DEF Start, Go, Making
    <3>2. QED BY <3>1 DEF FairInTurn
  <2>3. CASE n < 2
    <3>1. at' = "select" /\ counts' = <<n>>
      BY <1>1, <2>3 DEF Start, Go
    <3>2. SUFFICES ASSUME Len(weights) = 1, ~Weightless PROVE FairInTurn'
      BY <2>1, <3>1 DEF FairInTurn, Weightless
    <3>3. \A h \in 1..Len(weights) : h = 1 /\ weights[h] > 0
      BY <1>0, <3>2 DEF Weightless
    <3>4. counts'[1] = n
      BY <3>1
    <3>5. QED BY <1>0, <2>1, <3>1, <3>3, <3>4 DEF FairInTurn
  <2>4. QED BY <1>0, <2>2, <2>3
<1>2. CASE Seed
  <2>1. /\ UNCHANGED weights /\ at = "seed" /\ i \in 1..Len(weights)
        /\ Len(counts) = Len(weights)
        /\ \A h \in 1..Len(weights) :
              counts[h] = IF h < i /\ weights[h] > 0 THEN 1 ELSE 0
    BY <1>2 DEF Seed, Go, TypeOK, SeededInTurn, Making
  <2>2. CASE at' = "seed"
    BY <2>2 DEF FairInTurn, Making
  <2>3. CASE at' # "seed"
    <3>1. /\ weights[i] > 0 /\ counts' = [counts EXCEPT ![i] = 1] /\ at' = "select"
      BY <1>0, <1>2, <2>1, <2>3 DEF Seed, Go
    <3>2. \A h \in 1..Len(weights) :
             counts'[h] = IF h <= i /\ weights[h] > 0 THEN 1 ELSE 0
      BY <1>0, <2>1, <3>1
    <3>3. \A h \in 1..Len(weights) :
             (counts'[h] > 0 => weights[h] > 0) /\ ~(counts'[h] > 1)
      BY <3>2
    <3>4. ASSUME NEW g \in 1..Len(weights), NEW h \in 1..Len(weights), g < h
          PROVE  counts'[g] >= counts'[h]
      <4>1. weights[g] \in Nat /\ weights[h] \in Nat /\ weights[g] >= weights[h]
        BY <1>0, <3>4
      <4>2. /\ counts'[g] = IF g <= i /\ weights[g] > 0 THEN 1 ELSE 0
            /\ counts'[h] = IF h <= i /\ weights[h] > 0 THEN 1 ELSE 0
        BY <3>2
      <4>3. QED BY <1>0, <3>4, <4>1, <4>2
    <3>5. QED BY <2>1, <3>1, <3>3, <3>4 DEF FairInTurn
  <2>4. QED BY <2>2, <2>3
<1>3. CASE Remainder
  <2>1. /\ UNCHANGED <<n, weights, sum, assigned>> /\ at = "seed" /\ i > Len(weights)
        /\ i' = 1 /\ n >= 2 /\ Len(counts) = Len(weights)
    BY <1>3 DEF Remainder, Go, TypeOK, Making
  <2>2. \A h \in 1..Len(weights) : counts[h] = IF weights[h] > 0 THEN 1 ELSE 0
    BY <1>0, <2>1 DEF SeededInTurn
  <2>3. CASE n - assigned = 1
    <3>1. PICK top \in 1..Len(weights) :
             /\ \A h \in 1..Len(weights) : weights[h] <= weights[top]
             /\ \A h \in 1..(top - 1) : weights[h] < weights[top]
             /\ counts' = [counts EXCEPT ![top] = @ + 1]
      BY <1>3, <2>3 DEF Remainder
    <3>2. at' = "select"
      BY <1>3, <2>3 DEF Remainder, Go
    <3>3. top = 1
      <4>1. CASE 1 < top
        <5>1. 1 \in 1..Len(weights) /\ 1 \in 1..(top - 1)
          BY <1>0, <4>1
        <5>2. weights[1] >= weights[top] /\ weights[1] < weights[top]
          BY <1>0, <3>1, <4>1, <5>1
        <5>3. weights[1] \in Nat /\ weights[top] \in Nat
          BY <1>0, <5>1
        <5>4. QED BY <5>2, <5>3
      <4>2. QED BY <1>0, <4>1
    <3>4. weights[1] > 0
      <4>1. sum > 0
        BY <1>0, <2>1, <2>3 DEF SeededInTurn
      <4>2. PICK h \in 1..Len(weights) : weights[h] # 0
        BY <2>1, <4>1 DEF SeededInTurn, Weightless
      <4>3. QED BY <1>0, <3>1, <3>3, <4>2
    <3>5. \A h \in 1..Len(weights) :
             counts'[h] = IF h = 1 THEN 2 ELSE IF weights[h] > 0 THEN 1 ELSE 0
      BY <1>0, <2>1, <2>2, <3>1, <3>3, <3>4
    <3>6. ASSUME NEW h \in 1..Len(weights)
          PROVE  /\ counts'[h] > 0 => weights[h] > 0
                 /\ weights[h] > 0 => counts'[h] > 0
      BY <1>0, <3>4, <3>5
    <3>7. ASSUME NEW g \in 1..Len(weights), NEW h \in 1..Len(weights), g < h
          PROVE  counts'[g] >= counts'[h]
      <4>1. weights[g] \in Nat /\ weights[h] \in Nat /\ weights[g] >= weights[h]
        BY <1>0, <3>7
      <4>2. /\ counts'[g] = IF g = 1 THEN 2 ELSE IF weights[g] > 0 THEN 1 ELSE 0
            /\ counts'[h] = IF weights[h] > 0 THEN 1 ELSE 0
        BY <1>0, <3>5, <3>7
      <4>3. QED BY <4>1, <4>2
    <3>8. QED BY <2>1, <3>2, <3>6, <3>7 DEF FairInTurn
  <2>4. CASE n - assigned # 1
    <3>1. at' = "spread" /\ counts' = counts /\ at' \in Making
      BY <1>3, <2>4 DEF Remainder, Go, Making
    <3>2. \A h \in 1..Len(weights) : Before(h)' = counts[h]
      BY <1>0, <2>1, <2>2, <3>1 DEF Before
    <3>3. ASSUME NEW g \in 1..Len(weights), NEW h \in 1..Len(weights), g < h
          PROVE  counts[g] >= counts[h]
      BY <1>0, <2>2, <3>3
    <3>4. \A h \in 1..Len(weights) : counts[h] > 0 <=> weights[h] > 0
      BY <2>2
    <3>5. QED BY <2>1, <3>1, <3>2, <3>3, <3>4 DEF FairInTurn
  <2>5. QED BY <2>3, <2>4
<1>4. CASE Spread
  <2>0. at = "spread" /\ i \in 1..Len(weights) /\ n >= 2 /\ UNCHANGED <<n, weights, sum>>
    BY <1>4, SpreadStep
  <2>1. /\ at = "spread" /\ i \in 1..Len(weights) /\ n >= 2 /\ UNCHANGED <<n, weights, sum>>
        /\ Len(counts) = Len(weights) /\ Len(counts') = Len(weights)
    BY <1>0, <2>0 DEF TypeOK
  <2>2. PICK j \in Shares(weights[i]), r \in Nat :
               /\ r <= j /\ counts' = [counts EXCEPT ![i] = @ + r]
               /\ \/ /\ r = j /\ i' = (IF i = Len(weights) THEN 1 ELSE i + 1)
                     /\ at' = "spread"
                  \/ at' = "select"
    BY <1>4, SpreadStep
  <2>3. CASE sum = 0
    <3>1. Weightless'
      BY <2>1, <2>3 DEF SeededInTurn, Weightless
    <3>2. QED BY <2>1, <2>3, <3>1 DEF FairInTurn
  <2>4. CASE sum > 0
    <3>1. /\ \A h \in 1..Len(weights) :
                /\ counts[h] \in Nat /\ Share(h) \in Nat
                /\ weights[h] = 0 <=> Share(h) = 0
                /\ \A g \in 1..Len(weights) : g < h => Share(g) >= Share(h)
          /\ j = Share(i)
      <4>1. ASSUME NEW h \in 1..Len(weights) PROVE counts[h] \in Nat /\ Share(h) \in Nat
        <5>1. Share(h) \in Shares(weights[h]) /\ \A k \in Shares(weights[h]) : k \in Nat
          BY <2>1, <2>4, SharesOfHosts
        <5>2. QED BY <1>0, <2>1, <5>1
      <4>2. Shares(weights[i]) = {Share(i)}
        BY <2>1, <2>4, SharesOfHosts
      <4>3. \A h \in 1..Len(weights) :
               /\ weights[h] = 0 <=> Share(h) = 0
               /\ \A g \in 1..Len(weights) : g < h => Share(g) >= Share(h)
        BY <2>1, <2>4, SharesOfHosts
      <4>4. QED BY <2>2, <4>1, <4>2, <4>3
    <3>2. \A h \in 1..Len(weights) : counts'[h] = counts[h] + (IF h = i THEN r ELSE 0)
      BY <1>0, <2>1, <2>2
    <3>3. \A h \in 1..Len(weights) : counts[h] > 0 <=> weights[h] > 0
      BY <2>1, <2>4 DEF FairInTurn
    <3>4. \A g, h \in 1..Len(weights) : g < h => Before(g) >= Before(h)
      BY <2>1, <2>4 DEF FairInTurn
    <3>5. \A h \in 1..Len(weights) :
             Before(h) = counts[h] - (IF h < i THEN Share(h) ELSE 0)
      BY DEF Before
    <3>6. ASSUME NEW h \in 1..Len(weights) PROVE counts'[h] > 0 <=> weights[h] > 0
      <4>1. CASE h = i
        <5>1. weights[i] = 0 => r = 0
          BY <2>1, <2>2, <3>1
        <5>2. counts[i] \in Nat /\ weights[i] \in Nat
          BY <1>0, <2>1, <3>1
        <5>3. QED BY <2>1, <3>2, <3>3, <4>1, <5>1, <5>2
      <4>2. CASE h # i
        BY <3>1, <3>2, <3>3, <4>2
      <4>3. QED BY <4>1, <4>2
    <3>7. CASE at' = "spread"
      <4>1. r = Share(i) /\ i' = (IF i = Len(weights) THEN 1 ELSE i + 1) /\ at' \in Making
        BY <2>2, <3>1, <3>7 DEF Making
      <4>2. \A h \in 1..Len(weights) :
               Before(h)' = counts'[h] - (IF h < i' THEN Share(h) ELSE 0)
        BY <2>1 DEF Before, Share
      <4>3. ASSUME NEW g \in 1..Len(weights), NEW h \in 1..Len(weights), g < h
            PROVE  Before(g)' >= Before(h)'
        <5>1. /\ counts[g] \in Nat /\ counts[h] \in Nat
              /\ Share(g) \in Nat /\ Share(h) \in Nat /\ Share(g) >= Share(h)
              /\ g \in Nat /\ h \in Nat
          BY <1>0, <3>1, <4>3
        <5>2. Before(g) >= Before(h)
          BY <3>4, <4>3
        <5>3. CASE i = Len(weights)
          <6>1. \A k \in 1..Len(weights) : k < i' <=> FALSE
            BY <1>0, <4>1, <5>3
          <6>2. /\ Before(g)' = counts[g] + (IF g = i THEN r ELSE 0)
                /\ Before(h)' = counts[h] + (IF h = i THEN r ELSE 0)
            BY <3>2, <4>2, <5>1, <6>1
          <6>3. /\ Before(g) = counts[g] - (IF g < i THEN Share(g) ELSE 0)
                /\ Before(h) = counts[h] - (IF h < i THEN Share(h) ELSE 0)
            BY <3>5
          <6>4. g < i /\ (h < i \/ h = i)
            BY <1>0, <4>3, <5>3
          <6> HIDE DEF Before, Share
          <6>5. QED BY <4>1, <5>1, <5>2, <6>2, <6>3, <6>4, <2>1
        <5>4. CASE i # Len(weights)
          <6>1. i' = i + 1 /\ \A k \in 1..Len(weights) : k < i' <=> k < i \/ k = i
            BY <1>0, <4>1, <5>4
          <6>2. ASSUME NEW k \in 1..Len(weights) PROVE Before(k)' = Before(k)
            <7>1. /\ Before(k)' = counts'[k] - (IF k < i \/ k = i THEN Share(k) ELSE 0)
                  /\ Before(k) = counts[k] - (IF k < i THEN Share(k) ELSE 0)
              BY <3>5, <4>2, <6>1
            <7>2. counts'[k] = counts[k] + (IF k = i THEN Share(i) ELSE 0)
              BY <3>2, <4>1
            <7>3. counts[k] \in Nat /\ Share(k) \in Nat /\ k \in Nat /\ i \in Nat
              BY <1>0, <3>1
            <7> HIDE DEF Before, Share
            <7>4. QED BY <7>1, <7>2, <7>3
          <6>3. QED BY <5>2, <6>2
        <5>5. QED BY <5>3, <5>4
      <4>4. QED BY <2>1, <3>6, <4>1, <4>3, <3>7 DEF FairInTurn
    <3>8. CASE at' = "select"
      <4>1. ASSUME NEW g \in 1..Len(weights), NEW h \in 1..Len(weights), g < h
            PROVE  counts'[g] >= counts'[h]
        <5>1. /\ counts[g] \in Nat /\ counts[h] \in Nat
              /\ Share(g) \in Nat /\ Share(h) \in Nat /\ Share(g) >= Share(h)
          BY <3>1, <4>1
        <5>2. Before(g) >= Before(h)
          BY <3>4, <4>1
        <5>3. /\ Before(g) = counts[g] - (IF g < i THEN Share(g) ELSE 0)
              /\ Before(h) = counts[h] - (IF h < i THEN Share(h) ELSE 0)
          BY <3>5
        <5>4. /\ counts'[g] = counts[g] + (IF g = i THEN r ELSE 0)
              /\ counts'[h] = counts[h] + (IF h = i THEN r ELSE 0)
          BY <3>2
        <5>5. h = i => r <= Share(h)
          BY <2>2, <3>1
        <5>6. g \in Nat /\ h \in Nat /\ i \in Nat
          BY <1>0
        <5> HIDE DEF Before, Share
        <5>7. QED BY <4>1, <5>1, <5>2, <5>3, <5>4, <5>5, <5>6
      <4>2. at' # "spread"
        BY <3>8
      <4>3. QED BY <2>1, <3>6, <4>1, <4>2 DEF FairInTurn
    <3>9. QED BY <2>2, <3>7, <3>8
  <2>5. QED BY <1>0, <2>3, <2>4
<1>5. CASE Select
  <2>1. /\ UNCHANGED <<weights, counts>> /\ at = "select" /\ at' # "spread"
        /\ at \notin Making
    BY <1>5 DEF Select, Making
  <2>2. QED BY <2>1 DEF FairInTurn, Weightless
<1>6. CASE UNCHANGED calcVars
  BY <1>6 DEF calcVars, FairInTurn, Weightless, Before, Share
<1>7. QED
  BY <1>1, <1>2, <1>3, <1>4, <1>5, <1>6 DEF CalcNext, Step, Terminating

-----------------------------------------------------------------------------
\* A host is selected as many nodes as it is counted.
LEMMA SelectedCountsKept ==
  ASSUME TypeOK, SeededInTurn, SelectedByCount, [CalcNext]_calcVars
  PROVE  SelectedByCount'
<1> USE DEF Hosts, H
<1>0. /\ i \in 1..(Len(weights) + 1) /\ l \in Nat /\ Len(weights) \in Nat
      /\ selected \in [1..Len(weights) -> SUBSET Nat]
  BY DEF TypeOK
<1>1. ASSUME at' = "select", i' = 1, weights' = weights
      PROVE  SelectedByCount'
  BY <1>0, <1>1 DEF SelectedByCount
<1>2. ASSUME at' \in Making
      PROVE  SelectedByCount'
  BY <1>2 DEF SelectedByCount
<1>3. CASE Start
  BY <1>1, <1>2, <1>3 DEF Start, Go, Making, SeededInTurn
<1>4. CASE Seed
  BY <1>1, <1>2, <1>4 DEF Seed, Go, Making
<1>5. CASE Remainder
  BY <1>1, <1>2, <1>5 DEF Remainder, Go, Making
<1>6. CASE Spread
  BY <1>1, <1>2, <1>6, SpreadStep DEF Making
<1>7. CASE Select
  <2>1. UNCHANGED <<weights, counts>> /\ at = "select" /\ at \notin Making
    BY <1>7 DEF Select, Making
  <2>2. CASE i > Len(weights) \/ i > Len(counts)
    BY <1>7, <2>1, <2>2 DEF Select, SelectedByCount
  <2>3. CASE ~(i > Len(weights) \/ i > Len(counts))
    <3>1. selected' = [selected EXCEPT ![i] = (l + 1)..(l + counts[i])] /\ i' = i + 1
      BY <1>7, <2>3 DEF Select
    <3>2. ASSUME NEW h \in 1..Len(weights), h < i'
          PROVE  \E m \in Nat : selected'[h] = (m + 1)..(m + counts[h])
      <4>1. CASE h = i
        BY <1>0, <3>1, <4>1
      <4>2. CASE h # i
        <5>1. h < i /\ selected'[h] = selected[h]
          BY <1>0, <3>1, <3>2, <4>2
        <5>2. QED BY <2>1, <5>1 DEF SelectedByCount
      <4>3. QED BY <4>1, <4>2
    <3>3. QED BY <2>1, <3>2 DEF SelectedByCount
  <2>4. QED BY <2>2, <2>3
<1>8. CASE UNCHANGED calcVars
  BY <1>8 DEF calcVars, SelectedByCount
<1>9. QED
  BY <1>3, <1>4, <1>5, <1>6, <1>7, <1>8 DEF CalcNext, Step, Terminating

\* Without weights nothing is counted until one host gets everything.
LEMMA WeightlessKept ==
  ASSUME TypeOK, TypeOK', SeededInTurn, OneWithoutWeights, [CalcNext]_calcVars
  PROVE  OneWithoutWeights'
<1> USE DEF Hosts, H
<1>0. n \in Nat /\ assigned \in Nat /\ sum \in Nat /\ i \in Nat /\ Len(weights) \in Nat
      /\ counts \in Seq(Nat) /\ weights' = weights /\ n' = n
  <2>1. weights' = weights /\ n' = n
    BY SpreadStep DEF CalcNext, Step, Start, Seed, Remainder, Select, Terminating, Go, calcVars
  <2>2. QED BY <2>1 DEF TypeOK
<1> SUFFICES ASSUME Weightless PROVE OneWithoutWeights'
  BY <1>0 DEF OneWithoutWeights, Weightless
<1>1. CASE Start
  <2>1. CASE n < 2
    BY <1>0, <1>1, <2>1 DEF Start, Go, OneWithoutWeights
  <2>2. CASE ~(n < 2)
    BY <1>0, <1>1, <2>2 DEF Start, Go, OneWithoutWeights, SeededInTurn, Making
  <2>3. QED BY <2>1, <2>2
<1>2. CASE Seed
  <2>1. weights[i] = 0
    BY <1>0, <1>2 DEF Seed, Weightless, TypeOK
  <2>2. UNCHANGED counts /\ at = "seed" /\ at' = "seed"
    BY <1>2, <2>1 DEF Seed, Go
  <2>3. QED BY <1>0, <2>2 DEF OneWithoutWeights, Making
<1>3. CASE Remainder
  <2>1. at = "seed" /\ assigned = 0 /\ n >= 2
    BY <1>0, <1>3 DEF Remainder, SeededInTurn, TypeOK
  <2>2. UNCHANGED counts /\ at' = "spread"
    BY <1>0, <1>3, <2>1 DEF Remainder, Go
  <2>3. QED BY <1>0, <2>1, <2>2 DEF OneWithoutWeights, Making
<1>4. CASE Spread
  <2>1. /\ at = "spread" /\ i \in 1..Len(weights) /\ n >= 2 /\ sum = 0 /\ assigned = 0
        /\ Len(counts) = Len(weights)
    BY <1>4, SpreadStep DEF SeededInTurn, TypeOK, Making
  <2>2. PICK j \in Shares(weights[i]), r \in Nat :
               /\ r <= j /\ counts' = [counts EXCEPT ![i] = @ + r]
               /\ \/ r = j /\ assigned + r < n /\ at' = "spread"
                  \/ assigned + r = n /\ at' = "select"
    BY <1>4, SpreadStep
  <2>3. j = 0 \/ j = n
    BY <2>1 DEF Shares
  <2>4. \A h \in 1..Len(weights) : counts[h] = 0
    BY <2>1 DEF OneWithoutWeights
  <2>5. \A h \in 1..Len(weights) : counts'[h] = IF h = i THEN r ELSE 0
    BY <1>0, <2>1, <2>2, <2>4
  <2>6. CASE at' = "spread"
    <3>1. r = 0
      BY <1>0, <2>1, <2>2, <2>3, <2>6
    <3>2. QED BY <1>0, <2>5, <2>6, <3>1 DEF OneWithoutWeights, Making
  <2>7. CASE at' = "select"
    <3>1. r = n
      BY <1>0, <2>1, <2>2, <2>7
    <3>2. \A h \in 1..Len(weights) : counts'[h] > 0 <=> h = i
      BY <1>0, <2>1, <2>5, <3>1
    <3>3. QED BY <1>0, <2>1, <2>7, <3>2 DEF OneWithoutWeights, Making
  <2>8. QED BY <2>2, <2>6, <2>7
<1>5. CASE Select
  <2>1. UNCHANGED counts /\ at = "select" /\ at' \in {"select", "done", "panic"}
    BY <1>5 DEF Select
  <2>2. QED BY <1>0, <2>1 DEF OneWithoutWeights, Making
<1>6. CASE UNCHANGED calcVars
  BY <1>6 DEF calcVars, OneWithoutWeights, Weightless
<1>7. QED
  BY <1>1, <1>2, <1>3, <1>4, <1>5, <1>6 DEF CalcNext, Step, Terminating

-----------------------------------------------------------------------------
\* The invariant of the spreading.
THEOREM SpreadInvariant == CalcSpec => []SpreadInv
<1>1. CalcInit => SpreadInv
  <2> SUFFICES ASSUME CalcInit PROVE SpreadInv
    OBVIOUS
  <2>1. PICK k \in 1..MaxHosts : weights \in [1..k -> 0..MaxWeight] /\ Descending(weights)
    BY DEF CalcInit
  <2>2. k \in Nat \ {0} /\ weights \in Seq(Nat) /\ Len(weights) = k
    BY <2>1
  <2>3. /\ n \in Nat /\ assigned = 0 /\ sum = 0 /\ i = 1 /\ l = 0 /\ at = "start"
        /\ counts = [h \in 1..k |-> 0] /\ selected = [h \in 1..k |-> {}]
    BY <2>2 DEF CalcInit, Hosts, H
  <2>4. counts \in Seq(Nat) /\ Len(counts) = k /\ \A h \in 1..k : counts[h] = 0
    BY <2>2, <2>3
  <2>5. TypeOK
    BY <2>1, <2>2, <2>3, <2>4 DEF TypeOK, Making, Hosts, H
  <2>6. CountsAddUp
    <3> DEFINE s == [h \in 0..k |-> 0]
    <3>1. s \in [0..Len(counts) -> Nat]
      BY <2>2, <2>4
    <3>2. AddUp(s, counts, 0)
      BY <2>2, <2>4 DEF AddUp
    <3>3. QED BY <2>3, <3>1, <3>2 DEF CountsAddUp, Making
  <2>7. SelectedInTurn
    BY <2>2, <2>3 DEF SelectedInTurn, Selected, Making, Hosts, H
  <2>8. SeededInTurn
    BY <2>2, <2>3, <2>4 DEF SeededInTurn, Hosts, H
  <2>9. FairInTurn
    BY <2>3 DEF FairInTurn, Making
  <2>10. SelectedByCount /\ OneWithoutWeights
    BY <2>3, <2>4, <2>2 DEF SelectedByCount, OneWithoutWeights, Making
  <2>11. QED BY <2>5, <2>6, <2>7, <2>8, <2>9, <2>10 DEF SpreadInv
<1>2. SpreadInv /\ [CalcNext]_calcVars => SpreadInv'
  <2> SUFFICES ASSUME SpreadInv, [CalcNext]_calcVars PROVE SpreadInv'
    OBVIOUS
  <2>1. TypeOK'
    BY TypesKept DEF SpreadInv
  <2>2. SelectedByCount' /\ OneWithoutWeights'
    BY <2>1, SelectedCountsKept, WeightlessKept DEF SpreadInv
  <2>3. QED BY <2>1, <2>2, SumsKept, SelectionKept, SeedsKept, FairnessKept DEF SpreadInv
<1>3. QED BY <1>1, <1>2, PTL DEF CalcSpec

\* At the end there is a count for every host.
LEMMA AllAreCounted ==
  ASSUME SpreadInv, at = "done"
  PROVE  /\ H \in Nat /\ at \notin Making /\ i = H + 1 /\ Len(counts) = H
         /\ \E s \in [0..Len(counts) -> Nat] : AddUp(s, counts, n) /\ l = s[H]
<1>1. i \in 1..(H + 1) /\ H \in Nat \ {0} /\ Len(counts) \in Nat
  BY DEF SpreadInv, TypeOK, H
<1>2. at \notin Making /\ i = H + 1
  BY <1>1 DEF Making, SpreadInv, SelectedInTurn
<1>3. PICK s \in [0..Len(counts) -> Nat] :
        AddUp(s, counts, n) /\ i <= Len(counts) + 1 /\ l = s[i - 1]
  BY <1>2 DEF SpreadInv, CountsAddUp
<1>4. Len(counts) = 1 \/ Len(counts) = H
  BY <1>2 DEF SpreadInv, TypeOK
<1>5. Len(counts) = H /\ i - 1 = H
  <2>1. i <= Len(counts) + 1
    BY <1>3
  <2>2. i - 1 = H
    BY <1>1, <1>2
  <2>3. H <= Len(counts)
    BY <1>1, <1>2, <2>1
  <2> HIDE DEF H
  <2>4. Len(counts) = 1 => H = 1
    BY <1>1, <2>3
  <2>5. QED BY <1>4, <2>2, <2>4
<1>6. QED BY <1>1, <1>2, <1>3, <1>5

\* The nodes selected are all of them, once.
LEMMA SpreadIsWhole ==
  ASSUME SpreadInv
  PROVE  EveryNodeOnOneHost
  <1>1. CASE at = "done"
    <2>1. PICK s \in [0..Len(counts) -> Nat] : AddUp(s, counts, n) /\ l = s[Len(counts)]
      BY <1>1, AllAreCounted
    <2>2. l = n
      BY <2>1 DEF AddUp
    <2>3. UNION {selected[h] : h \in Hosts} = 1..n
      BY <2>2 DEF SpreadInv, SelectedInTurn
    <2>4. \A g, h \in Hosts : g # h => selected[g] \cap selected[h] = {}
      BY DEF SpreadInv, SelectedInTurn
    <2>5. QED BY <1>1, <2>3, <2>4 DEF EveryNodeOnOneHost
  <1>2. CASE at = "panic"
    <2>1. at \notin Making /\ i <= H /\ i > Len(counts)
      BY <1>2 DEF Making, SpreadInv, SelectedInTurn
    <2>2. i \in 1..(H + 1) /\ H \in Nat /\ Len(counts) \in Nat
      BY DEF SpreadInv, TypeOK, H
    <2>3. Len(counts) # H
      BY <2>1, <2>2
    <2>4. n < 2 /\ Len(counts) = 1
      BY <2>1, <2>3 DEF SpreadInv, TypeOK
    <2>5. QED BY <1>2, <2>1, <2>2, <2>4 DEF EveryNodeOnOneHost
  <1>3. QED BY <1>1, <1>2 DEF EveryNodeOnOneHost

\* Every node is on one host, for every number of nodes and all weights.
THEOREM NodesAreSpread == CalcSpec => []EveryNodeOnOneHost
<1>1. SpreadInv => EveryNodeOnOneHost
  BY SpreadIsWhole
<1>2. QED BY <1>1, SpreadInvariant, PTL

\* The shares follow the weights, for every number of nodes and all weights.
THEOREM SharesAreFair == CalcSpec => []FairShares
<1>1. SpreadInv => FairShares
  <2> SUFFICES ASSUME SpreadInv, at = "done", NEW g \in Hosts, NEW h \in Hosts
               PROVE  /\ weights[g] > weights[h] => counts[g] >= counts[h]
                      /\ weights[h] > 0 /\ counts[g] > 1 => counts[h] > 0
                      /\ weights[h] = 0 /\ Selected(h) => Weightless
    BY DEF FairShares
  <2>0. H \in Nat /\ g \in Nat /\ h \in Nat /\ Len(counts) = H /\ at \notin Making
    BY AllAreCounted DEF Hosts
  <2>1. weights[g] \in Nat /\ weights[h] \in Nat /\ counts[g] \in Nat /\ counts[h] \in Nat
    BY <2>0, SortedWeights DEF SpreadInv, TypeOK, Hosts, H
  <2>2. CASE Weightless
    BY <2>1, <2>2 DEF Weightless
  <2>3. CASE ~Weightless
    <3>1. /\ counts[h] > 0 => weights[h] > 0
          /\ g < h => counts[g] >= counts[h]
          /\ weights[h] > 0 /\ counts[g] > 1 => counts[h] > 0
      BY <2>0, <2>3 DEF SpreadInv, FairInTurn
    <3>2. weights[g] > weights[h] => g < h
      BY <2>0, <2>1, SortedWeights DEF SpreadInv
    <3>3. Selected(h) => counts[h] > 0
      BY DEF SpreadInv, SelectedInTurn
    <3>4. QED BY <2>1, <3>1, <3>2, <3>3
  <2>4. QED BY <2>2, <2>3
<1>2. QED BY <1>1, SpreadInvariant, PTL

\* At the end every host has the nodes that are counted for it.
LEMMA SelectedAtTheEnd ==
  ASSUME SpreadInv, at = "done", NEW h \in Hosts
  PROVE  /\ counts[h] \in Nat
         /\ Selected(h) <=> counts[h] > 0
         /\ counts[h] <= 1 => \A x, y \in selected[h] : x = y
<1>1. H \in Nat /\ at \notin Making /\ i = H + 1 /\ Len(counts) = H
  BY AllAreCounted
<1>2. h < i
  BY <1>1 DEF Hosts
<1>3. counts[h] \in Nat
  BY <1>1, SortedWeights DEF SpreadInv, TypeOK, Hosts
<1>4. PICK m \in Nat : selected[h] = (m + 1)..(m + counts[h])
  BY <1>1, <1>2 DEF SpreadInv, SelectedByCount
<1>5. selected[h] # {} <=> counts[h] > 0
  <2>1. counts[h] > 0 => m + 1 \in selected[h]
    BY <1>3, <1>4
  <2>2. counts[h] = 0 => selected[h] = {}
    BY <1>4
  <2>3. QED BY <1>3, <2>1, <2>2
<1>6. counts[h] <= 1 => \A x, y \in selected[h] : x = y
  BY <1>3, <1>4
<1>7. QED BY <1>3, <1>5, <1>6 DEF Selected

\* There are no more hosts served than nodes, and no fewer if none is served two.
LEMMA ServedByNodes ==
  ASSUME SpreadInv, at = "done"
  PROVE  /\ IsFiniteSet(Served) /\ Cardinality(Served) \in Nat /\ Cardinality(Served) <= n
         /\ (\A h \in Hosts : counts[h] <= 1) => Cardinality(Served) = n
<1>1. n \in Nat /\ H \in Nat /\ IsFiniteSet(Hosts) /\ IsFiniteSet(1..n) /\ Cardinality(1..n) = n
  <2>1. n \in Nat /\ H \in Nat
    BY AllAreCounted DEF SpreadInv, TypeOK
  <2>2. QED BY <2>1, FS_Interval DEF Hosts
<1>2. /\ UNION {selected[h] : h \in Hosts} = 1..n
      /\ \A g, h \in Hosts : g # h => selected[g] \cap selected[h] = {}
  BY SpreadIsWhole DEF EveryNodeOnOneHost
<1>3. IsFiniteSet(Served)
  BY <1>1, FS_Subset DEF Served
<1>4. Cardinality(Served) <= n
  <2> DEFINE f == [h \in Served |-> CHOOSE x \in selected[h] : TRUE]
  <2>1. \A h \in Served : f[h] \in selected[h] /\ f[h] \in 1..n
    BY <1>2 DEF Served, Selected
  <2>2. \A g, h \in Served : f[g] = f[h] => g = h
    BY <1>2, <2>1 DEF Served
  <2>3. f \in Injection(Served, 1..n)
    BY <2>1, <2>2 DEF Injection, IsInjective
  <2>4. QED BY <1>1, <1>3, <2>3, FS_Injection
<1>5. ASSUME \A h \in Hosts : counts[h] <= 1 PROVE n <= Cardinality(Served)
  <2> DEFINE f == [x \in 1..n |-> CHOOSE h \in Hosts : x \in selected[h]]
  <2>1. \A x \in 1..n : f[x] \in Hosts /\ x \in selected[f[x]]
    BY <1>2
  <2>2. \A x \in 1..n : f[x] \in Served
    BY <2>1 DEF Served, Selected
  <2>3. \A x, y \in 1..n : f[x] = f[y] => x = y
    BY <1>5, <2>1, SelectedAtTheEnd
  <2>4. f \in Injection(1..n, Served)
    BY <2>2, <2>3 DEF Injection, IsInjective
  <2>5. QED BY <1>1, <1>3, <2>4, FS_Injection
<1>6. Cardinality(Served) \in Nat
  BY <1>3, FS_CardinalityType
<1>7. QED BY <1>1, <1>3, <1>4, <1>5, <1>6

\* The hosts that are given nodes are as many of those with a weight as there are nodes,
\* or one if none has a weight: what Design says of them (Chosen).
THEOREM ChosenHostsAreServed == CalcSpec => []HostsServed
<1>1. SpreadInv => HostsServed
  <2> SUFFICES ASSUME SpreadInv, at = "done"
               PROVE  IF n = 0 THEN Served = {}
                      ELSE IF Weighted = {} \/ n = 1 THEN Cardinality(Served) = 1
                      ELSE /\ Served \subseteq Weighted
                           /\ Cardinality(Served) = IF n < Cardinality(Weighted) THEN n
                                                    ELSE Cardinality(Weighted)
    BY DEF HostsServed
  <2>1. /\ H \in Nat /\ at \notin Making /\ Len(counts) = H /\ n \in Nat
        /\ \A h \in Hosts : weights[h] \in Nat
    BY AllAreCounted, SortedWeights DEF SpreadInv, TypeOK
  <2>2. /\ \A h \in Hosts : counts[h] \in Nat /\ (Selected(h) <=> counts[h] > 0)
        /\ Served = {h \in Hosts : counts[h] > 0}
    <3>1. \A h \in Hosts : counts[h] \in Nat /\ (Selected(h) <=> counts[h] > 0)
      BY SelectedAtTheEnd
    <3>2. QED BY <3>1 DEF Served
  <2>3. Weighted = {} <=> Weightless
    BY <2>1 DEF Weighted, Weightless
  <2>4. CASE n = 0
    <3>1. Cardinality(Served) = 0 /\ IsFiniteSet(Served)
      BY <2>4, ServedByNodes
    <3>2. QED BY <2>4, <3>1, FS_EmptySet
  <2>5. CASE n = 1
    <3>1. counts = <<1>>
      BY <2>1, <2>5 DEF SpreadInv, TypeOK
    <3>2. \A h \in Hosts : counts[h] <= 1
      BY <2>1, <3>1 DEF Hosts
    <3>3. QED BY <2>5, <3>2, ServedByNodes
  <2>6. CASE n >= 2 /\ Weightless
    <3>1. PICK g \in Hosts : \A h \in Hosts : counts[h] > 0 <=> h = g
      BY <2>1, <2>6 DEF SpreadInv, OneWithoutWeights
    <3>2. Served = {g}
      BY <2>2, <3>1
    <3>3. Cardinality(Served) = 1
      BY <3>2, FS_Singleton
    <3>4. QED BY <2>1, <2>3, <2>6, <3>3
  <2>7. CASE n >= 2 /\ ~Weightless
    <3>1. \A h \in Hosts : /\ counts[h] > 0 => weights[h] > 0
                           /\ \A g \in Hosts : weights[h] > 0 /\ counts[g] > 1 => counts[h] > 0
      BY <2>1, <2>7 DEF SpreadInv, FairInTurn
    <3>2. Served \subseteq Weighted
      BY <2>2, <3>1 DEF Weighted
    <3>3. /\ IsFiniteSet(Weighted) /\ Cardinality(Weighted) \in Nat
          /\ Cardinality(Served) <= Cardinality(Weighted)
      <4>1. IsFiniteSet(Hosts)
        BY <2>1, FS_Interval DEF Hosts
      <4>2. IsFiniteSet(Weighted)
        BY <4>1, FS_Subset DEF Weighted
      <4>3. QED BY <3>2, <4>2, FS_Subset, FS_CardinalityType
    <3>4. CASE \E g \in Hosts : counts[g] > 1
      <4>1. Served = Weighted
        BY <2>2, <3>1, <3>2, <3>4 DEF Weighted
      <4>2. QED BY <2>1, <2>3, <2>7, <4>1, ServedByNodes
    <3>5. CASE \A g \in Hosts : counts[g] <= 1
      <4>1. Cardinality(Served) = n
        BY <3>5, ServedByNodes
      <4>2. QED BY <2>1, <2>3, <2>7, <3>2, <3>3, <4>1
    <3>6. QED BY <2>2, <3>4, <3>5
  <2>8. QED BY <2>1, <2>4, <2>5, <2>6, <2>7
<1>2. QED BY <1>1, SpreadInvariant, PTL
=============================================================================
