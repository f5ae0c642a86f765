---------------------------- MODULE BootstrapProofs ----------------------------
(***************************************************************************)
(* What FabricBootstrap guarantees for any number of commands, resources   *)
(* and polls, and whichever listings are too long, proved with TLAPS.      *)
(***************************************************************************)
EXTENDS FabricBootstrap, TLAPS

-----------------------------------------------------------------------------
\* The invariant.

\* A creation Fabric has finished stays, under its id.
Known(id, kind) == \E r \in tenant : r.id = id /\ r.kind = kind /\ r.ready

\* No two resources have one id, and every item is in a workspace.
Tenancy ==
  /\ \A r, s \in tenant : r.id = s.id => r = s
  /\ \A r \in tenant : IF r.kind = "workspace" THEN r.ws = NoId
                       ELSE Known(r.ws, "workspace")

\* What the script works on and what Fabric updates is there until it ends.
IdsHeld ==
  /\ script.pc # "idle" => Known(script.id, "ontology")
  /\ \A u \in updating : Known(u[1], "ontology")

\* The kinds are resolved in turn.
InTurn ==
  /\ attempt.pc \in {"find", "create", "poll", "refind"} =>
       /\ attempt.kind = "workspace" <=> attempt.id["workspace"] = NoId
       /\ attempt.kind = "ontology" <=> attempt.id["lakehouse"] # NoId
       /\ attempt.id["ontology"] = NoId
  /\ attempt.pc = "capacity" =>
       /\ attempt.kind = "lakehouse" /\ attempt.id["workspace"] # NoId
       /\ attempt.id["lakehouse"] = NoId /\ attempt.id["ontology"] = NoId
  /\ attempt.pc \in {"define", "pollDefinition", "put", "append", "flush", "done"} =>
       \A k \in Kinds : attempt.id[k] # NoId

\* A workspace was there when its items were listed, and nobody deletes it while
\* the attempt runs.
Placed ==
  attempt.pc \in {"create", "poll", "refind"} /\ attempt.kind # "workspace" =>
    Known(attempt.id["workspace"], "workspace")

\* What a search by name cannot see is known to be there.
Hidden ==
  /\ \A r \in tenant : ~r.named => r.kind = "ontology" /\ "ontology" \in loose
  /\ \A r \in tenant : ~r.ready =>
       \/ r.kind \in loose
       \/ attempt.pc \in {"poll", "refind"} /\ attempt.target = r.id /\ attempt.kind = r.kind

\* Before a creation nothing of the name was found.
Searched ==
  attempt.pc = "create" =>
    \A r \in tenant : r.kind = attempt.kind /\ r.ws = attempt.id["workspace"] /\ r.named
                        => r.kind \in far \union loose

\* What was found or created is there, in the workspace of the attempt.
Joined ==
  \A k \in Kinds :
    /\ attempt.status[k] = "none" <=> attempt.id[k] = NoId
    /\ attempt.status[k] \in {"named", "created"} =>
         \E r \in tenant : /\ r.id = attempt.id[k] /\ r.kind = k /\ r.ready
                           /\ k = "workspace" \/ r.ws = attempt.id["workspace"]

Uploaded ==
  attempt.uploaded => /\ attempt.pc = "done" /\ Known(attempt.id["lakehouse"], "lakehouse")
                      /\ content[attempt.id["lakehouse"]] = "whole"

BootstrapInv ==
  /\ BootstrapTypeOK /\ Tenancy /\ IdsHeld /\ InTurn /\ Placed /\ Hidden /\ Searched
  /\ DuplicateIsExplained /\ Joined /\ Uploaded

-----------------------------------------------------------------------------
\* What happens to the tenant.

\* A new definition renames an ontology and changes nothing else of it.
LEMMA RenamedParts ==
  ASSUME tenant \subseteq Resource, NEW id, NEW what
  PROVE  /\ Renamed(id, what) \subseteq Resource
         /\ \A r \in tenant : \E s \in Renamed(id, what) :
              s.id = r.id /\ s.kind = r.kind /\ s.ws = r.ws /\ s.ready = r.ready
         /\ \A s \in Renamed(id, what) : \E r \in tenant :
              /\ s.id = r.id /\ s.kind = r.kind /\ s.ws = r.ws /\ s.ready = r.ready
              /\ r.id # id => s = r
              /\ r.id = id => s = [r EXCEPT !.named = (what = "business")]
PROOF
<1> DEFINE F(r) == IF r.id = id THEN [r EXCEPT !.named = (what = "business")] ELSE r
<1>1. ASSUME NEW r \in tenant
      PROVE  /\ F(r) \in Resource
             /\ F(r).id = r.id /\ F(r).kind = r.kind /\ F(r).ws = r.ws /\ F(r).ready = r.ready
  BY DEF Resource
<1>2. Renamed(id, what) = {F(r) : r \in tenant}
  BY DEF Renamed
<1>3. ASSUME NEW s \in Renamed(id, what)
      PROVE  \E r \in tenant :
              /\ s.id = r.id /\ s.kind = r.kind /\ s.ws = r.ws /\ s.ready = r.ready
              /\ r.id # id => s = r
              /\ r.id = id => s = [r EXCEPT !.named = (what = "business")]
  <2>1. PICK r \in tenant : s = F(r)
    BY <1>2
  <2> QED BY <1>1, <2>1
<1>4. ASSUME NEW r \in tenant
      PROVE  \E s \in Renamed(id, what) :
               s.id = r.id /\ s.kind = r.kind /\ s.ws = r.ws /\ s.ready = r.ready
  BY <1>1, <1>2
<1>5. Renamed(id, what) \subseteq Resource
  BY <1>1, <1>2
<1> QED BY <1>3, <1>4, <1>5

Creates == \E id \in NewIds, ready \in BOOLEAN :
  /\ attempt.pc = "create" /\ attempt'.pc # "create"
  /\ tenant' = tenant \union {Creation(attempt.kind, attempt.id["workspace"], id, ready)}
  /\ \/ ready \/ attempt.kind \in loose'
     \/ /\ attempt'.pc \in {"poll", "refind"}
        /\ attempt'.target = id /\ attempt'.kind = attempt.kind
Renames == \E id \in Ids, what \in {"business", "certification"} :
  Known(id, "ontology") /\ Apply(id, what)
Finishes == \E r \in tenant :
  /\ ~r.ready
  /\ \/ tenant' = (tenant \ {r}) \union {[r EXCEPT !.ready = TRUE]}
     \/ tenant' = tenant \ {r}
Deletes == \E w \in tenant :
  /\ w.kind = "workspace" /\ w.ready
  /\ tenant' = tenant \ {r \in tenant : r = w \/ r.ws = w.id}
  /\ attempt.pc \in {"idle", "done"} /\ attempt' = FreshAttempt
  /\ script.pc = "idle" /\ script' = script
  /\ \A u \in updating' : u \in updating /\ \A r \in tenant : u[1] = r.id => r \in tenant'

\* A step creates one resource, renames one, finishes one, deletes a workspace, or
\* none of these.
LEMMA TenantStep ==
  ASSUME BootstrapTypeOK, IdsHeld, InTurn, BootstrapNext
  PROVE  /\ tenant' = tenant \/ Creates \/ Renames \/ Finishes \/ Deletes
         /\ loose \subseteq loose' /\ far' = far
PROOF
<1>k. /\ Exists("ontology") => /\ Known(attempt.id["ontology"], "ontology")
                              /\ attempt.id["ontology"] \in Ids
      /\ script.pc = "apply" => Known(script.id, "ontology") /\ script.id \in Ids
  BY DEF IdsHeld, Known, Exists, BootstrapTypeOK, Resource
<1>1. CASE DryRun \/ Bootstrap \/ Die
  BY <1>1 DEF DryRun, Bootstrap, Die, LeaveBehind
<1>2. CASE UseConfigured \/ FindByName \/ PollCreation \/ FindCreated
  BY <1>2 DEF UseConfigured, FindByName, PollCreation, FindCreated, LeaveBehind
<1>3. CASE Create
  <2>1. CASE tenant' = tenant
    BY <1>3, <2>1 DEF Create
  <2>2. attempt.pc = "create" /\ loose \subseteq loose' /\ far' = far
    BY <1>3 DEF Create
  <2>3. CASE \E id \in NewIds, ready \in BOOLEAN :
          /\ tenant' = tenant \union
               {Creation(attempt.kind, attempt.id["workspace"], id, ready)}
          /\ \/ IF ready
                THEN Resolve(id, "created")
                ELSE \E pc \in {"poll", "refind"} :
                       attempt' = [attempt EXCEPT !.pc = pc, !.target = id]
             \/ /\ loose' = loose \union (IF ready THEN {} ELSE {attempt.kind})
                /\ attempt' = FreshAttempt
    <3>1. PICK id \in NewIds, ready \in BOOLEAN :
          /\ tenant' = tenant \union
               {Creation(attempt.kind, attempt.id["workspace"], id, ready)}
          /\ \/ IF ready
                THEN Resolve(id, "created")
                ELSE \E pc \in {"poll", "refind"} :
                       attempt' = [attempt EXCEPT !.pc = pc, !.target = id]
             \/ /\ loose' = loose \union (IF ready THEN {} ELSE {attempt.kind})
                /\ attempt' = FreshAttempt
      BY <2>3
    <3>2. SUFFICES /\ attempt'.pc # "create"
                   /\ \/ ready \/ attempt.kind \in loose'
                      \/ /\ attempt'.pc \in {"poll", "refind"}
                         /\ attempt'.target = id /\ attempt'.kind = attempt.kind
      BY <2>2, <3>1 DEF Creates
    <3>3. CASE attempt' = FreshAttempt
               /\ loose' = loose \union (IF ready THEN {} ELSE {attempt.kind})
      BY <3>3 DEF FreshAttempt
    <3>4. CASE ready /\ Resolve(id, "created")
      <4>1. attempt.kind \in {"workspace", "lakehouse", "ontology"}
        BY DEF BootstrapTypeOK, Kinds
      <4>2. AfterKind[attempt.kind].pc # "create"
        BY <4>1 DEF AfterKind, Kinds
      <4>3. attempt'.pc = AfterKind[attempt.kind].pc
        BY <3>4 DEF Resolve, BootstrapTypeOK
      <4> QED BY <3>4, <4>2, <4>3
    <3>5. CASE \E pc \in {"poll", "refind"} :
                 attempt' = [attempt EXCEPT !.pc = pc, !.target = id]
      BY <3>5 DEF BootstrapTypeOK
    <3> QED BY <3>1, <3>3, <3>4, <3>5
  <2> QED BY <1>3, <2>1, <2>2, <2>3 DEF Create, Stop
<1>4. CASE AssignCapacity \/ PollDefinition \/ UploadContent \/ EditDotenv
  BY <1>4 DEF AssignCapacity, PollDefinition, UploadContent, EditDotenv
<1>5. CASE DefineOntology
  <2>1. \/ tenant' = tenant /\ loose' = loose
        \/ Exists("ontology") /\ Apply(attempt.id["ontology"], "business")
    BY <1>5 DEF DefineOntology
  <2>2. far' = far
    BY <1>5 DEF DefineOntology
  <2> QED BY <1>k, <2>1, <2>2 DEF Renames, Apply
<1>6. CASE RunScript \/ BackUp \/ PollScript
  BY <1>6 DEF RunScript, BackUp, PollScript
<1>7. CASE ApplyDefinition
  <2>1. (tenant' = tenant /\ loose' = loose) \/ Apply(script.id, "certification")
    BY <1>7 DEF ApplyDefinition
  <2>2. script.pc = "apply" /\ far' = far
    BY <1>7 DEF ApplyDefinition
  <2> QED BY <1>k, <2>1, <2>2 DEF Renames, Apply
<1>8. CASE FinishCreation
  BY <1>8 DEF FinishCreation, Finishes
<1>9. CASE FinishUpdate
  <2>1. PICK u \in updating :
          (tenant' = tenant /\ loose' = loose) \/ Apply(u[1], u[2])
    BY <1>9 DEF FinishUpdate
  <2>2. /\ u[1] \in Ids /\ u[2] \in {"business", "certification"}
        /\ Known(u[1], "ontology") /\ far' = far
    BY <1>9 DEF FinishUpdate, BootstrapTypeOK, IdsHeld
  <2> QED BY <2>1, <2>2 DEF Renames, Apply
<1>10. CASE DeleteWorkspace
  <2>1. PICK w \in tenant :
          /\ w.kind = "workspace" /\ w.ready
          /\ tenant' = tenant \ {r \in tenant : r = w \/ r.ws = w.id}
          /\ updating' = {u \in updating :
               u[1] \notin {r.id : r \in {q \in tenant : q = w \/ q.ws = w.id}}}
    BY <1>10 DEF DeleteWorkspace
  <2>2. \A u \in updating' : u \in updating /\ \A r \in tenant : u[1] = r.id => r \in tenant'
    BY <2>1
  <2> QED BY <1>10, <2>1, <2>2 DEF DeleteWorkspace, Deletes, Quiet
<1> QED BY <1>1, <1>2, <1>3, <1>4, <1>5, <1>6, <1>7, <1>8, <1>9, <1>10 DEF BootstrapNext

\* What Fabric has finished stays, unless the operator deletes a workspace.
LEMMA Kept ==
  ASSUME BootstrapTypeOK, Tenancy, IdsHeld, InTurn, BootstrapNext, NEW r \in tenant, r.ready,
         ~Deletes
  PROVE  \E s \in tenant' : s.id = r.id /\ s.kind = r.kind /\ s.ws = r.ws /\ s.ready
PROOF
<1>1. CASE tenant' = tenant
  BY <1>1
<1>2. CASE Creates
  BY <1>2 DEF Creates
<1>3. CASE Renames
  <2>1. PICK id \in Ids, what \in {"business", "certification"} :
          tenant' = Renamed(id, what)
    BY <1>3 DEF Renames, Apply
  <2>2. tenant \subseteq Resource
    BY DEF BootstrapTypeOK
  <2>3. \A q \in tenant : \E s \in Renamed(id, what) :
          s.id = q.id /\ s.kind = q.kind /\ s.ws = q.ws /\ s.ready = q.ready
    BY <2>2, RenamedParts
  <2> QED BY <2>1, <2>3
<1>4. CASE Finishes
  BY <1>4 DEF Finishes
<1> QED BY <1>1, <1>2, <1>3, <1>4, TenantStep

\* Every resource was there before, or is the one created.
LEMMA Whence ==
  ASSUME BootstrapTypeOK, Tenancy, IdsHeld, InTurn, Hidden, BootstrapNext, NEW s \in tenant'
  PROVE  \/ \E r \in tenant :
              /\ s.id = r.id /\ s.kind = r.kind /\ s.ws = r.ws
              /\ r.ready => s.ready
              /\ s.named = r.named \/ (s.kind = "ontology" /\ "ontology" \in loose')
         \/ \E id \in NewIds, ready \in BOOLEAN :
              /\ attempt.pc = "create" /\ attempt'.pc # "create"
              /\ s = Creation(attempt.kind, attempt.id["workspace"], id, ready)
              /\ tenant' = tenant \union {s}
              /\ \/ ready \/ attempt.kind \in loose'
                 \/ /\ attempt'.pc \in {"poll", "refind"}
                    /\ attempt'.target = id /\ attempt'.kind = attempt.kind
PROOF
<1>1. CASE tenant' = tenant
  BY <1>1
<1>2. CASE Creates
  BY <1>2 DEF Creates
<1>3. CASE Renames
  <2>1. PICK id \in Ids, what \in {"business", "certification"} :
          /\ Known(id, "ontology") /\ tenant' = Renamed(id, what)
          /\ loose' = loose \union (IF what = "business" THEN {} ELSE {"ontology"})
    BY <1>3 DEF Renames, Apply
  <2>0. s \in Renamed(id, what) /\ tenant \subseteq Resource
    BY <2>1 DEF BootstrapTypeOK
  <2>2. PICK r \in tenant :
          /\ s.id = r.id /\ s.kind = r.kind /\ s.ws = r.ws /\ s.ready = r.ready
          /\ r.id # id => s = r
          /\ r.id = id => s = [r EXCEPT !.named = (what = "business")]
    BY <2>0, RenamedParts
  <2>3. CASE r.id # id
    BY <2>2, <2>3
  <2>4. CASE r.id = id
    <3>1. r.kind = "ontology"
      BY <2>1, <2>4 DEF Known, Tenancy
    <3>2. s.named = (what = "business")
      BY <2>2, <2>4 DEF BootstrapTypeOK, Resource
    <3>3. CASE what = "business" /\ r.named
      BY <2>2, <3>2, <3>3
    <3>4. CASE what = "business" /\ ~r.named
      <4>1. "ontology" \in loose'
        BY <2>1, <3>4 DEF Hidden
      <4> QED BY <2>2, <3>1, <4>1
    <3>5. CASE what = "certification"
      <4>1. "ontology" \in loose'
        BY <2>1, <3>5
      <4> QED BY <2>2, <3>1, <4>1
    <3> QED BY <3>3, <3>4, <3>5
  <2> QED BY <2>3, <2>4
<1>4. CASE Finishes
  <2>1. PICK r \in tenant :
          /\ ~r.ready
          /\ \/ tenant' = (tenant \ {r}) \union {[r EXCEPT !.ready = TRUE]}
             \/ tenant' = tenant \ {r}
    BY <1>4 DEF Finishes
  <2>2. CASE s \in tenant
    BY <2>2
  <2>3. CASE s = [r EXCEPT !.ready = TRUE]
    <3>1. s.id = r.id /\ s.kind = r.kind /\ s.ws = r.ws /\ s.ready /\ s.named = r.named
      BY <2>3 DEF BootstrapTypeOK, Resource
    <3> QED BY <3>1
  <2> QED BY <2>1, <2>2, <2>3
<1>5. CASE Deletes
  BY <1>5 DEF Deletes
<1> QED BY <1>1, <1>2, <1>3, <1>4, <1>5, TenantStep

-----------------------------------------------------------------------------
\* Types.

AnyId   == Ids \union {NoId, Elsewhere}
Attempt == [pc: {"idle", "find", "create", "poll", "refind", "capacity",
                 "define", "pollDefinition", "put", "append", "flush", "done"},
            kind: Kinds, id: [Kinds -> AnyId],
            status: [Kinds -> {"none", "configured", "named", "created"}],
            target: Ids \union {NoId}, polls: 0 .. Polls - 1,
            seeded: BOOLEAN, uploaded: BOOLEAN]
Script == [pc: {"idle", "backup", "apply", "poll"},
           id: Ids \union {NoId}, polls: 0 .. Polls - 1]

\* Both commands start afresh.
LEMMA FreshTyped == FreshAttempt \in Attempt /\ FreshScript \in Script
PROOF
<1>1. 0 \in 0 .. Polls - 1
  BY BootstrapAssumption
<1> QED BY <1>1 DEF FreshAttempt, FreshScript, Attempt, Script, Kinds, AnyId

\* Resolving a kind remembers its id and how it was resolved, and goes on.
LEMMA Resolved ==
  ASSUME BootstrapTypeOK, NEW id \in Ids \union {Elsewhere},
         NEW status \in {"configured", "named", "created"}, Resolve(id, status)
  PROVE  /\ attempt' \in Attempt
         /\ attempt'.id = [attempt.id EXCEPT ![attempt.kind] = id]
         /\ attempt'.status = [attempt.status EXCEPT ![attempt.kind] = status]
         /\ attempt'.target = NoId /\ attempt'.uploaded = attempt.uploaded
         /\ attempt'.pc \in {"capacity", "find", "define"}
         /\ attempt.kind = "workspace" =>
              attempt'.pc = "capacity" /\ attempt'.kind = "lakehouse"
         /\ attempt.kind = "lakehouse" =>
              attempt'.pc = "find" /\ attempt'.kind = "ontology"
         /\ attempt.kind = "ontology" =>
              attempt'.pc = "define" /\ attempt'.kind = "ontology"
PROOF
<1>1. /\ AfterKind["workspace"] = [pc |-> "capacity", kind |-> "lakehouse"]
      /\ AfterKind["lakehouse"] = [pc |-> "find", kind |-> "ontology"]
      /\ AfterKind["ontology"] = [pc |-> "define", kind |-> "ontology"]
  BY DEF AfterKind
<1>2. /\ attempt \in Attempt
      /\ attempt.kind \in {"workspace", "lakehouse", "ontology"}
      /\ attempt.id \in [Kinds -> AnyId]
      /\ attempt.status \in [Kinds -> {"none", "configured", "named", "created"}]
      /\ attempt.seeded \in BOOLEAN /\ attempt.uploaded \in BOOLEAN
  BY DEF BootstrapTypeOK, Attempt, Kinds, AnyId
<1>3. /\ [attempt.id EXCEPT ![attempt.kind] = id] \in [Kinds -> AnyId]
      /\ [attempt.status EXCEPT ![attempt.kind] = status]
           \in [Kinds -> {"none", "configured", "named", "created"}]
  BY <1>2 DEF AnyId
<1>4. attempt' = [pc |-> AfterKind[attempt.kind].pc, kind |-> AfterKind[attempt.kind].kind,
                  id |-> [attempt.id EXCEPT ![attempt.kind] = id],
                  status |-> [attempt.status EXCEPT ![attempt.kind] = status],
                  target |-> NoId, polls |-> 0,
                  seeded |-> attempt.seeded, uploaded |-> attempt.uploaded]
  BY <1>2 DEF Resolve, Attempt
<1>5. 0 \in 0 .. Polls - 1 /\ NoId \in Ids \union {NoId}
  BY BootstrapAssumption
<1>6. CASE attempt.kind = "workspace"
  <2>1. attempt' = [pc |-> "capacity", kind |-> "lakehouse",
                    id |-> [attempt.id EXCEPT ![attempt.kind] = id],
                    status |-> [attempt.status EXCEPT ![attempt.kind] = status],
                    target |-> NoId, polls |-> 0,
                    seeded |-> attempt.seeded, uploaded |-> attempt.uploaded]
    BY <1>1, <1>4, <1>6
  <2> QED BY <1>2, <1>3, <1>5, <1>6, <2>1 DEF Attempt, Kinds
<1>7. CASE attempt.kind = "lakehouse"
  <2>1. attempt' = [pc |-> "find", kind |-> "ontology",
                    id |-> [attempt.id EXCEPT ![attempt.kind] = id],
                    status |-> [attempt.status EXCEPT ![attempt.kind] = status],
                    target |-> NoId, polls |-> 0,
                    seeded |-> attempt.seeded, uploaded |-> attempt.uploaded]
    BY <1>1, <1>4, <1>7
  <2> QED BY <1>2, <1>3, <1>5, <1>7, <2>1 DEF Attempt, Kinds
<1>8. CASE attempt.kind = "ontology"
  <2>1. attempt' = [pc |-> "define", kind |-> "ontology",
                    id |-> [attempt.id EXCEPT ![attempt.kind] = id],
                    status |-> [attempt.status EXCEPT ![attempt.kind] = status],
                    target |-> NoId, polls |-> 0,
                    seeded |-> attempt.seeded, uploaded |-> attempt.uploaded]
    BY <1>1, <1>4, <1>8
  <2> QED BY <1>2, <1>3, <1>5, <1>8, <2>1 DEF Attempt, Kinds
<1> QED BY <1>2, <1>6, <1>7, <1>8

\* The number of polls stays below its bound.
LEMMA PollsBounded ==
  ASSUME NEW n \in 0 .. Polls - 1
  PROVE  /\ 0 \in 0 .. Polls - 1
         /\ PollsLeft(n) => n + 1 \in 0 .. Polls - 1
PROOF BY BootstrapAssumption DEF PollsLeft

\* What is created, and what is finished, is a resource.
LEMMA TenantTyped ==
  ASSUME BootstrapTypeOK, IdsHeld, InTurn, Placed, BootstrapNext
  PROVE  tenant' \subseteq Resource
PROOF
<1>0. tenant \subseteq Resource
  BY DEF BootstrapTypeOK
<1>1. CASE tenant' = tenant
  BY <1>0, <1>1
<1>2. CASE Creates
  <2>1. PICK id \in NewIds, ready \in BOOLEAN :
          tenant' = tenant \union {Creation(attempt.kind, attempt.id["workspace"], id, ready)}
    BY <1>2 DEF Creates
  <2>2. attempt.kind \in Kinds /\ attempt.id["workspace"] \in Ids \union {NoId} /\ id \in Ids
    BY <1>2 DEF Creates, BootstrapTypeOK, Kinds, NewIds, InTurn, Placed, Known, Resource
  <2>3. Creation(attempt.kind, attempt.id["workspace"], id, ready) \in Resource
    BY <2>2 DEF Creation, Resource
  <2> QED BY <1>0, <2>1, <2>3
<1>3. CASE Renames
  <2>1. PICK id \in Ids, what \in {"business", "certification"} :
          tenant' = Renamed(id, what)
    BY <1>3 DEF Renames, Apply
  <2>2. Renamed(id, what) \subseteq Resource
    BY <1>0, RenamedParts
  <2> QED BY <2>1, <2>2
<1>4. CASE Finishes
  <2>1. PICK r \in tenant : \/ tenant' = (tenant \ {r}) \union {[r EXCEPT !.ready = TRUE]}
                            \/ tenant' = tenant \ {r}
    BY <1>4 DEF Finishes
  <2>2. [r EXCEPT !.ready = TRUE] \in Resource
    BY <1>0 DEF Resource
  <2> QED BY <1>0, <2>1, <2>2
<1>5. CASE Deletes
  BY <1>0, <1>5 DEF Deletes
<1> QED BY <1>1, <1>2, <1>3, <1>4, <1>5, TenantStep

\* What the search by name finds is a finished resource of the kind and place.
LEMMA FoundParts ==
  ASSUME BootstrapTypeOK, NEW r \in Found(attempt.kind)
  PROVE  /\ r \in tenant /\ r.kind = attempt.kind /\ r.ready /\ r.named /\ r.id \in Ids
         /\ attempt.kind # "workspace" => r.ws = attempt.id["workspace"]
PROOF BY DEF Found, Listed, BootstrapTypeOK, Resource

-----------------------------------------------------------------------------
\* What happens to the running command.

\* The command goes on with the kind and the ids it has.
Onward == {<<"find", "create">>, <<"create", "poll">>, <<"create", "refind">>,
           <<"poll", "poll">>, <<"poll", "refind">>, <<"capacity", "find">>,
           <<"define", "put">>, <<"define", "pollDefinition">>,
           <<"pollDefinition", "pollDefinition">>, <<"pollDefinition", "put">>,
           <<"put", "append">>, <<"append", "flush">>}
GoesOn == /\ <<attempt.pc, attempt'.pc>> \in Onward
          /\ attempt'.kind = attempt.kind /\ attempt'.id = attempt.id
          /\ attempt'.status = attempt.status /\ attempt'.uploaded = attempt.uploaded
          /\ attempt.pc = "poll" => attempt'.target = attempt.target
Ends == /\ attempt.pc \in {"put", "append", "flush"} /\ attempt'.pc = "done"
        /\ attempt'.kind = attempt.kind /\ attempt'.id = attempt.id
        /\ attempt'.status = attempt.status
Begins == attempt' \in {FreshAttempt, [FreshAttempt EXCEPT !.pc = "find"]}
Obtained(id) == \E s \in tenant' :
  /\ s.id = id /\ s.kind = attempt.kind /\ s.ready
  /\ attempt.kind = "workspace" \/ s.ws = attempt.id["workspace"]
Resolves == /\ attempt.pc \in {"find", "create", "refind"}
            /\ \E id \in Ids \union {Elsewhere}, status \in {"configured", "named", "created"} :
                 /\ Resolve(id, status)
                 /\ status # "configured" => Obtained(id)

\* Every step of the command keeps its type, and is one of these.
LEMMA AttemptStep ==
  ASSUME BootstrapTypeOK, BootstrapNext
  PROVE  /\ attempt' \in Attempt
         /\ attempt' = attempt \/ GoesOn \/ Ends \/ Begins \/ Resolves
PROOF
<1> DEFINE Goal == /\ attempt' \in Attempt
                   /\ attempt' = attempt \/ GoesOn \/ Ends \/ Begins \/ Resolves
<1>t. /\ attempt \in Attempt /\ attempt.polls \in 0 .. Polls - 1
      /\ attempt.kind \in Kinds /\ attempt.id \in [Kinds -> AnyId]
  BY DEF BootstrapTypeOK, Attempt, AnyId
<1>r. ASSUME NEW id \in Ids \union {Elsewhere}, NEW status \in {"configured", "named", "created"},
             Resolve(id, status), status # "configured" => Obtained(id),
             attempt.pc \in {"find", "create", "refind"}
      PROVE  Goal
  BY <1>r, Resolved DEF Resolves
<1>f. ASSUME attempt' = FreshAttempt PROVE Goal
  BY <1>f, FreshTyped DEF Begins
<1>1. CASE UNCHANGED attempt
  BY <1>t, <1>1
<1>2. CASE Bootstrap
  <2>1. [FreshAttempt EXCEPT !.pc = "find"] \in Attempt
        /\ [FreshAttempt EXCEPT !.pc = "idle"] = FreshAttempt
    <3>1. \A a \in Attempt : [a EXCEPT !.pc = "find"] \in Attempt
      BY DEF Attempt
    <3>2. \A a \in Attempt : a.pc = "idle" => [a EXCEPT !.pc = "idle"] = a
      BY DEF Attempt
    <3>3. FreshAttempt.pc = "idle"
      BY DEF FreshAttempt
    <3> QED BY <3>1, <3>2, <3>3, FreshTyped
  <2> QED BY <1>2, <2>1, FreshTyped DEF Bootstrap, Begins
<1>3. CASE Die
  BY <1>f, <1>3 DEF Die
<1>4. CASE UseConfigured
  <2>1. dotenv[attempt.kind] \in Ids \union {Elsewhere}
    BY <1>t, <1>4 DEF UseConfigured, BootstrapTypeOK
  <2> QED BY <1>r, <1>4, <2>1 DEF UseConfigured
<1>5. CASE FindByName
  <2>1. CASE \E r \in Found(attempt.kind) : Resolve(r.id, "named")
    <3>1. PICK r \in Found(attempt.kind) : Resolve(r.id, "named")
      BY <2>1
    <3>2. r.id \in Ids /\ Obtained(r.id)
      BY <1>5, FoundParts DEF FindByName, Obtained
    <3> QED BY <1>r, <1>5, <3>1, <3>2 DEF FindByName
  <2>2. CASE attempt' = [attempt EXCEPT !.pc = "create"]
    BY <1>t, <1>5, <2>2 DEF FindByName, Attempt, GoesOn, Onward
  <2>3. CASE Stop
    BY <1>f, <2>3 DEF Stop
  <2> QED BY <1>5, <2>1, <2>2, <2>3 DEF FindByName
<1>6. CASE Create
  <2>1. CASE attempt' = FreshAttempt
    BY <1>f, <2>1
  <2>2. CASE \E id \in NewIds :
               /\ Resolve(id, "created")
               /\ tenant' = tenant \union
                    {Creation(attempt.kind, attempt.id["workspace"], id, TRUE)}
    <3>1. PICK id \in NewIds :
            /\ Resolve(id, "created")
            /\ tenant' = tenant \union
                 {Creation(attempt.kind, attempt.id["workspace"], id, TRUE)}
      BY <2>2
    <3>2. PICK s \in tenant' :
            s = Creation(attempt.kind, attempt.id["workspace"], id, TRUE)
      BY <3>1
    <3>3. s.id = id /\ s.kind = attempt.kind /\ s.ready /\ s.ws = attempt.id["workspace"]
      BY <3>2 DEF Creation
    <3>4. id \in Ids /\ Obtained(id)
      BY <3>3 DEF NewIds, Obtained
    <3> QED BY <1>r, <1>6, <3>1, <3>4 DEF Create
  <2>3. CASE \E id \in Ids, pc \in {"poll", "refind"} :
               attempt' = [attempt EXCEPT !.pc = pc, !.target = id]
    <3>1. PICK id \in Ids, pc \in {"poll", "refind"} :
            attempt' = [attempt EXCEPT !.pc = pc, !.target = id]
      BY <2>3
    <3>2. attempt' \in Attempt
      BY <1>t, <3>1 DEF Attempt
    <3>3. GoesOn
      BY <1>t, <1>6, <3>1 DEF Create, Attempt, GoesOn, Onward
    <3> QED BY <3>2, <3>3
  <2>4. \/ attempt' = FreshAttempt
        \/ \E id \in NewIds :
             \/ /\ Resolve(id, "created")
                /\ tenant' = tenant \union
                     {Creation(attempt.kind, attempt.id["workspace"], id, TRUE)}
             \/ \E pc \in {"poll", "refind"} :
                  attempt' = [attempt EXCEPT !.pc = pc, !.target = id]
    BY <1>6 DEF Create, Stop
  <2> QED BY <2>1, <2>2, <2>3, <2>4 DEF NewIds
<1>7. CASE PollCreation
  <2>1. CASE PollsLeft(attempt.polls) /\ attempt' = [attempt EXCEPT !.polls = @ + 1]
    <3>1. attempt.polls + 1 \in 0 .. Polls - 1
      BY <1>t, <2>1, PollsBounded
    <3> QED BY <1>t, <1>7, <2>1, <3>1 DEF PollCreation, Attempt, GoesOn, Onward
  <2>2. CASE attempt' = [attempt EXCEPT !.pc = "refind"]
    BY <1>t, <1>7, <2>2 DEF PollCreation, Attempt, GoesOn, Onward
  <2>3. CASE Stop
    BY <1>f, <2>3 DEF Stop
  <2> QED BY <1>7, <2>1, <2>2, <2>3 DEF PollCreation
<1>8. CASE FindCreated
  <2>1. CASE \E r \in Found(attempt.kind) : Resolve(r.id, "created")
    <3>1. PICK r \in Found(attempt.kind) : Resolve(r.id, "created")
      BY <2>1
    <3>2. r.id \in Ids /\ Obtained(r.id)
      BY <1>8, FoundParts DEF FindCreated, Obtained
    <3> QED BY <1>r, <1>8, <3>1, <3>2 DEF FindCreated
  <2>2. CASE Stop
    BY <1>f, <2>2 DEF Stop
  <2> QED BY <1>8, <2>1, <2>2 DEF FindCreated
<1>9. CASE AssignCapacity
  BY <1>t, <1>9 DEF AssignCapacity, Attempt, GoesOn, Onward
<1>10. CASE DefineOntology
  <2>1. PICK pc \in {"put", "pollDefinition"}, seeded \in BOOLEAN :
          attempt' = [attempt EXCEPT !.pc = pc, !.seeded = seeded]
    BY <1>10 DEF DefineOntology
  <2> QED BY <1>t, <1>10, <2>1 DEF DefineOntology, Attempt, GoesOn, Onward
<1>11. CASE PollDefinition
  <2>1. CASE PollsLeft(attempt.polls) /\ attempt' = [attempt EXCEPT !.polls = @ + 1]
    <3>1. attempt.polls + 1 \in 0 .. Polls - 1
      BY <1>t, <2>1, PollsBounded
    <3> QED BY <1>t, <1>11, <2>1, <3>1 DEF PollDefinition, Attempt, GoesOn, Onward
  <2>2. CASE \/ attempt' = [attempt EXCEPT !.pc = "put", !.seeded = TRUE]
             \/ attempt' = [attempt EXCEPT !.pc = "put"]
    BY <1>t, <1>11, <2>2 DEF PollDefinition, Attempt, GoesOn, Onward
  <2> QED BY <1>11, <2>1, <2>2 DEF PollDefinition
<1>12. CASE UploadContent
  <2>1. CASE \E uploaded \in BOOLEAN :
               attempt' = [attempt EXCEPT !.pc = "done", !.uploaded = uploaded]
    BY <1>t, <1>12, <2>1 DEF UploadContent, Attempt, Ends
  <2>2. CASE \/ attempt.pc = "put" /\ attempt' = [attempt EXCEPT !.pc = "append"]
             \/ attempt.pc = "append" /\ attempt' = [attempt EXCEPT !.pc = "flush"]
    BY <1>t, <2>2 DEF Attempt, GoesOn, Onward
  <2> QED BY <1>12, <2>1, <2>2 DEF UploadContent, Finish
<1>13. CASE DeleteWorkspace
  BY <1>f, <1>13 DEF DeleteWorkspace
<1> QED BY <1>1, <1>2, <1>3, <1>4, <1>5, <1>6, <1>7, <1>8, <1>9, <1>10, <1>11, <1>12, <1>13
        DEF BootstrapNext, DryRun, EditDotenv, RunScript, BackUp, ApplyDefinition, PollScript,
            FinishCreation, FinishUpdate

-----------------------------------------------------------------------------
\* Types of the rest.

\* Only the operator edits .env.
LEMMA DotenvFrame ==
  ASSUME BootstrapNext
  PROVE  dotenv' = dotenv \/ EditDotenv
PROOF BY DEF BootstrapNext, DryRun, Bootstrap, Die, UseConfigured, FindByName, Create,
         PollCreation, FindCreated, AssignCapacity, DefineOntology, PollDefinition, UploadContent,
         DeleteWorkspace, RunScript, BackUp, ApplyDefinition, PollScript, FinishCreation,
         FinishUpdate

\* Only the ontology script moves itself.
LEMMA ScriptFrame ==
  ASSUME BootstrapNext
  PROVE  script' = script \/ RunScript \/ BackUp \/ ApplyDefinition \/ PollScript
PROOF BY DEF BootstrapNext, DryRun, Bootstrap, Die, UseConfigured, FindByName, Create,
         PollCreation, FindCreated, AssignCapacity, DefineOntology, PollDefinition, UploadContent,
         EditDotenv, DeleteWorkspace, FinishCreation, FinishUpdate

\* Definitions are written by a bootstrap, by the script, or by Fabric, and go with
\* their workspace.
LEMMA DefinitionFrame ==
  ASSUME BootstrapNext
  PROVE  \/ definition' = definition /\ updating' = updating
         \/ DefineOntology \/ ApplyDefinition \/ FinishUpdate \/ DeleteWorkspace
PROOF BY DEF BootstrapNext, DryRun, Bootstrap, Die, UseConfigured, FindByName, Create,
         PollCreation, FindCreated, AssignCapacity, PollDefinition, UploadContent,
         EditDotenv, RunScript, BackUp, PollScript, FinishCreation

\* Only the upload writes the content of a lakehouse, and it goes with the workspace.
LEMMA ContentFrame ==
  ASSUME BootstrapNext
  PROVE  content' = content \/ UploadContent \/ DeleteWorkspace
PROOF BY DEF BootstrapNext, DryRun, Bootstrap, Die, UseConfigured, FindByName, Create,
         PollCreation, FindCreated, AssignCapacity, DefineOntology, PollDefinition,
         EditDotenv, RunScript, BackUp, ApplyDefinition, PollScript, FinishCreation, FinishUpdate

\* Commands are counted when they begin.
LEMMA AttemptsFrame ==
  ASSUME BootstrapNext
  PROVE  attempts' = attempts \/ (Quiet /\ attempts' = attempts + 1)
PROOF BY DEF BootstrapNext, DryRun, Bootstrap, Die, UseConfigured, FindByName, Create,
         PollCreation, FindCreated, AssignCapacity, DefineOntology, PollDefinition, UploadContent,
         EditDotenv, DeleteWorkspace, RunScript, BackUp, ApplyDefinition, PollScript,
         FinishCreation, FinishUpdate

\* What cannot be found is left behind by an attempt, or renamed by an update.
LEMMA LooseFrame ==
  ASSUME BootstrapNext
  PROVE  loose' \in {loose, loose \union {attempt.kind}, loose \union {"ontology"}}
PROOF
<1>1. CASE Die \/ PollCreation \/ FindCreated \/ Create
  <2>1. loose \union {} = loose
    OBVIOUS
  <2> QED BY <1>1, <2>1 DEF Die, PollCreation, FindCreated, Create, LeaveBehind
<1>2. CASE DefineOntology \/ ApplyDefinition \/ FinishUpdate
  <2>1. loose \union {} = loose
    OBVIOUS
  <2> QED BY <1>2, <2>1 DEF DefineOntology, ApplyDefinition, FinishUpdate, Apply
<1> QED BY <1>1, <1>2
    DEF BootstrapNext, DryRun, Bootstrap, UseConfigured, FindByName,
        AssignCapacity, PollDefinition, UploadContent,
        EditDotenv, DeleteWorkspace, RunScript, BackUp, PollScript, FinishCreation

\* The script keeps its type.
LEMMA ScriptTyped ==
  ASSUME BootstrapTypeOK, BootstrapNext
  PROVE  script' \in Script
PROOF
<1>t. script \in Script /\ script.polls \in 0 .. Polls - 1 /\ FreshScript \in Script
  BY FreshTyped DEF BootstrapTypeOK, Script
<1>z. 0 \in 0 .. Polls - 1
  BY BootstrapAssumption
<1>1. CASE RunScript
  <2>1. PICK r \in tenant : script' = [FreshScript EXCEPT !.pc = "backup", !.id = r.id]
    BY <1>1 DEF RunScript
  <2>2. r.id \in Ids
    BY <2>1 DEF BootstrapTypeOK, Resource
  <2> QED BY <1>t, <2>1, <2>2 DEF Script
<1>2. CASE BackUp
  BY <1>t, <1>2 DEF BackUp, Script
<1>3. CASE ApplyDefinition
  <2>1. script' \in {FreshScript, [script EXCEPT !.pc = "poll", !.polls = 0]}
    BY <1>3 DEF ApplyDefinition
  <2> QED BY <1>t, <1>z, <2>1 DEF Script
<1>4. CASE PollScript
  <2>1. CASE PollsLeft(script.polls) /\ script' = [script EXCEPT !.polls = @ + 1]
    <3>1. script.polls + 1 \in 0 .. Polls - 1
      BY <1>t, <2>1, PollsBounded
    <3> QED BY <1>t, <2>1, <3>1 DEF Script
  <2>2. CASE script' = FreshScript
    BY <1>t, <2>2
  <2> QED BY <1>4, <2>1, <2>2 DEF PollScript
<1> QED BY <1>t, <1>1, <1>2, <1>3, <1>4, ScriptFrame

Update == Ids \X {"business", "certification"} \X {"running", "failed"}

\* A definition that is asked for is applied, goes on, or nothing happens.
Defines(id, what) ==
  \/ definition' = definition /\ updating' = updating
  \/ Apply(id, what) /\ updating' = updating
  \/ Accept(id, what) /\ definition' = definition

\* Ontologies and their updates keep their types.
LEMMA DefinitionTyped ==
  ASSUME BootstrapTypeOK, IdsHeld, InTurn, BootstrapNext
  PROVE  /\ definition' \in [Ids -> {"none", "business", "certification"}]
         /\ updating' \subseteq Update
PROOF
<1>t. /\ definition \in [Ids -> {"none", "business", "certification"}]
      /\ updating \subseteq Update
  BY DEF BootstrapTypeOK, Update
<1>d. ASSUME NEW id \in Ids, NEW what \in {"business", "certification"}, Defines(id, what)
      PROVE  /\ definition' \in [Ids -> {"none", "business", "certification"}]
             /\ updating' \subseteq Update
  <2>1. CASE Apply(id, what) /\ updating' = updating
    BY <1>t, <2>1 DEF Apply
  <2>2. CASE Accept(id, what) /\ definition' = definition
    <3>1. <<id, what, "running">> \in Update
      BY DEF Update
    <3> QED BY <1>t, <2>2, <3>1 DEF Accept
  <2> QED BY <1>t, <1>d, <2>1, <2>2 DEF Defines
<1>1. CASE DefineOntology
  <2>1. CASE definition' = definition /\ updating' = updating
    BY <1>t, <2>1
  <2>2. CASE Exists("ontology")
    <3>1. attempt.id["ontology"] \in Ids
      BY <2>2 DEF Exists, BootstrapTypeOK, Resource
    <3>2. Defines(attempt.id["ontology"], "business")
      BY <1>1 DEF DefineOntology, Defines
    <3> QED BY <1>d, <3>1, <3>2
  <2> QED BY <1>1, <2>1, <2>2 DEF DefineOntology
<1>2. CASE ApplyDefinition
  <2>1. script.id \in Ids
    BY <1>2 DEF ApplyDefinition, IdsHeld, Known, BootstrapTypeOK, Resource
  <2>2. Defines(script.id, "certification")
    BY <1>2 DEF ApplyDefinition, Defines
  <2> QED BY <1>d, <2>1, <2>2
<1>3. CASE FinishUpdate
  <2>1. PICK u \in updating :
          \/ updating' = updating \ {u} /\ Apply(u[1], u[2])
          \/ /\ updating' = (updating \ {u}) \union {<<u[1], u[2], "failed">>}
             /\ definition' = definition
    BY <1>3 DEF FinishUpdate
  <2>2. u[1] \in Ids /\ u[2] \in {"business", "certification"}
    BY <1>t DEF Update
  <2>3. <<u[1], u[2], "failed">> \in Update
    BY <2>2 DEF Update
  <2>4. CASE updating' = updating \ {u} /\ Apply(u[1], u[2])
    BY <1>t, <2>2, <2>4 DEF Apply
  <2>5. CASE /\ updating' = (updating \ {u}) \union {<<u[1], u[2], "failed">>}
             /\ definition' = definition
    BY <1>t, <2>3, <2>5
  <2> QED BY <2>1, <2>4, <2>5
<1>4. CASE DeleteWorkspace
  BY <1>t, <1>4 DEF DeleteWorkspace
<1> QED BY <1>t, <1>1, <1>2, <1>3, <1>4, DefinitionFrame

\* Every step keeps the types.
LEMMA TypeStep ==
  ASSUME BootstrapTypeOK, IdsHeld, InTurn, Placed, BootstrapNext
  PROVE  BootstrapTypeOK'
PROOF
<1>1. tenant' \subseteq Resource /\ attempt' \in Attempt /\ script' \in Script
  BY TenantTyped, AttemptStep, ScriptTyped
<1>2. /\ definition' \in [Ids -> {"none", "business", "certification"}]
      /\ updating' \subseteq Update
  BY DefinitionTyped
<1>3. far' \subseteq Kinds
  BY TenantStep DEF BootstrapTypeOK
<1>4. dotenv' \in [Kinds -> AnyId]
  <2>1. CASE EditDotenv
    BY <2>1 DEF EditDotenv, BootstrapTypeOK, AnyId
  <2> QED BY <2>1, DotenvFrame DEF BootstrapTypeOK, AnyId
<1>5. content' \in [Ids -> {"absent", "empty", "whole"}]
  <2>1. CASE UploadContent
    BY <2>1 DEF UploadContent, BootstrapTypeOK
  <2>2. CASE DeleteWorkspace
    <3>1. PICK ids : content' = [i \in Ids |-> IF i \in ids THEN "absent" ELSE content[i]]
      BY <2>2 DEF DeleteWorkspace
    <3> QED BY <3>1 DEF BootstrapTypeOK
  <2> QED BY <2>1, <2>2, ContentFrame DEF BootstrapTypeOK
<1>6. attempts' \in 0 .. MaxAttempts
  <2>1. attempts \in 0 .. MaxAttempts /\ MaxAttempts \in Nat
    BY BootstrapAssumption DEF BootstrapTypeOK
  <2>2. attempts' = attempts \/ (attempts < MaxAttempts /\ attempts' = attempts + 1)
    BY AttemptsFrame DEF Quiet
  <2> QED BY <2>1, <2>2
<1>7. report' \in {"none", "dry run", "stopped", "completed"}
  <2>1. report' \in {report, "dry run", "stopped", "completed"}
    BY DEF BootstrapNext, DryRun, Bootstrap, ExportSeed, Die, UseConfigured,
           FindByName, Stop, Create, PollCreation, FindCreated, AssignCapacity, DefineOntology,
           PollDefinition, UploadContent, Finish, EditDotenv, DeleteWorkspace, RunScript, BackUp,
           ApplyDefinition,
           PollScript, FinishCreation, FinishUpdate
  <2> QED BY <2>1 DEF BootstrapTypeOK
<1>8. loose' \subseteq Kinds
  <2>1. attempt.kind \in Kinds /\ "ontology" \in Kinds /\ loose \subseteq Kinds
    BY DEF BootstrapTypeOK, Kinds
  <2> QED BY <2>1, LooseFrame
<1> QED BY <1>1, <1>2, <1>3, <1>4, <1>5, <1>6, <1>7, <1>8
        DEF BootstrapTypeOK, Attempt, Script, Update, AnyId

-----------------------------------------------------------------------------
\* Ids.

\* An id of a finished resource stays the id of one, unless a workspace is deleted.
LEMMA KnownStays ==
  ASSUME BootstrapTypeOK, Tenancy, IdsHeld, InTurn, BootstrapNext, ~Deletes
  PROVE  \A id \in Ids, kind \in Kinds : Known(id, kind) =>
           \E s \in tenant' : s.id = id /\ s.kind = kind /\ s.ready
PROOF BY Kept DEF Known

\* Only one creation at a time, under a new id, and in a workspace.
LEMMA TenancyStep ==
  ASSUME BootstrapTypeOK, Tenancy, IdsHeld, InTurn, Placed, Hidden, BootstrapNext
  PROVE  Tenancy'
PROOF
<1>1. ASSUME NEW r \in tenant', NEW s \in tenant', r.id = s.id
      PROVE  r = s
  <2>1. CASE tenant' = tenant
    BY <1>1, <2>1 DEF Tenancy
  <2>2. CASE Creates
    <3>1. PICK id \in NewIds, ready \in BOOLEAN :
            tenant' = tenant \union
              {Creation(attempt.kind, attempt.id["workspace"], id, ready)}
      BY <2>2 DEF Creates
    <3>2. Creation(attempt.kind, attempt.id["workspace"], id, ready).id = id
      BY DEF Creation
    <3>3. \A q \in tenant : q.id # id
      BY DEF NewIds, Held
    <3> QED BY <1>1, <3>1, <3>2, <3>3 DEF Tenancy
  <2>3. CASE Renames
    <3>1. PICK id \in Ids, what \in {"business", "certification"} :
            tenant' = Renamed(id, what)
      BY <2>3 DEF Renames, Apply
    <3>2. tenant \subseteq Resource
      BY DEF BootstrapTypeOK
    <3>3. \A t \in Renamed(id, what) : \E q \in tenant :
            /\ t.id = q.id
            /\ q.id # id => t = q
            /\ q.id = id => t = [q EXCEPT !.named = (what = "business")]
      BY <3>2, RenamedParts
    <3>4. PICK q \in tenant :
            /\ r.id = q.id
            /\ q.id # id => r = q
            /\ q.id = id => r = [q EXCEPT !.named = (what = "business")]
      BY <3>1, <3>3
    <3>5. PICK p \in tenant :
            /\ s.id = p.id
            /\ p.id # id => s = p
            /\ p.id = id => s = [p EXCEPT !.named = (what = "business")]
      BY <3>1, <3>3
    <3>6. p = q
      BY <1>1, <3>4, <3>5 DEF Tenancy
    <3> QED BY <3>4, <3>5, <3>6
  <2>4. CASE Finishes
    <3>1. PICK q \in tenant :
            \/ tenant' = (tenant \ {q}) \union {[q EXCEPT !.ready = TRUE]}
            \/ tenant' = tenant \ {q}
      BY <2>4 DEF Finishes
    <3>2. [q EXCEPT !.ready = TRUE].id = q.id
      BY DEF BootstrapTypeOK, Resource
    <3>3. \A t \in tenant' : t \in tenant \ {q} \/ t = [q EXCEPT !.ready = TRUE]
      BY <3>1
    <3>4. CASE r \in tenant \ {q}
      BY <1>1, <3>2, <3>3, <3>4 DEF Tenancy
    <3>5. CASE s \in tenant \ {q}
      BY <1>1, <3>2, <3>3, <3>5 DEF Tenancy
    <3> QED BY <3>3, <3>4, <3>5
  <2>5. CASE Deletes
    BY <1>1, <2>5 DEF Deletes, Tenancy
  <2> QED BY <2>1, <2>2, <2>3, <2>4, <2>5, TenantStep
<1>2. ASSUME NEW s \in tenant'
      PROVE  IF s.kind = "workspace" THEN s.ws = NoId
             ELSE \E w \in tenant' : w.id = s.ws /\ w.kind = "workspace" /\ w.ready
  <2>0. CASE Deletes
    <3>1. PICK w \in tenant :
            /\ w.kind = "workspace"
            /\ tenant' = tenant \ {r \in tenant : r = w \/ r.ws = w.id}
      BY <2>0 DEF Deletes
    <3>2. s \in tenant /\ s.ws # w.id /\ w.id # NoId
      <4>1. w.id \in Ids
        BY DEF BootstrapTypeOK, Resource
      <4>2. w.id # NoId
        BY <4>1, BootstrapAssumption DEF Ids, NoId
      <4> QED BY <3>1, <4>2
    <3>3. CASE s.kind # "workspace"
      <4>1. PICK v \in tenant : v.id = s.ws /\ v.kind = "workspace" /\ v.ready
        BY <3>2, <3>3 DEF Tenancy, Known
      <4>2. v # w /\ v.ws # w.id
        BY <3>2, <4>1 DEF Tenancy
      <4> QED BY <3>1, <3>3, <4>1, <4>2
    <3> QED BY <3>2, <3>3 DEF Tenancy
  <2>1. CASE ~Deletes /\ \E r \in tenant : s.kind = r.kind /\ s.ws = r.ws
    <3>1. PICK r \in tenant : s.kind = r.kind /\ s.ws = r.ws
      BY <2>1
    <3>2. CASE r.kind = "workspace"
      BY <3>1, <3>2 DEF Tenancy
    <3>3. CASE r.kind # "workspace"
      <4>1. Known(r.ws, "workspace")
        BY <3>3 DEF Tenancy
      <4>2. r.ws \in Ids /\ "workspace" \in Kinds
        BY <4>1 DEF Known, BootstrapTypeOK, Resource, Kinds
      <4> QED BY <2>1, <3>1, <3>3, <4>1, <4>2, KnownStays
    <3> QED BY <3>2, <3>3
  <2>2. CASE \E id \in NewIds, ready \in BOOLEAN :
               /\ attempt.pc = "create"
               /\ s = Creation(attempt.kind, attempt.id["workspace"], id, ready)
    <3>1. s.kind = attempt.kind /\ s.ws = attempt.id["workspace"] /\ attempt.pc = "create"
      BY <2>2 DEF Creation
    <3>2. CASE attempt.kind = "workspace"
      BY <3>1, <3>2 DEF InTurn
    <3>3. CASE attempt.kind # "workspace"
      <4>1. /\ Known(attempt.id["workspace"], "workspace")
            /\ attempt.id["workspace"] \in Ids /\ "workspace" \in Kinds
        BY <3>1, <3>3 DEF Placed, Known, BootstrapTypeOK, Resource, Kinds
      <4>2. ~Deletes
        BY <3>1 DEF Deletes
      <4> QED BY <3>1, <3>3, <4>1, <4>2, KnownStays
    <3> QED BY <3>2, <3>3
  <2> QED BY <2>0, <2>1, <2>2, Whence
<1> QED BY <1>1, <1>2 DEF Tenancy, Known

\* What the script and the updates work on stays while they do.
LEMMA IdsHeldStep ==
  ASSUME BootstrapTypeOK, Tenancy, IdsHeld, InTurn, BootstrapNext
  PROVE  IdsHeld'
PROOF
<1> DEFINE Stays(id, kind) == \E s \in tenant' : s.id = id /\ s.kind = kind /\ s.ready
<1>k. "ontology" \in Kinds
  BY DEF Kinds
<1>i. \A r \in tenant : r.id \in Ids
  BY DEF BootstrapTypeOK, Resource
<1>3. ASSUME script'.pc # "idle"
      PROVE  Stays(script'.id, "ontology")
  <2>n. ~Deletes
    BY <1>3 DEF Deletes
  <2>1. CASE RunScript
    <3>1. PICK r \in tenant : /\ r.kind = "ontology" /\ r.ready
                              /\ script' = [FreshScript EXCEPT !.pc = "backup", !.id = r.id]
      BY <2>1 DEF RunScript
    <3>2. script'.id = r.id /\ Known(r.id, "ontology")
      BY <3>1 DEF FreshScript, Known
    <3> QED BY <1>k, <1>i, <2>n, <3>2, KnownStays
  <2>2. CASE script' = script \/ BackUp \/ ApplyDefinition \/ PollScript
    <3>0. script \in Script /\ FreshScript.pc = "idle"
      BY DEF BootstrapTypeOK, Script, FreshScript
    <3>1. script.pc # "idle" /\ script'.id = script.id
      <4>1. CASE script' = script
        BY <1>3, <4>1
      <4>2. CASE BackUp
        BY <1>3, <3>0, <4>2 DEF BackUp, Script
      <4>3. CASE ApplyDefinition
        BY <1>3, <3>0, <4>3 DEF ApplyDefinition, Script
      <4>4. CASE PollScript
        <5>1. PICK n : script' = FreshScript \/ script' = [script EXCEPT !.polls = n]
          BY <4>4 DEF PollScript
        <5>2. script' = [script EXCEPT !.polls = n] /\ script.pc = "poll"
          BY <1>3, <3>0, <4>4, <5>1 DEF PollScript
        <5> QED BY <3>0, <5>2 DEF Script
      <4> QED BY <2>2, <4>1, <4>2, <4>3, <4>4
    <3>2. Known(script.id, "ontology") /\ script.id \in Ids
      BY <1>i, <3>1 DEF IdsHeld, Known
    <3> QED BY <1>k, <2>n, <3>1, <3>2, KnownStays
  <2> QED BY <2>1, <2>2, ScriptFrame
<1>4. ASSUME NEW u \in updating'
      PROVE  Stays(u[1], "ontology")
  <2>d. CASE Deletes
    BY <2>d DEF Deletes, IdsHeld, Known
  <2>0. ASSUME Known(u[1], "ontology"), ~Deletes PROVE Stays(u[1], "ontology")
    <3>1. u[1] \in Ids
      BY <1>i, <2>0 DEF Known
    <3> QED BY <1>k, <2>0, <3>1, KnownStays
  <2>1. CASE u \in updating
    BY <2>0, <2>1, <2>d DEF IdsHeld
  <2>2. CASE DefineOntology /\ u \notin updating
    <3>1. Exists("ontology") /\ u = <<attempt.id["ontology"], "business", "running">>
      BY <2>2 DEF DefineOntology, Accept
    <3> QED BY <2>0, <2>d, <3>1 DEF Exists, Known
  <2>3. CASE ApplyDefinition /\ u \notin updating
    <3>1. u = <<script.id, "certification", "running">>
      BY <2>3 DEF ApplyDefinition, Accept
    <3>2. Known(u[1], "ontology")
      BY <2>3, <3>1 DEF ApplyDefinition, IdsHeld
    <3> QED BY <2>0, <2>d, <3>2
  <2>4. CASE FinishUpdate /\ u \notin updating
    <3>1. PICK v \in updating : u = <<v[1], v[2], "failed">>
      BY <2>4 DEF FinishUpdate
    <3>2. Known(u[1], "ontology")
      BY <3>1 DEF IdsHeld
    <3> QED BY <2>0, <2>d, <3>2
  <2>5. CASE DeleteWorkspace /\ u \notin updating
    BY <2>5 DEF DeleteWorkspace
  <2> QED BY <2>1, <2>2, <2>3, <2>4, <2>5, DefinitionFrame
<1> QED BY <1>3, <1>4 DEF IdsHeld, Known

\* A kind is resolved when those before it are.
LEMMA InTurnStep ==
  ASSUME BootstrapTypeOK, InTurn, BootstrapNext
  PROVE  InTurn'
PROOF
<1>1. CASE attempt' = attempt
  BY <1>1 DEF InTurn
<1>2. CASE GoesOn \/ Ends
  BY <1>2 DEF GoesOn, Onward, Ends, InTurn
<1>3. CASE Begins
  <2>1. /\ attempt'.pc \in {"idle", "find"} /\ attempt'.kind = "workspace"
        /\ \A k \in Kinds : attempt'.id[k] = NoId
    BY <1>3 DEF Begins, FreshAttempt
  <2> QED BY <2>1 DEF InTurn, Kinds
<1>4. CASE Resolves
  <2>1. PICK id \in Ids \union {Elsewhere}, status \in {"configured", "named", "created"} :
          Resolve(id, status)
    BY <1>4 DEF Resolves
  <2>2. id # NoId
    BY BootstrapAssumption DEF Ids, NoId, Elsewhere
  <2>3. /\ attempt'.id = [attempt.id EXCEPT ![attempt.kind] = id]
        /\ attempt.id \in [Kinds -> AnyId]
        /\ attempt.kind \in {"workspace", "lakehouse", "ontology"}
    <3>1. attempt'.id = [attempt.id EXCEPT ![attempt.kind] = id]
      BY <2>1, Resolved
    <3> QED BY <3>1 DEF BootstrapTypeOK, Kinds, AnyId
  <2>4. /\ attempt.kind = "workspace" <=> attempt.id["workspace"] = NoId
        /\ attempt.kind = "ontology" <=> attempt.id["lakehouse"] # NoId
        /\ attempt.id["ontology"] = NoId
    BY <1>4 DEF Resolves, InTurn
  <2>5. CASE attempt.kind = "workspace"
    <3>1. /\ attempt'.pc = "capacity" /\ attempt'.kind = "lakehouse"
          /\ attempt'.id["workspace"] = id /\ attempt'.id["lakehouse"] = NoId
          /\ attempt'.id["ontology"] = NoId
      BY <2>1, <2>3, <2>4, <2>5, Resolved DEF Kinds
    <3> QED BY <2>2, <3>1 DEF InTurn
  <2>6. CASE attempt.kind = "lakehouse"
    <3>1. /\ attempt'.pc = "find" /\ attempt'.kind = "ontology"
          /\ attempt'.id["workspace"] # NoId /\ attempt'.id["lakehouse"] = id
          /\ attempt'.id["ontology"] = NoId
      BY <2>1, <2>3, <2>4, <2>6, Resolved DEF Kinds
    <3> QED BY <2>2, <3>1 DEF InTurn
  <2>7. CASE attempt.kind = "ontology"
    <3>1. /\ attempt'.pc = "define"
          /\ attempt'.id["workspace"] # NoId /\ attempt'.id["lakehouse"] # NoId
          /\ attempt'.id["ontology"] = id
      BY <2>1, <2>3, <2>4, <2>7, Resolved DEF Kinds
    <3> QED BY <2>2, <3>1 DEF InTurn, Kinds
  <2> QED BY <2>3, <2>5, <2>6, <2>7
<1> QED BY <1>1, <1>2, <1>3, <1>4, AttemptStep

-----------------------------------------------------------------------------
\* What a search by name cannot see.

\* An attempt that leaves an unfinished creation leaves its kind loose.
LEMMA LeavesLoose ==
  ASSUME BootstrapTypeOK, BootstrapNext, attempt.pc \in {"poll", "refind"}, Running
  PROVE  \/ attempt.kind \in loose'
         \/ /\ attempt'.pc \in {"poll", "refind"}
            /\ attempt'.target = attempt.target /\ attempt'.kind = attempt.kind
PROOF
<1>1. CASE attempt' = attempt
  BY <1>1
<1>2. CASE Die \/ FindCreated
  BY <1>2 DEF Die, FindCreated, LeaveBehind
<1>3. CASE PollCreation
  <2>1. CASE LeaveBehind
    BY <2>1 DEF LeaveBehind
  <2>2. PICK n : LeaveBehind \/ attempt' = [attempt EXCEPT !.polls = n]
    BY <1>3 DEF PollCreation
  <2>3. CASE attempt' = [attempt EXCEPT !.polls = n]
    BY <2>3 DEF BootstrapTypeOK
  <2> QED BY <2>1, <2>2, <2>3
<1>4. attempt' = attempt \/ Die \/ FindCreated \/ PollCreation
  BY DEF BootstrapNext, DryRun, Bootstrap, Quiet, UseConfigured, FindByName, Create,
         AssignCapacity, DefineOntology, PollDefinition, UploadContent,
         EditDotenv, DeleteWorkspace, RunScript, BackUp, ApplyDefinition, PollScript, FinishCreation, FinishUpdate
<1> QED BY <1>1, <1>2, <1>3, <1>4

\* What is renamed or unfinished is loose, or still followed by its attempt.
LEMMA HiddenStep ==
  ASSUME BootstrapTypeOK, Tenancy, IdsHeld, InTurn, Hidden, BootstrapNext
  PROVE  Hidden'
PROOF
<1>1. ASSUME NEW s \in tenant', ~s.named
      PROVE  s.kind = "ontology" /\ "ontology" \in loose'
  BY <1>1, Whence, TenantStep DEF Hidden, Creation
<1>2. ASSUME NEW s \in tenant', ~s.ready
      PROVE  \/ s.kind \in loose'
             \/ /\ attempt'.pc \in {"poll", "refind"}
                /\ attempt'.target = s.id /\ attempt'.kind = s.kind
  <2>1. CASE \E r \in tenant : s.id = r.id /\ s.kind = r.kind /\ (r.ready => s.ready)
    <3>1. PICK r \in tenant : s.id = r.id /\ s.kind = r.kind /\ ~r.ready
      BY <1>2, <2>1
    <3>2. CASE r.kind \in loose
      BY <3>1, <3>2, TenantStep
    <3>3. CASE attempt.pc \in {"poll", "refind"} /\ attempt.target = r.id /\ attempt.kind = r.kind
      <4>1. Running
        BY <3>1, <3>3 DEF Running, Target
      <4> QED BY <3>1, <3>3, <4>1, LeavesLoose
    <3> QED BY <3>1, <3>2, <3>3 DEF Hidden
  <2>2. CASE \E id \in NewIds, ready \in BOOLEAN :
               /\ s = Creation(attempt.kind, attempt.id["workspace"], id, ready)
               /\ \/ ready \/ attempt.kind \in loose'
                  \/ /\ attempt'.pc \in {"poll", "refind"}
                     /\ attempt'.target = id /\ attempt'.kind = attempt.kind
    BY <1>2, <2>2 DEF Creation
  <2> QED BY <2>1, <2>2, Whence
<1> QED BY <1>1, <1>2 DEF Hidden

\* A command is about to create what it did not find.
LEMMA SearchStep ==
  ASSUME BootstrapTypeOK, BootstrapNext, attempt'.pc = "create"
  PROVE  \/ attempt' = attempt
         \/ /\ attempt.pc = "find" /\ Found(attempt.kind) = {} /\ tenant' = tenant
            /\ attempt'.kind = attempt.kind /\ attempt'.id = attempt.id /\ PlaceExists
PROOF
<1>1. CASE GoesOn
  <2>1. attempt.pc = "find"
    BY <1>1 DEF GoesOn, Onward
  <2>2. attempt' = attempt \/ UseConfigured \/ FindByName \/ Die
    BY <2>1 DEF BootstrapNext, DryRun, Bootstrap, Quiet, Create, PollCreation, FindCreated,
           AssignCapacity, DefineOntology, PollDefinition, UploadContent,
           EditDotenv, DeleteWorkspace, RunScript, BackUp, ApplyDefinition, PollScript,
           FinishCreation, FinishUpdate
  <2>3. attempt' # FreshAttempt
    BY DEF FreshAttempt
  <2>4. ASSUME NEW id \in Ids \union {Elsewhere},
               NEW status \in {"configured", "named", "created"}, Resolve(id, status)
        PROVE  FALSE
    BY <2>4, Resolved
  <2>5. CASE UseConfigured
    BY <2>4, <2>5 DEF UseConfigured, BootstrapTypeOK
  <2>6. CASE FindByName
    <3>1. Found(attempt.kind) = {} /\ PlaceExists
      BY <2>3, <2>4, <2>6, FoundParts DEF FindByName, Stop
    <3> QED BY <1>1, <2>1, <2>6, <3>1 DEF FindByName, GoesOn
  <2> QED BY <2>2, <2>3, <2>5, <2>6 DEF Die
<1>2. CASE Ends \/ Begins
  BY <1>2 DEF Ends, Begins, FreshAttempt
<1>3. CASE Resolves
  BY <1>3, Resolved DEF Resolves
<1> QED BY <1>1, <1>2, <1>3, AttemptStep

\* Until it is created, nothing of the name comes where it was not found.
LEMMA SearchedStep ==
  ASSUME BootstrapTypeOK, Tenancy, IdsHeld, InTurn, Placed, Hidden, Searched, BootstrapNext
  PROVE  Searched'
PROOF
<1> SUFFICES ASSUME attempt'.pc = "create", NEW s \in tenant',
                    s.kind = attempt'.kind, s.ws = attempt'.id["workspace"], s.named
             PROVE  s.kind \in far' \union loose'
  BY DEF Searched
<1>1. CASE attempt' = attempt
  <2>1. PICK r \in tenant : /\ s.kind = r.kind /\ s.ws = r.ws
                            /\ s.named = r.named \/ (s.kind = "ontology" /\ "ontology" \in loose')
    BY <1>1, Whence
  <2>2. CASE s.named = r.named
    <3>1. r.kind \in far \union loose
      BY <1>1, <2>1, <2>2 DEF Searched
    <3> QED BY <2>1, <3>1, TenantStep
  <2> QED BY <2>1, <2>2
<1>2. CASE /\ attempt.pc = "find" /\ Found(attempt.kind) = {} /\ tenant' = tenant
           /\ attempt'.kind = attempt.kind /\ attempt'.id = attempt.id
  <2>1. s \in tenant /\ s \notin Found(attempt.kind)
    BY <1>2
  <2>2. ~s.ready \/ s.kind \in far
    BY <1>2, <2>1 DEF Found, Listed
  <2>3. ~s.ready => s.kind \in loose
    BY <1>2, <2>1 DEF Hidden
  <2> QED BY <2>2, <2>3, TenantStep
<1> QED BY <1>1, <1>2, SearchStep

\* Only a resource that could not be found is created a second time.
LEMMA DuplicateStep ==
  ASSUME BootstrapTypeOK, Tenancy, IdsHeld, InTurn, Placed, Hidden, Searched, DuplicateIsExplained,
         BootstrapNext
  PROVE  DuplicateIsExplained'
PROOF
<1> SUFFICES ASSUME NEW r \in tenant', NEW s \in tenant',
                    r # s, r.kind = s.kind, r.ws = s.ws, r.named, s.named
             PROVE  r.kind \in far' \union loose'
  BY DEF DuplicateIsExplained
<1>1. r.id # s.id
  BY TenancyStep DEF Tenancy
<1>2. far \union loose \subseteq far' \union loose'
  BY TenantStep
<1>c. ASSUME NEW p \in tenant', NEW q \in tenant', p # q, p.kind = q.kind, p.ws = q.ws, q.named,
             NEW id \in NewIds, NEW ready \in BOOLEAN,
             attempt.pc = "create",
             p = Creation(attempt.kind, attempt.id["workspace"], id, ready),
             tenant' = tenant \union {p}
      PROVE  q.kind \in far' \union loose'
  <2>1. q \in tenant /\ q.kind = attempt.kind /\ q.ws = attempt.id["workspace"]
    BY <1>c DEF Creation
  <2>2. q.kind \in far \union loose
    BY <1>c, <2>1 DEF Searched
  <2> QED BY <1>2, <2>2
<1>3. CASE \E id \in NewIds, ready \in BOOLEAN :
             /\ attempt.pc = "create"
             /\ r = Creation(attempt.kind, attempt.id["workspace"], id, ready)
             /\ tenant' = tenant \union {r}
  BY <1>c, <1>3
<1>4. CASE \E id \in NewIds, ready \in BOOLEAN :
             /\ attempt.pc = "create"
             /\ s = Creation(attempt.kind, attempt.id["workspace"], id, ready)
             /\ tenant' = tenant \union {s}
  BY <1>c, <1>4
<1>5. CASE /\ \E p \in tenant :
                /\ r.id = p.id /\ r.kind = p.kind /\ r.ws = p.ws
                /\ r.named = p.named \/ (r.kind = "ontology" /\ "ontology" \in loose')
           /\ \E q \in tenant :
                /\ s.id = q.id /\ s.kind = q.kind /\ s.ws = q.ws
                /\ s.named = q.named \/ (s.kind = "ontology" /\ "ontology" \in loose')
  <2>1. PICK p \in tenant :
          /\ r.id = p.id /\ r.kind = p.kind /\ r.ws = p.ws
          /\ r.named = p.named \/ (r.kind = "ontology" /\ "ontology" \in loose')
    BY <1>5
  <2>2. PICK q \in tenant :
          /\ s.id = q.id /\ s.kind = q.kind /\ s.ws = q.ws
          /\ s.named = q.named \/ (s.kind = "ontology" /\ "ontology" \in loose')
    BY <1>5
  <2>3. CASE r.named = p.named /\ s.named = q.named
    <3>1. p # q /\ p.kind = q.kind /\ p.ws = q.ws /\ p.named /\ q.named
      BY <1>1, <2>1, <2>2, <2>3
    <3>2. p.kind \in far \union loose
      BY <3>1 DEF DuplicateIsExplained
    <3> QED BY <1>2, <2>1, <3>2
  <2> QED BY <2>1, <2>2, <2>3
<1> QED BY <1>3, <1>4, <1>5, Whence

-----------------------------------------------------------------------------
\* What a bootstrap prints.

\* A workspace that was listed stays while its item is created.
LEMMA PlacedStep ==
  ASSUME BootstrapTypeOK, Tenancy, IdsHeld, InTurn, Placed, BootstrapNext
  PROVE  Placed'
PROOF
<1> SUFFICES ASSUME attempt'.pc \in {"create", "poll", "refind"}, attempt'.kind # "workspace"
             PROVE  \E s \in tenant' : /\ s.id = attempt'.id["workspace"]
                                       /\ s.kind = "workspace" /\ s.ready
  BY DEF Placed, Known
<1>1. ~Deletes
  BY DEF Deletes, FreshAttempt
<1>2. CASE /\ Known(attempt.id["workspace"], "workspace")
           /\ attempt'.id["workspace"] = attempt.id["workspace"]
  <2>1. attempt.id["workspace"] \in Ids /\ "workspace" \in Kinds
    BY <1>2 DEF Known, BootstrapTypeOK, Resource, Kinds
  <2> QED BY <1>1, <1>2, <2>1, KnownStays
<1>3. CASE attempt' = attempt
  BY <1>2, <1>3 DEF Placed
<1>4. CASE attempt'.pc = "create" /\ attempt' # attempt
  <2>1. attempt'.kind = attempt.kind /\ attempt'.id = attempt.id /\ PlaceExists
    BY <1>4, SearchStep
  <2> QED BY <1>2, <2>1 DEF PlaceExists, Exists, Known
<1>5. CASE GoesOn /\ attempt'.pc # "create"
  <2>1. attempt.pc \in {"create", "poll"}
    BY <1>5 DEF GoesOn, Onward
  <2> QED BY <1>2, <1>5, <2>1 DEF GoesOn, Placed
<1>6. ~Ends /\ ~Begins
  BY DEF Ends, Begins, FreshAttempt
<1>7. ~Resolves
  BY Resolved DEF Resolves
<1> QED BY <1>3, <1>4, <1>5, <1>6, <1>7, AttemptStep

\* What was found or created stays in the workspace of its attempt.
LEMMA JoinedStep ==
  ASSUME BootstrapTypeOK, Tenancy, IdsHeld, InTurn, Joined, BootstrapNext
  PROVE  Joined'
PROOF
<1> DEFINE There(id, k, ws) == \E s \in tenant' : /\ s.id = id /\ s.kind = k /\ s.ready
                                                  /\ k = "workspace" \/ s.ws = ws
<1> SUFFICES ASSUME NEW k \in Kinds
             PROVE  /\ attempt'.status[k] = "none" <=> attempt'.id[k] = NoId
                    /\ attempt'.status[k] \in {"named", "created"} =>
                         There(attempt'.id[k], k, attempt'.id["workspace"])
  BY DEF Joined
<1>1. CASE Begins
  BY <1>1 DEF Begins, FreshAttempt
<1>2. ASSUME attempt'.id[k] = attempt.id[k], attempt'.status[k] = attempt.status[k],
             k = "workspace" \/ attempt'.id["workspace"] = attempt.id["workspace"], ~Deletes
      PROVE  /\ attempt'.status[k] = "none" <=> attempt'.id[k] = NoId
             /\ attempt'.status[k] \in {"named", "created"} =>
                  There(attempt'.id[k], k, attempt'.id["workspace"])
  <2>1. CASE attempt.status[k] \in {"named", "created"}
    <3>1. PICK r \in tenant : /\ r.id = attempt.id[k] /\ r.kind = k /\ r.ready
                              /\ k = "workspace" \/ r.ws = attempt.id["workspace"]
      BY <2>1 DEF Joined
    <3>2. \E s \in tenant' : s.id = r.id /\ s.kind = r.kind /\ s.ws = r.ws /\ s.ready
      BY <1>2, <3>1, Kept
    <3> QED BY <1>2, <3>1, <3>2 DEF Joined
  <2> QED BY <1>2, <2>1 DEF Joined
<1>3. CASE (attempt' = attempt \/ GoesOn \/ Ends) /\ ~Begins
  <2>1. attempt'.id = attempt.id /\ attempt'.status = attempt.status
    BY <1>3 DEF GoesOn, Ends
  <2>2. ~Deletes
    BY <1>3 DEF Deletes, Begins
  <2> QED BY <1>2, <2>1, <2>2
<1>4. CASE Resolves
  <2>1. PICK id \in Ids \union {Elsewhere}, status \in {"configured", "named", "created"} :
          Resolve(id, status) /\ (status # "configured" => Obtained(id))
    BY <1>4 DEF Resolves
  <2>2. /\ attempt'.id = [attempt.id EXCEPT ![attempt.kind] = id]
        /\ attempt'.status = [attempt.status EXCEPT ![attempt.kind] = status]
        /\ attempt.id \in [Kinds -> AnyId] /\ attempt.kind \in Kinds
        /\ attempt.status \in [Kinds -> {"none", "configured", "named", "created"}]
    <3>1. /\ attempt'.id = [attempt.id EXCEPT ![attempt.kind] = id]
          /\ attempt'.status = [attempt.status EXCEPT ![attempt.kind] = status]
      BY <2>1, Resolved
    <3> QED BY <3>1 DEF BootstrapTypeOK, AnyId
  <2>3. id # NoId /\ "workspace" \in Kinds
    BY BootstrapAssumption DEF Ids, NoId, Elsewhere, Kinds
  <2>4. CASE k = attempt.kind
    <3>1. attempt'.id[k] = id /\ attempt'.status[k] = status
      BY <2>2, <2>4
    <3>2. k = "workspace" \/ attempt'.id["workspace"] = attempt.id["workspace"]
      BY <2>2, <2>3, <2>4
    <3> QED BY <2>1, <2>3, <2>4, <3>1, <3>2 DEF Obtained
  <2>5. CASE k # attempt.kind
    <3>1. attempt'.id[k] = attempt.id[k] /\ attempt'.status[k] = attempt.status[k]
      BY <2>2, <2>5
    <3>2. CASE attempt.kind = "workspace"
      <4>1. attempt.id[k] = NoId
        BY <1>4, <2>5, <3>2 DEF Resolves, InTurn, Kinds
      <4> QED BY <3>1, <4>1 DEF Joined
    <3>3. CASE attempt.kind # "workspace"
      <4>1. attempt'.id["workspace"] = attempt.id["workspace"]
        BY <2>2, <2>3, <3>3
      <4>2. ~Deletes
        BY <1>4 DEF Resolves, Deletes
      <4> QED BY <1>2, <3>1, <4>1, <4>2
    <3> QED BY <3>2, <3>3
  <2> QED BY <2>4, <2>5
<1> QED BY <1>1, <1>3, <1>4, AttemptStep

\* Content is called uploaded when it is flushed, and nobody writes it after.
LEMMA UploadedStep ==
  ASSUME BootstrapTypeOK, Tenancy, IdsHeld, InTurn, Uploaded, BootstrapNext
  PROVE  Uploaded'
PROOF
<1> SUFFICES ASSUME attempt'.uploaded
             PROVE  /\ attempt'.pc = "done" /\ content'[attempt'.id["lakehouse"]] = "whole"
                    /\ \E s \in tenant' : /\ s.id = attempt'.id["lakehouse"]
                                           /\ s.kind = "lakehouse" /\ s.ready
  BY DEF Uploaded, Known
<1>n. ~Deletes /\ ~DeleteWorkspace
  BY DEF Deletes, DeleteWorkspace, FreshAttempt
<1>i. Known(attempt.id["lakehouse"], "lakehouse") =>
        attempt.id["lakehouse"] \in Ids /\ "lakehouse" \in Kinds
  BY DEF Known, BootstrapTypeOK, Resource, Kinds
<1>1. CASE attempt' = attempt
  <2>1. attempt.pc = "done" /\ content[attempt.id["lakehouse"]] = "whole"
    BY <1>1 DEF Uploaded
  <2>2. content' = content
    BY <1>n, <2>1, ContentFrame DEF UploadContent
  <2>3. Known(attempt.id["lakehouse"], "lakehouse")
    BY <1>1 DEF Uploaded
  <2> QED BY <1>1, <1>n, <1>i, <2>1, <2>2, <2>3, KnownStays
<1>2. CASE GoesOn
  <2>1. attempt.pc = "done"
    BY <1>2 DEF GoesOn, Uploaded
  <2> QED BY <1>2, <2>1 DEF GoesOn, Onward
<1>3. CASE Ends
  <2>1. attempt.pc \in {"put", "append", "flush"} /\ ~attempt.uploaded /\ attempt'.pc = "done"
    BY <1>3 DEF Ends, Uploaded
  <2>3. attempt' = attempt \/ UploadContent \/ Die
    BY <2>1 DEF BootstrapNext, DryRun, Bootstrap, Quiet, UseConfigured, FindByName, Create,
           PollCreation, FindCreated, AssignCapacity, DefineOntology, PollDefinition,
           EditDotenv, DeleteWorkspace, RunScript, BackUp, ApplyDefinition, PollScript,
           FinishCreation, FinishUpdate
  <2>4. ~Die
    BY <2>1 DEF Die, FreshAttempt
  <2>5. /\ content' = [content EXCEPT ![attempt.id["lakehouse"]] = "whole"]
        /\ Known(attempt.id["lakehouse"], "lakehouse") /\ tenant' = tenant
    <3>1. CASE Finish(FALSE)
      BY <3>1 DEF Finish, BootstrapTypeOK
    <3>2. attempt.pc = "put" => attempt' = [attempt EXCEPT !.pc = "append"] \/ Finish(FALSE)
      BY <2>1, <2>3, <2>4 DEF UploadContent
    <3>3. [attempt EXCEPT !.pc = "append"].pc # "done" /\ [attempt EXCEPT !.pc = "flush"].pc # "done"
      BY DEF BootstrapTypeOK
    <3>4. attempt' # attempt
      BY <2>1
    <3> QED BY <2>1, <2>3, <2>4, <3>1, <3>3, <3>4 DEF UploadContent, Exists, Known
  <2> QED BY <1>3, <1>i, <2>1, <2>5 DEF Ends, Known, BootstrapTypeOK
<1>4. CASE Begins
  BY <1>4 DEF Begins, FreshAttempt
<1>5. CASE Resolves
  <2>1. PICK id \in Ids \union {Elsewhere}, status \in {"configured", "named", "created"} :
          Resolve(id, status)
    BY <1>5 DEF Resolves
  <2>2. attempt.uploaded
    BY <2>1, Resolved
  <2> QED BY <1>5, <2>2 DEF Resolves, Uploaded
<1> QED BY <1>1, <1>2, <1>3, <1>4, <1>5, AttemptStep

-----------------------------------------------------------------------------
\* The theorems.

\* An empty tenant, no command run.
LEMMA InvInit == BootstrapInit => BootstrapInv
PROOF
<1> SUFFICES ASSUME BootstrapInit PROVE BootstrapInv
  OBVIOUS
<1>1. BootstrapTypeOK
  <2>1. attempt \in Attempt /\ script \in Script
    BY FreshTyped DEF BootstrapInit
  <2>2. attempts \in 0 .. MaxAttempts
    BY BootstrapAssumption DEF BootstrapInit
  <2>3. far \subseteq Kinds
    BY BootstrapAssumption DEF BootstrapInit, Kinds
  <2>4. dotenv \in [Kinds -> AnyId]
    BY DEF BootstrapInit, AnyId
  <2> QED BY <2>1, <2>2, <2>3, <2>4 DEF BootstrapInit, BootstrapTypeOK, Attempt, Script, AnyId
<1>2. tenant = {} /\ updating = {}
  BY DEF BootstrapInit
<1>3. /\ attempt.pc = "idle" /\ ~attempt.uploaded /\ script.pc = "idle"
      /\ \A k \in Kinds : attempt.id[k] = NoId /\ attempt.status[k] = "none"
  BY DEF BootstrapInit, FreshAttempt, FreshScript
<1> QED BY <1>1, <1>2, <1>3
        DEF BootstrapInv, Tenancy, IdsHeld, InTurn, Placed, Hidden, Searched, DuplicateIsExplained,
            Joined, Uploaded

\* Every step of the commands and of Fabric keeps the invariant.
LEMMA InvStep == BootstrapInv /\ [BootstrapNext]_bootstrapVars => BootstrapInv'
PROOF
<1>1. ASSUME BootstrapInv, BootstrapNext
      PROVE  BootstrapInv'
  BY <1>1, TypeStep, TenancyStep, IdsHeldStep, InTurnStep, PlacedStep, HiddenStep, SearchedStep,
     DuplicateStep, JoinedStep, UploadedStep DEF BootstrapInv
<1>2. ASSUME BootstrapInv, UNCHANGED bootstrapVars
      PROVE  BootstrapInv'
  <2>1. BootstrapTypeOK'
    <3>1. /\ tenant' = tenant /\ definition' = definition /\ updating' = updating
          /\ content' = content /\ far' = far /\ dotenv' = dotenv /\ report' = report
          /\ attempts' = attempts /\ loose' = loose /\ attempt' = attempt /\ script' = script
      BY <1>2 DEF bootstrapVars
    <3>2. attempt \in Attempt /\ script \in Script
      BY <1>2 DEF BootstrapInv, BootstrapTypeOK, Attempt, Script, AnyId
    <3>3. attempt' \in Attempt /\ script' \in Script
      BY <3>1, <3>2
    <3> QED BY <1>2, <3>1, <3>3 DEF BootstrapInv, BootstrapTypeOK, Attempt, Script, AnyId
  <2>2. Tenancy' /\ DuplicateIsExplained'
    BY <1>2 DEF bootstrapVars, BootstrapInv, Tenancy, Known, DuplicateIsExplained
  <2>3. IdsHeld' /\ Joined' /\ Placed'
    BY <1>2 DEF bootstrapVars, BootstrapInv, IdsHeld, Known, Joined, Placed
  <2>4. InTurn' /\ Uploaded'
    BY <1>2 DEF bootstrapVars, BootstrapInv, InTurn, Uploaded, Known
  <2>5. Hidden' /\ Searched'
    BY <1>2 DEF bootstrapVars, BootstrapInv, Hidden, Searched
  <2> QED BY <2>1, <2>2, <2>3, <2>4, <2>5 DEF BootstrapInv
<1> QED BY <1>1, <1>2

\* In any number of commands, whatever fails, the invariant holds.
THEOREM BootstrapInvariance == BootstrapSpec => []BootstrapInv
PROOF BY InvInit, InvStep, PTL DEF BootstrapSpec

\* The tenant, the commands and what they leave have their types.
THEOREM BootstrapTypes == BootstrapSpec => []BootstrapTypeOK
PROOF
<1>1. BootstrapInv => BootstrapTypeOK
  BY DEF BootstrapInv
<1> QED BY <1>1, BootstrapInvariance, PTL

\* Bootstrapping again, any number of times, makes a second resource of a name
\* only where a search by name cannot see the first.
THEOREM DuplicatesExplained == BootstrapSpec => []DuplicateIsExplained
PROOF
<1>1. BootstrapInv => DuplicateIsExplained
  BY DEF BootstrapInv
<1> QED BY <1>1, BootstrapInvariance, PTL

\* The invariant makes what a finished bootstrap reports as found or created true.
LEMMA InvCoherent == BootstrapInv => ResultIsCoherent
PROOF
<1> SUFFICES ASSUME BootstrapInv, attempt.pc = "done"
             PROVE  /\ \A k \in Kinds : attempt.status[k] # "configured" =>
                         \E r \in tenant :
                           /\ r.id = attempt.id[k] /\ r.kind = k /\ r.ready
                           /\ k = "workspace" \/ r.ws = attempt.id["workspace"]
                    /\ attempt.uploaded =>
                         /\ Exists("lakehouse")
                         /\ content[attempt.id["lakehouse"]] = "whole"
  BY DEF ResultIsCoherent
<1>1. \A k \in Kinds : attempt.id[k] # NoId
  BY DEF BootstrapInv, InTurn
<1>2. \A k \in Kinds : attempt.status[k] \in {"none", "configured", "named", "created"}
  BY DEF BootstrapInv, BootstrapTypeOK
<1>3. attempt.uploaded => Exists("lakehouse") /\ content[attempt.id["lakehouse"]] = "whole"
  BY DEF BootstrapInv, Uploaded, Known, Exists
<1> QED BY <1>1, <1>2, <1>3 DEF BootstrapInv, Joined

\* What bootstrap() reports as found by name or created, after any history of
\* failures, deletions and edits of .env: resources that exist, in the workspace
\* it prints with them, and content that is whole.
THEOREM ResultsCoherent == BootstrapSpec => []ResultIsCoherent
PROOF BY InvCoherent, BootstrapInvariance, PTL
=============================================================================
