------------------------------ MODULE Queries ------------------------------
(***************************************************************************)
(* The commands that only read, and put their answer together from several *)
(* queries: trace-return and trace-stores (Service::run_trace), context,   *)
(* and the listings with a budget, uses and show --view children           *)
(* (src/service.cpp).                                                      *)
(*                                                                         *)
(* A trace slices backwards from every ret (or store) of a function, and   *)
(* asks for the source location of each and for the targets of every call  *)
(* it comes by; context does the same for one entity.  The walk of a slice *)
(* is that of module Slice, step by step.  No command holds a transaction, *)
(* so a new snapshot of the function can be committed between any two of   *)
(* its queries, by another process, or by the command itself when one of   *)
(* its slices finds the snapshot of another build.                         *)
(***************************************************************************)
EXTENDS Slice, SequencesExt

CONSTANTS
    Ordinals,   \* the handles in the order of their ordinals
    Opcode,     \* what each handle is
    Callees,    \* the functions each call names
    Located,    \* handles with a source location
    Null,       \* the handle of the constant null pointer
    All,        \* trace-return of every ret
    Requests    \* what is asked

Traces == {"trace-return", "trace-stores"}

ASSUME QueriesConstants ==
    /\ Ordinals \in Seq(Nodes)
    /\ Opcode \in [Nodes -> {"ret", "store", "call", "other"}]
    /\ DOMAIN Callees = Nodes
    /\ Located \subseteq Nodes
    /\ Requests \subseteq
          [command : Traces \cup {"context", "uses", "children"},
           target : Nodes \cup {All, "ret", "call"},
           nodes : Nat, depth : Nat]
    /\ \A r \in Requests : r.command = "children" => r.target \in {"ret", "call"}
    \* What has operands has an ordinal, as every instruction has.
    /\ {n \in Nodes : Opcode[n] # "other"} \subseteq ToSet(Ordinals)
    /\ \A graph \in Graphs : {e.src : e \in graph} \subseteq ToSet(Ordinals)

VARIABLES
    asked,       \* the command and its arguments
    step,        \* where it is
    sinks,       \* the sites still to be traced, the one at work first
    todo,        \* handles still to be asked about: returns, then calls
    held,        \* the run that stored the rows the walk is looking at
    runs,        \* the runs of the rows found at this site
    delivered,   \* entities in the answer
    cited,       \* rows in the answer, each with the run that stored it
    evidence,    \* evidence_refs: the runs the answer names
    left,        \* boundaries of the answer
    truncated,   \* whether the answer says that it is
    reasons,     \* truncation_reasons
    sites,       \* the sites in the answer: their sink, truncation, boundaries
    hint         \* whether the answer points to trace-stores

walk == <<request, pc, queue, at, rows, answer, nodes>>
cuts == <<left, truncated, reasons, sites>>
report == <<delivered, cited, evidence, cuts, hint>>
query == <<asked, step, sinks, todo, held, runs, report>>
allVars == <<vars, query>>

\* The members of a set in the order of their ordinals (ORDER BY).
InOrder(S) ==
    LET upTo[i \in 0 .. Len(Ordinals)] ==
            IF i = 0 THEN <<>>
            ELSE IF Ordinals[i] \in S THEN Append(upTo[i - 1], Ordinals[i])
            ELSE upTo[i - 1]
    IN upTo[Len(Ordinals)]

Row(from, to) == [from |-> from, to |-> to, run |-> generation]

\* The state of a walk that is about to begin at node n.
StartWalk(n) ==
    /\ request' = [target |-> n, direction |-> "backward",
                   nodes |-> asked.nodes, depth |-> asked.depth]
    /\ pc' = "walk"
    /\ queue' = <<[node |-> n, depth |-> 0]>>
    /\ at' = [node |-> n, depth |-> 0]
    /\ rows' = {}
    /\ seen' = {}
    /\ known' = {n}
    /\ selected' = {}
    /\ boundaries' = {}
    /\ reason' = "none"
    /\ nodes' = {}

\* ensure_materialized for the function asked about is behind us.
QueryInit ==
    /\ Init
    /\ asked \in Requests
    /\ step = "start"
    /\ sinks = <<>>
    /\ todo = {}
    /\ held = 0
    /\ runs = {}
    /\ delivered = {}
    /\ cited = {}
    /\ evidence = {}
    /\ left = {}
    /\ truncated = FALSE
    /\ reasons = {}
    /\ sites = {}
    /\ hint = FALSE
-----------------------------------------------------------------------------
(* Traces.                                                                 *)

SinkOpcode == IF asked.command = "trace-return" THEN "ret" ELSE "store"

\* The sinks that are asked for, in ordinal order.
ListSinks ==
    /\ step = "start" /\ asked.command \in Traces
    /\ sinks' = InOrder({n \in entities : /\ Opcode[n] = SinkOpcode
                                         /\ asked.target \in {All, n}})
    /\ asked.target = All \/ sinks' # <<>>
    /\ IF asked.command = "trace-return"
       THEN step' = "channel" /\ todo' = ToSet(sinks')
       ELSE step' = "sites" /\ UNCHANGED todo
    /\ UNCHANGED <<vars, asked, held, runs, report>>

ReturnsValue(n) == \E e \in relations : e.src = n /\ e.dst # Null

\* One return after the other is looked at, until one has a value.
InspectReturn ==
    /\ step = "channel"
    /\ \E n \in todo :
          IF ReturnsValue(n) THEN step' = "sites" /\ todo' = {}
          ELSE step' = step /\ todo' = todo \ {n}
    /\ UNCHANGED <<vars, asked, sinks, held, runs, report>>

\* No return has one: is there a store that results can leave through?
CountStores ==
    /\ step = "channel" /\ todo = {}
    /\ hint' = \E n \in entities : Opcode[n] = "store"
    /\ step' = "sites"
    /\ UNCHANGED <<vars, asked, sinks, todo, held, runs,
                   delivered, cited, evidence, cuts>>
-----------------------------------------------------------------------------
(* The slice of a site, or of a context.                                   *)

BeginSite ==
    /\ step = "sites" /\ sinks # <<>>
    /\ Head(sinks) \in entities
    /\ StartWalk(Head(sinks))
    /\ step' = "walk"
    /\ UNCHANGED <<database, asked, sinks, todo, held, runs, report>>

ReadRelations ==
    /\ step = "walk"
    /\ Visit
    /\ held' = generation
    /\ UNCHANGED <<asked, step, sinks, todo, runs, report>>

\* A relation that is selected comes with the run that stored it.
LookAtRelation ==
    /\ step = "walk"
    /\ \E e \in rows :
          /\ Look(e)
          /\ IF selected' = selected THEN UNCHANGED <<cited, runs>>
             ELSE /\ cited' = cited \cup
                                {[from |-> e.src, to |-> e.dst, run |-> held]}
                  /\ runs' = runs \cup {held}
    /\ UNCHANGED <<asked, step, sinks, todo, held,
                   delivered, evidence, cuts, hint>>

EndSlice ==
    /\ step = "walk"
    /\ FetchEntities
    /\ step' = IF asked.command \in Traces THEN "locate" ELSE "calls"
    /\ UNCHANGED <<asked, sinks, todo, held, runs, report>>

\* source_on for the sink.  The calls to ask about are those of the slice.
Locate ==
    /\ step = "locate"
    /\ Head(sinks) \in entities
    /\ IF Head(sinks) \in Located
       THEN /\ cited' = cited \cup {Row(Head(sinks), Head(sinks))}
            /\ runs' = runs \cup {generation}
       ELSE UNCHANGED <<cited, runs>>
    /\ IF asked.command \in Traces
       THEN step' = "calls" /\ todo' = {n \in nodes : Opcode[n] = "call"}
       ELSE step' = "sites" /\ UNCHANGED todo
    /\ UNCHANGED <<vars, asked, sinks, held, delivered, evidence, cuts, hint>>

ReadCallsUncited ==
    /\ step = "calls"
    /\ \E n \in todo :
          /\ todo' = todo \ {n}
          /\ IF n \in entities
             THEN cited' = cited \cup {Row(n, f) : f \in Callees[n]}
             ELSE UNCHANGED cited
    /\ UNCHANGED <<vars, asked, step, sinks, held, runs, delivered, evidence,
                   cuts, hint>>

\* The targets of one of the calls; their run is evidence at once.
ReadCalls ==
    /\ step = "calls"
    /\ \E n \in todo :
          /\ todo' = todo \ {n}
          /\ IF n \in entities /\ Callees[n] # {}
             THEN /\ cited' = cited \cup {Row(n, f) : f \in Callees[n]}
                  /\ evidence' = evidence \cup {generation}
             ELSE UNCHANGED <<cited, evidence>>
    /\ UNCHANGED <<vars, asked, step, sinks, held, runs, delivered, cuts, hint>>

Site == [sink |-> Head(sinks), reason |-> reason, left |-> boundaries]

EndSiteLastCounts ==
    /\ step = "calls" /\ todo = {}
    /\ delivered' = delivered \cup nodes
    /\ left' = left \cup boundaries
    /\ truncated' = (boundaries # {})
    /\ reasons' = reasons \cup ({reason} \ {"none"})
    /\ sites' = sites \cup {Site}
    /\ evidence' = evidence \cup runs
    /\ runs' = {}
    /\ sinks' = Tail(sinks)
    /\ step' = "sites"
    /\ UNCHANGED <<vars, asked, todo, held, cited, hint>>

EndSiteFirstReason ==
    /\ step = "calls" /\ todo = {}
    /\ delivered' = delivered \cup nodes
    /\ left' = left \cup boundaries
    /\ truncated' = (truncated \/ boundaries # {})
    /\ reasons' = IF reasons = {} THEN {reason} \ {"none"} ELSE reasons
    /\ sites' = sites \cup {Site}
    /\ evidence' = evidence \cup runs
    /\ runs' = {}
    /\ sinks' = Tail(sinks)
    /\ step' = "sites"
    /\ UNCHANGED <<vars, asked, todo, held, cited, hint>>

\* What was found at this site is merged into the answer.
EndSite ==
    /\ step = "calls" /\ todo = {}
    /\ delivered' = delivered \cup nodes
    /\ left' = left \cup boundaries
    /\ truncated' = (truncated \/ boundaries # {})
    /\ reasons' = reasons \cup ({reason} \ {"none"})
    /\ sites' = sites \cup {Site}
    /\ evidence' = evidence \cup runs
    /\ runs' = {}
    /\ sinks' = Tail(sinks)
    /\ step' = "sites"
    /\ UNCHANGED <<vars, asked, todo, held, cited, hint>>

AllSitesTraced ==
    /\ step = "sites" /\ sinks = <<>>
    /\ step' = "done"
    /\ UNCHANGED <<vars, asked, sinks, todo, held, runs, report>>

\* context begins with show: the entity and every relation that leaves it.
Show ==
    /\ step = "start" /\ asked.command = "context"
    /\ asked.target \in entities
    /\ LET found == {Row(e.src, e.dst) :
                        e \in {e \in relations : e.src = asked.target}}
                    \cup {Row(asked.target, f) : f \in Callees[asked.target]}
       IN  /\ cited' = found
           /\ runs' = {row.run : row \in found}
    /\ sinks' = <<asked.target>>
    /\ step' = "locate"
    /\ UNCHANGED <<vars, asked, todo, held, delivered, evidence, cuts, hint>>
-----------------------------------------------------------------------------
(* Listings.                                                               *)

\* What uses and show --view children list, in order.
Listed ==
    InOrder(IF asked.command = "uses"
            THEN {n \in Nodes : [src |-> n, dst |-> asked.target] \in relations}
            ELSE {n \in entities : Opcode[n] = asked.target})

\* One row more than the budget is fetched: it is the boundary.
ListPage ==
    /\ step = "start" /\ asked.command \in {"uses", "children"}
    /\ asked.command = "uses" => asked.target \in entities
    /\ LET beyond == DOMAIN Listed \cap {asked.nodes + 1}
           page == {Listed[i] : i \in DOMAIN Listed \cap (1 .. asked.nodes)}
       IN  /\ delivered' = page
           /\ left' = {Listed[i] : i \in beyond}
           /\ truncated' = (beyond # {})
           /\ reasons' = IF truncated' THEN {"node_budget"} ELSE {}
           /\ cited' = IF asked.command = "uses"
                       THEN {Row(u, asked.target) : u \in page} ELSE {}
           /\ evidence' = {row.run : row \in cited'}
    /\ step' = "done"
    /\ UNCHANGED <<vars, asked, sinks, todo, held, runs, sites, hint>>
-----------------------------------------------------------------------------
\* An entity that is asked for is not there (any more): the whole command
\* fails, whatever it has found.
NotFound ==
    /\ \/ /\ step = "start" /\ asked.command \in {"uses", "context"}
          /\ asked.target \notin entities
       \/ /\ step = "start" /\ asked.command \in Traces
          /\ asked.target # All
          /\ asked.target \notin {n \in entities : Opcode[n] = SinkOpcode}
       \/ /\ step \in {"sites", "locate"} /\ sinks # <<>>
          /\ Head(sinks) \notin entities
    /\ step' = "failed"
    /\ UNCHANGED <<vars, asked, sinks, todo, held, runs, report>>

Commit ==
    /\ step \notin {"done", "failed"}
    /\ NewSnapshot
    /\ UNCHANGED <<walk, query>>

Ended == step \in {"done", "failed"} /\ UNCHANGED allVars

QueryNext ==
    \/ ListSinks \/ InspectReturn \/ CountStores
    \/ BeginSite \/ ReadRelations \/ LookAtRelation \/ EndSlice
    \/ Locate \/ ReadCalls \/ EndSite \/ AllSitesTraced
    \/ Show \/ ListPage \/ NotFound
    \/ Commit \/ Ended

QuerySpec == QueryInit /\ [][QueryNext]_allVars
-----------------------------------------------------------------------------
(* What an answer promises.                                                *)

\* truncation.reason: the one reason of the sites that are truncated, or the
\* word for several.
Reason ==
    IF reasons = {} THEN "none"
    ELSE IF Cardinality(reasons) = 1 THEN CHOOSE r \in reasons : TRUE
    ELSE "per_sink_budget"

\* The sites of a trace, or the target of a context.
Wanted ==
    IF asked.command \in Traces
    THEN {n \in Nodes : Opcode[n] = SinkOpcode /\ asked.target \in {All, n}}
    ELSE {asked.target}

\* All that relations lead to from a set of nodes.
ReachedFrom(S) ==
    {n \in Nodes : \A T \in SUBSET Nodes :
        S \subseteq T /\ Closed(T) => n \in T}

Everything ==
    CASE asked.command = "uses" ->
            {e.src : e \in {e \in relations : e.dst = asked.target}}
      [] asked.command = "children" ->
            {n \in Nodes : Opcode[n] = asked.target}
      [] OTHER -> ReachedFrom(Wanted)

\* "Anything the store cannot prove appears in unknowns, never as silence"
\* (docs/CLI.md), for answers that are put together: one that is not marked as
\* truncated has all that leads to any of the sinks, names every function
\* that is called on the way, and says so when the results of the function
\* leave it through stores.
CompleteUnlessTruncated ==
    step = "done" /\ ~truncated /\ Undisturbed =>
        /\ delivered = Everything
        /\ asked.command \in Traces =>
              \A n \in delivered : Opcode[n] = "call" =>
                  \A f \in Callees[n] : Row(n, f) \in cited
        /\ /\ asked.command = "trace-return"
           /\ \A n \in Wanted : ~ReturnsValue(n)
           /\ \E n \in Nodes : Opcode[n] = "store"
           => hint

\* An answer is marked as truncated exactly if something is named that was
\* left out; nothing that any of its sites left out is dropped, and "only
\* mixed reasons collapse to the generic per_sink_budget label".
CutsAreReported ==
    step = "done" =>
        /\ truncated <=> left # {}
        /\ truncated <=> Reason # "none"
        /\ \A site \in sites :
              /\ site.left \subseteq left
              /\ site.reason = "none" <=> site.left = {}
              /\ Reason # "per_sink_budget" => site.reason \in {"none", Reason}
        /\ Reason = "per_sink_budget" =>
              \E s1, s2 \in sites :
                  s1.reason # s2.reason /\ "none" \notin {s1.reason, s2.reason}

\* Whatever snapshots are committed while the answer is put together, every
\* run that stored a relation, a location or a call of the answer is among
\* its evidence_refs.
EvidenceCovers ==
    step = "done" => {row.run : row \in cited} \subseteq evidence
=============================================================================
