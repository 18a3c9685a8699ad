------------------------ MODULE CommandsTimeline_proofs -----------------------
(***************************************************************************)
(* What the timelines tell: TimelineTruthful of Commands, proved for any   *)
(* sidecars, requests and number of faults.                                *)
(***************************************************************************)
EXTENDS CommandsSafety_proofs

-----------------------------------------------------------------------------
(***************************************************************************)
(* Numbers and pipelines                                                   *)
(***************************************************************************)
(* A finite set of numbers that is not empty has a greatest one. *)
LEMMA GreatestNumber ==
  ASSUME NEW S \in SUBSET Nat, IsFiniteSet(S), S # {}
  PROVE  Max(S) \in S /\ \A n \in S : n <= Max(S)
<1> DEFINE Greatest(T, m) == m \in T /\ \A n \in T : n <= m
           None == { T \in SUBSET S : T # {} /\ ~ \E m \in T : Greatest(T, m) }
<1>1. None = {}
  <2> SUFFICES ASSUME None # {} PROVE FALSE
    OBVIOUS
  <2>1. None \subseteq FiniteSubsetsOf(S)
    BY FS_FiniteSubsetsOfFinite
  <2>2. IsWellFoundedOn(StrictSubsetOrdering(S), FiniteSubsetsOf(S))
    BY FS_StrictSubsetOrderingWellFounded
  <2>3. PICK T \in None : \A U \in None : ~ (<< U, T >> \in StrictSubsetOrdering(S))
    BY <2>1, <2>2, WFMin
  <2>4. PICK x \in T : TRUE
    BY <2>3
  <2> DEFINE U == T \ { x }
  <2>5. U \in SUBSET S /\ U \subseteq T /\ U # T
    BY <2>3, <2>4
  <2>6. << U, T >> \in StrictSubsetOrdering(S)
    BY <2>3, <2>5 DEF StrictSubsetOrdering
  <2>7. CASE U = {}
    <3>1. T = { x } /\ x <= x
      BY <2>3, <2>4, <2>7
    <3> QED
      BY <2>3, <3>1
  <2>8. CASE U # {}
    <3>1. PICK m \in U : Greatest(U, m)
      BY <2>3, <2>5, <2>6, <2>8
    <3>2. m \in Nat /\ x \in Nat
      BY <2>3, <2>4
    <3>3. Greatest(T, IF m <= x THEN x ELSE m)
      BY <3>1, <3>2, <2>3, <2>4
    <3> QED
      BY <2>3, <3>3, <2>4
  <2> QED
    BY <2>7, <2>8
<1>2. \E m \in S : Greatest(S, m)
  BY <1>1
<1>3. \E m \in S : \A n \in S : m >= n
  BY <1>2
<1>4. Max(S) \in S /\ \A n \in S : Max(S) >= n
  BY <1>3, Zenon DEF Max
<1> QED
  BY <1>4

(* Sequences without a repetition, of disjoint things, one after another *)
Distinct(q) == \A i, j \in DOMAIN q : q[i] = q[j] => i = j

LEMMA DistinctConcat ==
  ASSUME NEW S, NEW T, S \cap T = {}, NEW a \in Seq(S), NEW b \in Seq(T),
         Distinct(a), Distinct(b)
  PROVE  a \o b \in Seq(S \cup T) /\ Distinct(a \o b)
<1>1. a \in Seq(S \cup T) /\ b \in Seq(S \cup T)
  OBVIOUS
<1>2. /\ a \o b \in Seq(S \cup T)
      /\ Len(a) \in Nat /\ Len(b) \in Nat
      /\ DOMAIN (a \o b) = 1 .. Len(a) + Len(b)
      /\ \A i \in 1 .. Len(a) : (a \o b)[i] = a[i] /\ a[i] \in S
      /\ \A i \in 1 .. Len(a) + Len(b) : i > Len(a) =>
           /\ (a \o b)[i] = b[i - Len(a)] /\ b[i - Len(a)] \in T
           /\ i - Len(a) \in DOMAIN b
  BY <1>1
<1>3. ASSUME NEW i \in DOMAIN (a \o b), NEW j \in DOMAIN (a \o b),
             (a \o b)[i] = (a \o b)[j]
      PROVE  i = j
  <2>1. CASE i <= Len(a) /\ j <= Len(a)
    BY <1>2, <1>3, <2>1 DEF Distinct
  <2>2. CASE i > Len(a) /\ j > Len(a)
    <3>1. i - Len(a) = j - Len(a)
      BY <1>2, <1>3, <2>2 DEF Distinct
    <3> QED
      BY <1>2, <2>2, <3>1
  <2>3. CASE (i <= Len(a) /\ j > Len(a)) \/ (i > Len(a) /\ j <= Len(a))
    BY <1>2, <1>3, <2>3
  <2> QED
    BY <1>2, <2>1, <2>2, <2>3
<1> QED
  BY <1>2, <1>3 DEF Distinct

LEMMA PipelineShape ==
  ASSUME NEW options
  PROVE  Pipeline(options) \in Seq(MilestoneKinds) /\ Distinct(Pipeline(options))
<1> DEFINE first == << "investigation.created", "report.imported",
                       "analysis.started" >>
           iocs == IF "extract_iocs" \in options
                     THEN << "ioc_extraction.completed" >> ELSE << >>
           ti == IF "enrich_ti" \in options
                   THEN << "ti.enrichment.completed" >> ELSE << >>
           risk == IF "score_risk" \in options
                     THEN << "risk.calculated" >> ELSE << >>
           last == << "correlation.completed", "analysis.completed" >>
           First == { "investigation.created", "report.imported",
                      "analysis.started" }
           Iocs == { "ioc_extraction.completed" }
           Ti == { "ti.enrichment.completed" }
           Risk == { "risk.calculated" }
           Latest == { "correlation.completed", "analysis.completed" }
<1>1. Pipeline(options) = first \o iocs \o ti \o risk \o last
  BY DEF Pipeline
<1>2. first \in Seq(First) /\ last \in Seq(Latest)
  OBVIOUS
<1>3. Distinct(first) /\ Distinct(last)
  BY DEF Distinct
<1>4. /\ iocs \in Seq(Iocs) /\ Distinct(iocs)
      /\ ti \in Seq(Ti) /\ Distinct(ti)
      /\ risk \in Seq(Risk) /\ Distinct(risk)
  <2>1. ASSUME NEW kind, NEW q, q = << kind >> \/ q = << >>
        PROVE  q \in Seq({ kind }) /\ Distinct(q)
    <3>1. CASE q = << kind >>
      BY <3>1 DEF Distinct
    <3>2. CASE q = << >>
      BY <3>2 DEF Distinct
    <3> QED
      BY <2>1, <3>1, <3>2
  <2> QED
    BY <2>1
<1>5. /\ First \cap Iocs = {} /\ (First \cup Iocs) \cap Ti = {}
      /\ (First \cup Iocs \cup Ti) \cap Risk = {}
      /\ (First \cup Iocs \cup Ti \cup Risk) \cap Latest = {}
      /\ First \cup Iocs \cup Ti \cup Risk \cup Latest = MilestoneKinds
  BY DEF MilestoneKinds
<1> HIDE DEF first, iocs, ti, risk, last, First, Iocs, Ti, Risk, Latest
<1>6. first \o iocs \in Seq(First \cup Iocs) /\ Distinct(first \o iocs)
  BY <1>2, <1>3, <1>4, <1>5, DistinctConcat
<1>7. /\ first \o iocs \o ti \in Seq(First \cup Iocs \cup Ti)
      /\ Distinct(first \o iocs \o ti)
  BY <1>4, <1>5, <1>6, DistinctConcat
<1>8. /\ first \o iocs \o ti \o risk \in Seq(First \cup Iocs \cup Ti \cup Risk)
      /\ Distinct(first \o iocs \o ti \o risk)
  BY <1>4, <1>5, <1>7, DistinctConcat
<1>9. /\ first \o iocs \o ti \o risk \o last
           \in Seq(First \cup Iocs \cup Ti \cup Risk \cup Latest)
      /\ Distinct(first \o iocs \o ti \o risk \o last)
  BY <1>2, <1>3, <1>5, <1>8, DistinctConcat
<1> QED
  BY <1>1, <1>5, <1>9

(* Each milestone of a pipeline has one place in it. *)
LEMMA Places ==
  ASSUME NEW options
  PROVE  /\ Len(Pipeline(options)) \in Nat
         /\ DOMAIN Pipeline(options) = 1 .. Len(Pipeline(options))
         /\ \A i \in DOMAIN Pipeline(options) :
              /\ Place(Pipeline(options)[i], options) = i
              /\ Pipeline(options)[i] # "report.exported"
              /\ Pipeline(options)[i] \in Range(Pipeline(options))
         /\ \A kind \in Range(Pipeline(options)) :
              /\ Place(kind, options) \in DOMAIN Pipeline(options)
              /\ Pipeline(options)[Place(kind, options)] = kind
<1> DEFINE P == Pipeline(options)
<1>1. P \in Seq(MilestoneKinds) /\ Distinct(P)
  BY PipelineShape
<1> HIDE DEF P
<1>2. /\ Len(P) \in Nat /\ DOMAIN P = 1 .. Len(P)
      /\ \A i \in DOMAIN P : P[i] \in MilestoneKinds /\ P[i] \in Range(P)
  BY <1>1 DEF Range
<1>3. "report.exported" \notin MilestoneKinds
  BY DEF MilestoneKinds
<1>4. \A kind \in Range(P) : \E i \in DOMAIN P : P[i] = kind
  BY DEF Range
<1>5. \A kind \in Range(P) :
        Place(kind, options) \in DOMAIN P /\ P[Place(kind, options)] = kind
  BY <1>4, Zenon DEF Place, P
<1>6. \A i \in DOMAIN P : Place(P[i], options) = i
  BY <1>1, <1>2, <1>5 DEF Distinct
<1> QED
  BY <1>2, <1>3, <1>5, <1>6 DEF P

(* The numbers of the entries *)
LEMMA Rowids ==
  ASSUME IsFiniteSet(timeline), \A e \in timeline : e.rowid \in Nat
  PROVE  NextRowid \in Nat /\ \A e \in timeline : e.rowid < NextRowid
<1> DEFINE ids == { e.rowid : e \in timeline }
           numbers == { 0 } \cup ids
<1>1. IsFiniteSet(ids)
  <2> DEFINE f == [ e \in timeline |-> e.rowid ]
  <2>1. f \in Surjection(timeline, ids)
    BY DEF Surjection
  <2> QED
    BY <2>1, FS_Surjection
<1>2. IsFiniteSet(numbers)
  BY <1>1, FS_AddElement
<1>3. numbers \in SUBSET Nat /\ numbers # {}
  OBVIOUS
<1>4. Max(numbers) \in Nat /\ \A n \in numbers : n <= Max(numbers)
  BY <1>2, <1>3, GreatestNumber
<1>5. NextRowid = 1 + Max(numbers)
  BY DEF NextRowid
<1> HIDE DEF numbers
<1>6. \A e \in timeline : e.rowid \in numbers
  BY DEF numbers
<1> QED
  BY <1>4, <1>5, <1>6

-----------------------------------------------------------------------------
(***************************************************************************)
(* What one step does to the timeline                                      *)
(***************************************************************************)
(* It leaves the timeline, deletes, records an export, finds out what to   *)
(* write, or writes.                                                       *)
Still(s) ==
  /\ timeline' = timeline /\ job'[s].step # "timeline"
  /\ At(s, "timeline") => job[s].todo = << >> \/ faults' # 0
  /\ At(s, "reload") => RowsWithId(job[s].id) = {} \/ faults' # 0

Clears(s) ==
  Delete(job[s].id) /\ job'[s].step = "answer" /\ At(s, "delete")

Enters(s) ==
  /\ At(s, "record") /\ job[s].id \in Ids /\ job'[s].step = "answer"
  /\ AppendEntry(job[s].id, "report.exported", CommandOf(s))

Plans(s) ==
  /\ At(s, "reload") /\ timeline' = timeline /\ job'[s].step = "timeline"
  /\ job'[s].todo = EntriesToWrite(s)

Writes(s) ==
  /\ At(s, "timeline") /\ job[s].todo # << >>
  /\ job'[s].step = "timeline" /\ job'[s].todo = Tail(job[s].todo)
  /\ \/ /\ job[s].id \in Ids
        /\ AppendEntry(job[s].id, Head(job[s].todo), CommandOf(s))
     \/ timeline' = timeline /\ (faults' # 0 \/ job[s].id \notin Ids)

TimelineMove(s) == Still(s) \/ Clears(s) \/ Enters(s) \/ Plans(s) \/ Writes(s)

(* A fault stays counted. *)
LEMMA FaultCounts ==
  ASSUME FilesInv, NEW s \in Sidecars, SidecarStep(s)
  PROVE  /\ faults' = 0 => faults = 0
         /\ Fault => faults' # 0
<1>1. faults \in Nat
  BY FaultsAssumption DEF FilesInv
<1>2. NoFault \/ Fault
  BY CommandFaults DEF SidecarStep, Kill, Restart, NoFault
<1> QED
  BY <1>1, <1>2 DEF NoFault, Fault

LEMMA StoreTimeline ==
  ASSUME JobsInv, NEW s \in Sidecars, StoreStep(s)
  PROVE  timeline' = timeline \/ Clears(s)
<1>1. CASE DeleteRow(s)
  BY <1>1, JobShape DEF DeleteRow, Clears, storeVars
<1>2. CASE ReadRow(s) \/ ReadEntries(s) \/ ReadRows(s) \/ ReadRecent(s)
  BY <1>2 DEF ReadRow, ReadEntries, ReadRows, ReadRecent, storeVars
<1> QED
  BY <1>1, <1>2 DEF StoreStep

LEMMA FileTimeline ==
  ASSUME JobsInv, NEW s \in Sidecars, FileStep(s)
  PROVE  timeline' = timeline \/ Enters(s)
<1> USE DEF storeVars
<1>1. CASE RecordExport(s)
  <2>1. job'[s].step = "answer"
    BY <1>1, JobShape DEF RecordExport, Done, GoTo
  <2> QED
    BY <1>1, <2>1 DEF RecordExport, Enters
<1>2. CASE LoadSettings(s) \/ ResetSettings(s) \/ SaveSettings(s)
  BY <1>2 DEF LoadSettings, ResetSettings, SaveSettings
<1>3. CASE RenderReport(s) \/ ReplaceReport(s) \/ OpenCsv(s) \/ WriteCsv(s)
  BY <1>3 DEF RenderReport, ReplaceReport, OpenCsv, WriteCsv
<1> QED
  BY <1>1, <1>2, <1>3 DEF FileStep

LEMMA AnalyzeTimeline ==
  ASSUME JobsInv, FilesInv, NEW s \in Sidecars, AnalyzeStep(s)
  PROVE  \/ timeline' = timeline /\ ~ At(s, "timeline") /\ ~ At(s, "reload")
         \/ Still(s) \/ Plans(s) \/ Writes(s)
<1> USE DEF storeVars, At
<1>1. SidecarStep(s)
  BY DEF SidecarStep, CommandStep
<1>2. CASE \/ Begin(s) \/ FailJob(s) \/ CompleteJob(s) \/ Respond(s) \/ Lookup(s)
  BY <1>2 DEF Begin, FailJob, CompleteJob, Respond, Lookup
<1>3. CASE \/ ReadReport(s) \/ Extract(s) \/ CheckExists(s) \/ FindExisting(s)
           \/ Enrich(s)
  BY <1>3 DEF ReadReport, Extract, CheckExists, FindExisting, Enrich
<1>4. CASE Score(s) \/ InsertRow(s) \/ ResolveConflict(s)
  BY <1>4 DEF Score, InsertRow, ResolveConflict, Insert
<1>5. CASE Reload(s)
  <2>1. At(s, "reload") /\ timeline' = timeline
    BY <1>5 DEF Reload
  <2>2. ASSUME NEW code, Raises(s, code),
               RowsWithId(job[s].id) = {} \/ faults' # 0
        PROVE  Still(s)
    <3>1. job'[s].step = "fail"
      BY <2>2, JobShape DEF Raises
    <3> QED
      BY <2>1, <2>2, <3>1 DEF Still
  <2>3. CASE RowsWithId(job[s].id) = {} /\ Raises(s, "VANISHED")
    BY <2>2, <2>3
  <2>4. CASE BreaksPipeline(s)
    BY <1>1, <2>2, <2>4, FaultCounts DEF BreaksPipeline
  <2>5. CASE job' = [ job EXCEPT ![s].step = "timeline",
                                 ![s].todo = EntriesToWrite(s) ]
    <3>1. job'[s].step = "timeline" /\ job'[s].todo = EntriesToWrite(s)
      BY <2>5, JobShape
    <3> QED
      BY <2>1, <3>1 DEF Plans
  <2> QED
    BY <1>5, <2>3, <2>4, <2>5 DEF Reload
<1>6. CASE RecordEntry(s)
  <2>1. job'[s].step = "timeline" /\ job'[s].todo = Tail(job[s].todo)
    BY <1>6, JobShape DEF RecordEntry
  <2> QED
    BY <1>1, <1>6, <2>1, FaultCounts DEF RecordEntry, Writes
<1>7. CASE EntriesDone(s)
  <2>1. job'[s].step = "complete"
    BY <1>7, JobShape DEF EntriesDone, GoTo
  <2> QED
    BY <1>7, <2>1 DEF EntriesDone, Still
<1> QED
  BY <1>2, <1>3, <1>4, <1>5, <1>6, <1>7 DEF AnalyzeStep

(* Only an analysis that reloaded its row writes, and only an export whose *)
(* report is in place is recorded.                                         *)
LEMMA BeforeWriting ==
  ASSUME NEW s \in Sidecars, Doing(s)
  PROVE  /\ job'[s].step = "timeline" => job[s].step \in { "reload", "timeline" }
         /\ job'[s].step = "record" => At(s, "replace")
<1>1. CASE Proceeds(s)
  BY <1>1 DEF Proceeds, TurnTo, Turn, Edge, At
<1>2. CASE Fails(s) \/ Finds(s) \/ Creates(s) \/ Removes(s)
  BY <1>2 DEF Fails, Finds, Creates, Removes, Turn
<1>3. CASE Begins(s)
  BY <1>3, FirstSteps DEF Begins
<1>4. CASE Rests(s)
  BY <1>4 DEF Rests
<1> QED
  BY <1>1, <1>2, <1>3, <1>4 DEF Doing, Replies, Pauses

LEMMA TimelineDoing ==
  ASSUME JobsInv, FilesInv, NEW s \in Sidecars, SidecarStep(s), Doing(s)
  PROVE  TimelineMove(s)
<1> USE DEF TimelineMove
<1>1. ASSUME timeline' = timeline, ~ At(s, "timeline"), ~ At(s, "reload")
      PROVE  Still(s)
  BY <1>1, BeforeWriting DEF Still, At
<1>2. CASE Kill(s)
  <2>1. job'[s].step = "down"
    BY <1>2, JobShape DEF Kill, Down, Idle
  <2> QED
    BY <1>2, <2>1, FaultCounts DEF Kill, Still, storeVars
<1>3. CASE Restart(s)
  BY <1>1, <1>3 DEF Restart, At, storeVars
<1>4. CASE Accept(s)
  BY <1>1, <1>4 DEF Accept, LoopIdle, At, storeVars
<1>5. CASE StoreStep(s)
  BY <1>1, <1>5, StoreTimeline, StoreSteps DEF At
<1>6. CASE FileStep(s)
  BY <1>1, <1>6, FileTimeline, FileSteps DEF At
<1>7. CASE AnalyzeStep(s)
  BY <1>1, <1>7, AnalyzeTimeline
<1>8. CASE Return(s)
  BY <1>1, <1>8 DEF Return, At, storeVars
<1> QED
  BY <1>2, <1>3, <1>4, <1>5, <1>6, <1>7, <1>8 DEF SidecarStep, CommandStep

(* The commands that have replaced a file only grow. *)
LEMMA ExportedGrows ==
  ASSUME JobsInv, AnswersInv, NEW s \in Sidecars, SidecarStep(s), Doing(s)
  PROVE  /\ replacers \subseteq replacers'
         /\ job'[s].step = "record" => CommandOf(s)' \in replacers'
<1>1. replacers \subseteq replacers'
  BY ReplacersStep
<1>2. CASE job'[s].step = "record"
  <2>1. Replaces(s)
    BY <1>2, BeforeWriting DEF Replaces, At
  <2>2. AnswersKept
    BY <1>2 DEF Doing, Proceeds, Fails, Finds, Creates, Removes, Begins, Replies,
                Rests, Pauses
  <2> QED
    BY <1>1, <2>1, <2>2, ReplacersStep DEF AnswersKept, CommandOf, Current
<1> QED
  BY <1>1, <1>2

-----------------------------------------------------------------------------
(***************************************************************************)
(* What one step does to what was written of a row                         *)
(***************************************************************************)
(* The entry that is appended *)
LEMMA AppendedEntry ==
  ASSUME NEW id, NEW kind, NEW by, AppendEntry(id, kind, by)
  PROVE  /\ UNCHANGED << rows, lastId >>
         /\ \E e : /\ timeline' = timeline \cup { e } /\ e.rowid = NextRowid
                  /\ e.id = id /\ e.kind = kind /\ e.by = by
<1> DEFINE e == [ rowid |-> NextRowid, id |-> id, kind |-> kind, by |-> by ]
<1>1. timeline' = timeline \cup { e } /\ UNCHANGED << rows, lastId >>
  BY DEF AppendEntry
<1>2. e.rowid = NextRowid /\ e.id = id /\ e.kind = kind /\ e.by = by
  OBVIOUS
<1> HIDE DEF e
<1> QED
  BY <1>1, <1>2

(* A step leaves alone what was written of a row, but for the entry a      *)
(* command writes of its own and for a row that is deleted.                *)
LEMMA MilestonesKept ==
  ASSUME NEW s \in Sidecars,
         TimelineMove(s), NEW row, Clears(s) \/ Writes(s) => row.id # job[s].id
  PROVE  Milestones(row)' = Milestones(row)
<1>1. ASSUME timeline' = timeline PROVE Milestones(row)' = Milestones(row)
  BY <1>1 DEF Milestones, EntriesOf
<1>2. CASE Clears(s)
  BY <1>2 DEF Clears, Delete, Milestones, EntriesOf
<1>3. ASSUME NEW kind, AppendEntry(job[s].id, kind, CommandOf(s)),
             row.id # job[s].id \/ kind = "report.exported"
      PROVE  Milestones(row)' = Milestones(row)
  <2>1. PICK e : /\ timeline' = timeline \cup { e }
                 /\ e.id = job[s].id /\ e.kind = kind
    BY <1>3, AppendedEntry
  <2> QED
    BY <1>3, <2>1 DEF Milestones, EntriesOf
<1> QED
  BY <1>1, <1>2, <1>3 DEF TimelineMove, Still, Enters, Plans, Writes

(* What is the same of a row of which nothing more was written *)
LEMMA RowSame ==
  ASSUME NEW row, Milestones(row)' = Milestones(row)
  PROVE  /\ Sorted(row) => Sorted(row)'
         /\ Full(row) => Full(row)'
         /\ \A k : (faults' = 0 => faults = 0) /\ Written(row, k)
                     => Written(row, k)'
BY DEF Sorted, Full, Written

(* Every entry is of an investigation there is. *)
LEMMA EntriesStep ==
  ASSUME TimelineInv, NEW s \in Sidecars, Doing(s),
         TimelineMove(s),
         replacers \subseteq replacers'
  PROVE  /\ IsFiniteSet(timeline')
         /\ \A e \in timeline' :
              /\ e.rowid \in Nat /\ e.id \in Ids'
              /\ e.kind = "report.exported" => e.by \in replacers'
<1>1. /\ IsFiniteSet(timeline)
      /\ \A e \in timeline :
           /\ e.rowid \in Nat /\ e.id \in Ids
           /\ e.kind = "report.exported" => e.by \in replacers'
  BY DEF TimelineInv, TimelineTruthful
<1>2. CASE Clears(s)
  <2>1. \A e \in timeline' : e \in timeline /\ e.id # job[s].id
    BY <1>2 DEF Clears, Delete, EntriesOf
  <2>2. timeline' \subseteq timeline
    BY <2>1
  <2>3. \A e \in timeline' : e.id \in Ids'
    BY <1>1, <1>2, <2>1 DEF Clears, Delete, Ids, RowsWithId
  <2> QED
    BY <1>1, <2>1, <2>2, <2>3, FS_Subset
<1>3. CASE ~ Clears(s)
  <2>1. /\ timeline' \subseteq timeline
        /\ \A e \in timeline' : e \in timeline /\ e.id # job[s].id
        /\ rows' = rows \ RowsWithId(job[s].id)
        \/ rows \subseteq rows'
    <3>1. CASE StoreKept \/ Creates(s)
      BY <3>1 DEF StoreKept, Creates, Inserts, Insert
    <3>2. CASE Delete(job[s].id)
      BY <3>2 DEF Delete, EntriesOf
    <3> QED
      BY <3>1, <3>2 DEF Doing, Proceeds, Fails, Finds, Removes, Begins, Replies,
                        Pauses
  <2>2. \A e \in timeline : e \in timeline' => e.id \in Ids'
    BY <1>1, <2>1 DEF Ids, RowsWithId
  <2>3. CASE timeline' = timeline
    BY <1>1, <2>2, <2>3
  <2>4. ASSUME NEW kind, AppendEntry(job[s].id, kind, CommandOf(s)),
               job[s].id \in Ids,
               kind = "report.exported" => CommandOf(s) \in replacers
        PROVE  /\ IsFiniteSet(timeline')
               /\ \A e \in timeline' :
                    /\ e.rowid \in Nat /\ e.id \in Ids'
                    /\ e.kind = "report.exported" => e.by \in replacers'
    <3>1. PICK e : /\ timeline' = timeline \cup { e } /\ rows' = rows
                   /\ e.rowid = NextRowid
                   /\ e.id = job[s].id /\ e.kind = kind /\ e.by = CommandOf(s)
      BY <2>4, AppendedEntry
    <3>2. e.rowid \in Nat /\ IsFiniteSet(timeline')
      BY <1>1, <3>1, Rowids, FS_AddElement
    <3>3. e.id \in Ids'
      BY <2>4, <3>1 DEF Ids
    <3> QED
      BY <1>1, <2>2, <2>4, <3>1, <3>2, <3>3
  <2>5. CASE Enters(s)
    BY <2>4, <2>5 DEF Enters, TimelineInv
  <2>6. CASE Writes(s)
    <3>1. Head(job[s].todo) \in MilestoneKinds
      BY <2>6 DEF Writes, TimelineInv
    <3>2. Head(job[s].todo) # "report.exported"
      BY <3>1 DEF MilestoneKinds
    <3> QED
      BY <2>3, <2>4, <2>6, <3>2 DEF Writes
  <2> QED
    BY <1>3, <2>3, <2>5, <2>6 DEF TimelineMove, Still, Plans
<1> QED
  BY <1>2, <1>3

(* A row of the id a command writes of is its own. *)
LEMMA OwnRow ==
  ASSUME AnswersInv, ClaimsInv, PlacesInv, JobsInv, TimelineInv,
         NEW s \in Sidecars, Writes(s), NEW row \in rows, row.id = job[s].id
  PROVE  row.by = CommandOf(s)
<1>1. At(s, "timeline") /\ ~ job[s].existing
  BY DEF Writes, TimelineInv, PlacesInv, PlaceOK
<1>2. Holding(s)
  BY <1>1, Analyzing DEF Holding, Named, At, PipelineSteps
<1>3. Current(s) \in Claims(s) /\ Claim(s, Current(s)) = job[s]
  BY <1>2, ClaimsOf
<1>4. ClaimOK(s, Current(s))
  BY <1>3 DEF ClaimsInv
<1> QED
  BY <1>1, <1>3, <1>4 DEF ClaimOK, RowsWithId, CommandOf

(* Where a command was before it is at a step at which it has its row *)
LEMMA LateBefore ==
  ASSUME AnswersInv, NEW s \in Sidecars, Doing(s), AnswersKept,
         job[s].step \in Late
  PROVE  /\ job'[s].step \in Late \ { "reload" }
         /\ job'[s].request = job[s].request /\ job'[s].id = job[s].id
         /\ job'[s].existing = job[s].existing
<1> USE DEF Late
<1>1. CASE Proceeds(s)
  <2>1. PICK y \in Steps : /\ Edge(job[s].request.name, job[s].step, y)
                           /\ TurnTo(s, y)
    BY <1>1 DEF Proceeds
  <2> QED
    BY <2>1 DEF Edge, TurnTo, Turn
<1>2. CASE Fails(s)
  BY <1>2 DEF Fails, Turn
<1>3. CASE \/ Finds(s) \/ Creates(s) \/ Removes(s)
           \/ Begins(s) \/ Pauses(s)
  BY <1>3 DEF Finds, Creates, Inserts, Removes, Begins, Pauses, LoopIdle, At
<1>4. CASE Replies(s)
  <2>1. PICK a : Appended(s, a)
    BY <1>4 DEF Replies
  <2>2. Current(s)' = Current(s)
    BY DEF AnswersKept, Current
  <2> QED
    BY <2>1, <2>2, AnswerAdded
<1> QED
  BY <1>1, <1>2, <1>3, <1>4 DEF Doing

(* The entry a command writes comes next in the timeline of its row. *)
LEMMA WritesOwn ==
  ASSUME TimelineInv, NEW s \in Sidecars, Writes(s),
         faults' = 0 => faults = 0,
         NEW row \in rows, row.by = CommandOf(s)
  PROVE  Sorted(row)' /\ Remaining(s, row)'
<1> DEFINE P == Pipeline(row.options)
           todo == job[s].todo
           place(e) == Place(e.kind, row.options)
<1>1. /\ row.id = job[s].id /\ Remaining(s, row) /\ Sorted(row)
      /\ todo \in Seq(MilestoneKinds) /\ todo # << >> /\ job[s].id \in Ids
      /\ job'[s].todo = Tail(todo)
  BY DEF Writes, TimelineInv, TimelineTruthful, Underway, At, Ids
<1>2. PICK k \in 0 .. Len(P) :
        /\ Len(todo) = Len(P) - k
        /\ \A i \in DOMAIN todo : todo[i] = P[k + i]
        /\ Written(row, k)
  BY <1>1 DEF Remaining
<1>3. Len(P) \in Nat /\ DOMAIN P = 1 .. Len(P)
  BY Places
<1>4. /\ k + 1 \in DOMAIN P /\ Head(todo) = P[k + 1]
      /\ Len(Tail(todo)) = Len(P) - (k + 1)
      /\ DOMAIN Tail(todo) = 1 .. Len(P) - (k + 1)
      /\ \A i \in DOMAIN Tail(todo) : Tail(todo)[i] = P[k + 1 + i]
  <2>1. Len(todo) >= 1 /\ Head(todo) = todo[1] /\ DOMAIN todo = 1 .. Len(todo)
    BY <1>1
  <2>2. k + 1 \in DOMAIN P /\ Head(todo) = P[k + 1]
    BY <1>2, <1>3, <2>1
  <2>3. /\ Len(Tail(todo)) = Len(todo) - 1
        /\ DOMAIN Tail(todo) = 1 .. Len(todo) - 1
        /\ \A i \in 1 .. Len(todo) - 1 : Tail(todo)[i] = todo[i + 1]
    BY <1>1, <2>1
  <2>4. \A i \in 1 .. Len(todo) - 1 : Tail(todo)[i] = P[k + 1 + i]
    <3> SUFFICES ASSUME NEW i \in 1 .. Len(todo) - 1
                 PROVE  Tail(todo)[i] = P[k + 1 + i]
      OBVIOUS
    <3>1. Len(todo) \in Nat /\ k \in Nat
      BY <1>1, <1>3
    <3>2. i + 1 \in DOMAIN todo /\ k + (i + 1) = k + 1 + i
      BY <2>1, <3>1
    <3>3. todo[i + 1] = P[k + (i + 1)]
      BY <1>2, <3>2
    <3> QED
      BY <2>3, <3>2, <3>3
  <2>5. Len(todo) - 1 = Len(P) - (k + 1)
    BY <1>2, <1>3
  <2> QED
    BY <2>2, <2>3, <2>4, <2>5
<1> DEFINE kind == P[k + 1]
<1>5. /\ Place(kind, row.options) = k + 1 /\ kind # "report.exported"
      /\ kind \in Range(P)
  BY <1>4, Places
<1>6. /\ \A e \in Milestones(row) :
           place(e) <= k /\ place(e) \in Nat
      /\ \A i \in 1 .. k : faults = 0 => \E e \in Milestones(row) : e.kind = P[i]
  <2>1. \A e \in Milestones(row) : place(e) \in DOMAIN P
    BY <1>1, Places DEF Sorted
  <2> QED
    BY <1>2, <1>3, <2>1 DEF Written
<1>7. ASSUME Written(row, k + 1)' PROVE Remaining(s, row)'
  <2>1. k + 1 \in 0 .. Len(P)
    BY <1>3, <1>4
  <2> QED
    BY <1>1, <1>4, <1>7, <2>1 DEF Remaining
<1>8. CASE AppendEntry(job[s].id, Head(todo), CommandOf(s))
  <2>1. PICK e : /\ timeline' = timeline \cup { e } /\ e.rowid = NextRowid
                 /\ e.id = row.id /\ e.kind = kind /\ e.by = CommandOf(s)
    BY <1>1, <1>4, <1>8, AppendedEntry
  <2>2. Milestones(row)' = Milestones(row) \cup { e }
    BY <1>5, <2>1 DEF Milestones, EntriesOf
  <2>3. /\ NextRowid \in Nat
        /\ \A f \in Milestones(row) : f.rowid < NextRowid /\ f.rowid \in Nat
    BY Rowids DEF TimelineInv, Milestones, EntriesOf
  <2>4. place(e) = k + 1
    BY <1>5, <2>1
  <2>5. Written(row, k + 1)'
    <3>1. \A f \in Milestones(row)' : place(f) <= k + 1
      BY <1>6, <2>2, <2>4
    <3>2. ASSUME faults' = 0, NEW i \in 1 .. k + 1
          PROVE  \E f \in Milestones(row)' : f.kind = P[i]
      <4>1. CASE i = k + 1
        BY <2>1, <2>2, <4>1
      <4>2. CASE i # k + 1
        BY <1>6, <2>2, <3>2, <4>2
      <4> QED
        BY <4>1, <4>2
    <3> QED
      BY <3>1, <3>2 DEF Written
  <2>6. Sorted(row)'
    <3>1. \A f \in Milestones(row)' :
            f.by = row.by /\ f.kind \in Range(P)
      BY <1>1, <1>5, <2>1, <2>2 DEF Sorted
    <3>2. \A f, g \in Milestones(row) :
            f.rowid < g.rowid <=> place(f) < place(g)
      BY <1>1 DEF Sorted
    <3>3. \A f \in Milestones(row) :
            /\ f.rowid < e.rowid /\ ~ (e.rowid < f.rowid)
            /\ place(f) < place(e) /\ ~ (place(e) < place(f))
      BY <1>6, <2>1, <2>3, <2>4
    <3>4. ~ (e.rowid < e.rowid) /\ ~ (place(e) < place(e))
      BY <2>1, <2>3, <2>4
    <3>5. \A f, g \in Milestones(row)' :
            f.rowid < g.rowid <=> place(f) < place(g)
      BY <2>2, <3>2, <3>3, <3>4
    <3> QED
      BY <3>1, <3>5 DEF Sorted
  <2> QED
    BY <1>7, <2>5, <2>6
<1>9. CASE timeline' = timeline /\ faults' # 0
  <2>1. Milestones(row)' = Milestones(row)
    BY <1>9 DEF Milestones, EntriesOf
  <2>2. Written(row, k + 1)'
    BY <1>6, <1>9, <2>1 DEF Written
  <2> QED
    BY <1>1, <1>7, <2>1, <2>2, RowSame
<1> QED
  BY <1>1, <1>8, <1>9 DEF Writes

-----------------------------------------------------------------------------
(***************************************************************************)
(* The command that stored a row, and the row                              *)
(***************************************************************************)
(* When nothing is left to write, everything is written.                   *)
LEMMA NothingLeft ==
  ASSUME NEW s, NEW row, Sorted(row), Remaining(s, row), job[s].todo = << >>,
         faults = 0
  PROVE  Full(row)
<1> DEFINE P == Pipeline(row.options)
<1>1. PICK k \in 0 .. Len(P) : Len(job[s].todo) = Len(P) - k /\ Written(row, k)
  BY DEF Remaining
<1>2. k = Len(P) /\ DOMAIN P = 1 .. Len(P)
  <2>1. Len(job[s].todo) = 0 /\ Len(P) \in Nat /\ DOMAIN P = 1 .. Len(P)
    BY Places
  <2> QED
    BY <1>1, <2>1
<1>3. \A i \in DOMAIN P : \E e \in Milestones(row) : e.kind = P[i]
  BY <1>1, <1>2 DEF Written
<1>4. \A kind \in Range(P) : \E e \in Milestones(row) : e.kind = kind
  BY <1>3, Places
<1>5. \A e \in Milestones(row) : e.kind \in Range(P)
  BY DEF Sorted
<1> QED
  BY <1>4, <1>5 DEF Full

(* The command of another sidecar does not touch a row and what it says. *)
LEMMA UnderwayOther ==
  ASSUME JobsInv, AnswersInv, PlacesInv, ClaimsInv, TimelineInv,
         NEW s \in Sidecars, Doing(s), TimelineMove(s), faults' = 0 => faults = 0,
         NEW t \in Sidecars, t # s, NEW row \in rows, row \in rows',
         row.by = CommandOf(t)
  PROVE  Underway(t, row)'
<1>1. answers'[t] = answers[t] /\ job'[t] = job[t]
  BY AnswerAdded
     DEF Doing, Proceeds, Fails, Finds, Creates, Removes, Begins, Replies,
         Pauses, AnswersKept, TurnTo, Turn, Rests, Others
<1>2. Writes(s) => row.id # job[s].id
  BY OwnRow DEF CommandOf
<1>3. Clears(s) => row.id # job[s].id
  BY DEF Clears, Delete, RowsWithId
<1>4. Milestones(row)' = Milestones(row)
  BY <1>2, <1>3, MilestonesKept
<1>5. Underway(t, row)
  BY DEF TimelineInv
<1>6. (Full(row) => Full(row)') /\ \A k : Written(row, k) => Written(row, k)'
  BY <1>4, RowSame
<1>7. Remaining(t, row) => Remaining(t, row)'
  BY <1>1, <1>6 DEF Remaining
<1>8. /\ Named(t, { "analyze_report" })' <=> Named(t, { "analyze_report" })
      /\ \A step : At(t, step)' <=> At(t, step)
      /\ Options(t)' = Options(t)
  BY <1>1 DEF Named, At, Options, Payload
<1> QED
  BY <1>1, <1>4, <1>5, <1>6, <1>7, <1>8 DEF Underway

(* The command that stored a row goes on with it. *)
LEMMA UnderwayOwn ==
  ASSUME JobsInv, AnswersInv, TimelineInv,
         NEW s \in Sidecars, Doing(s), AnswersKept, TimelineMove(s),
         faults' = 0 => faults = 0,
         NEW row \in rows, row.by = CommandOf(s)
  PROVE  Underway(s, row)'
<1>1. Underway(s, row) /\ Sorted(row)
  BY DEF TimelineInv, TimelineTruthful
<1>2. /\ job[s].step \in Late /\ job'[s].step \in Late \ { "reload" }
      /\ job'[s].request = job[s].request /\ job'[s].id = job[s].id
      /\ job'[s].existing = job[s].existing
  BY <1>1, LateBefore DEF Underway
<1>3. /\ Named(s, { "analyze_report" })' /\ job'[s].step \in Late
      /\ row.id = job'[s].id /\ ~ job'[s].existing
      /\ row.options = Options(s)' /\ ~ At(s, "reload")'
  BY <1>1, <1>2 DEF Underway, Named, Options, Payload, At
<1>4. row \in RowsWithId(job[s].id)
  BY <1>1 DEF Underway, RowsWithId
<1>5. CASE Still(s)
  <2>1. Milestones(row)' = Milestones(row)
    <3>1. ~ Clears(s) /\ ~ Writes(s)
      BY <1>2, <1>5 DEF Still, Clears, Writes, At, Late
    <3> QED
      BY <3>1, MilestonesKept
  <2>2. faults' = 0 => Full(row)
    <3> SUFFICES ASSUME faults' = 0 PROVE Full(row)
      OBVIOUS
    <3>1. CASE At(s, "reload")
      BY <1>4, <1>5, <3>1 DEF Still
    <3>2. CASE At(s, "timeline")
      BY <1>1, <1>5, <3>2, NothingLeft DEF Still, Underway
    <3>3. CASE job[s].step \notin { "reload", "timeline" }
      BY <1>1, <3>3 DEF Underway
    <3> QED
      BY <3>1, <3>2, <3>3 DEF At
  <2> QED
    BY <1>3, <1>5, <2>1, <2>2, RowSame DEF Still, Underway, At
<1>6. CASE Plans(s)
  <2>1. Milestones(row)' = Milestones(row) /\ Milestones(row) = {}
    BY <1>1, <1>6 DEF Plans, Underway, Milestones, EntriesOf
  <2> DEFINE P == Pipeline(row.options)
  <2>2. job'[s].todo = P
    BY <1>1, <1>6 DEF Plans, EntriesToWrite, Underway
  <2>3. Len(P) \in Nat /\ DOMAIN P = 1 .. Len(P)
    BY Places
  <2>4. Written(row, 0)'
    BY <2>1 DEF Written
  <2>5. Len(job'[s].todo) = Len(P) - 0
        /\ \A i \in DOMAIN job'[s].todo : job'[s].todo[i] = P[0 + i]
    BY <2>2, <2>3
  <2>6. Remaining(s, row)'
    <3>1. 0 \in 0 .. Len(P)
      BY <2>3
    <3> QED
      BY <2>4, <2>5, <3>1 DEF Remaining
  <2> QED
    BY <1>3, <1>6, <2>6 DEF Plans, Underway, At
<1>7. CASE Writes(s)
  <2>1. Remaining(s, row)'
    BY <1>7, WritesOwn
  <2> QED
    BY <1>3, <1>7, <2>1 DEF Writes, Underway, At
<1>8. CASE Clears(s) \/ Enters(s)
  BY <1>2, <1>8 DEF Clears, Enters, At, Late
<1> QED
  BY <1>5, <1>6, <1>7, <1>8 DEF TimelineMove

(* The answers of a sidecar that answers grow, and only then. *)
LEMMA AnswersChange ==
  ASSUME NEW s \in Sidecars, Doing(s)
  PROVE  AnswersKept \/ (Replies(s) /\ \E a : Appended(s, a))
BY DEF Doing, Proceeds, Fails, Finds, Creates, Removes, Begins, Replies, Pauses

(* An analysis that has its row answers at its end, unless it is killed. *)
LEMMA AnswersLate ==
  ASSUME AnswersInv, FilesInv, NEW s \in Sidecars, SidecarStep(s),
         NEW a, Appended(s, a), job[s].step \in Late, faults' = 0
  PROVE  At(s, "respond")
<1>1. ~ UNCHANGED answers
  <2>1. Current(s) \in Nat /\ Current(s)' = Current(s) + 1
    BY AnswerAdded
  <2> QED
    BY <2>1 DEF Current
<1>2. CASE Kill(s)
  BY <1>2, FaultCounts DEF Kill
<1>3. CASE Restart(s)
  BY <1>3 DEF Restart, At, Late
<1>4. CASE Accept(s)
  BY <1>4 DEF Accept, LoopIdle, At, Late
<1>5. CASE StoreStep(s)
  BY <1>5, StoreSteps DEF Late
<1>6. CASE FileStep(s)
  BY <1>6, FileSteps DEF Late
<1>7. CASE AnalyzeStep(s)
  <2>1. CASE Respond(s)
    BY <2>1 DEF Respond
  <2>2. CASE \/ Begin(s) \/ FailJob(s) \/ CompleteJob(s) \/ Lookup(s)
             \/ ReadReport(s) \/ Extract(s) \/ CheckExists(s)
    BY <1>1, <2>2 DEF Begin, FailJob, CompleteJob, Lookup, ReadReport, Extract,
       CheckExists
  <2>3. CASE \/ FindExisting(s) \/ Enrich(s) \/ Score(s) \/ InsertRow(s)
             \/ ResolveConflict(s) \/ Reload(s) \/ RecordEntry(s)
             \/ EntriesDone(s)
    BY <1>1, <2>3 DEF FindExisting, Enrich, Score, InsertRow, ResolveConflict,
       Reload, RecordEntry, EntriesDone
  <2> QED
    BY <1>7, <2>1, <2>2, <2>3 DEF AnalyzeStep
<1>8. CASE Return(s)
  BY <1>8 DEF Return, At, Late
<1> QED
  BY <1>2, <1>3, <1>4, <1>5, <1>6, <1>7, <1>8 DEF SidecarStep, CommandStep

(* A row that stays: its milestones stay in order, and are complete once   *)
(* its command has answered.                                               *)
LEMMA RowStep ==
  ASSUME JobsInv, AnswersInv, FilesInv, PlacesInv, ClaimsInv, AuthorsInv,
         TimelineInv, NEW s \in Sidecars, SidecarStep(s), Doing(s), TimelineMove(s),
         NEW row \in rows, row \in rows'
  PROVE  /\ Sorted(row)'
         /\ faults' = 0 /\ row.by[2] \in Answered(row.by[1])' => Full(row)'
<1>1. faults' = 0 => faults = 0
  BY FaultCounts
<1>2. /\ Sorted(row)
      /\ faults = 0 /\ row.by[2] \in Answered(row.by[1]) => Full(row)
  BY DEF TimelineInv, TimelineTruthful
<1>3. PICK t \in Sidecars : \E n \in 1 .. Current(t) :
        row.by = << t, n >> /\ (n = Current(t) => job[t].step \in Late)
  BY DEF AuthorsInv
<1>4. PICK n \in 1 .. Current(t) :
        row.by = << t, n >> /\ (n = Current(t) => job[t].step \in Late)
  BY <1>3
<1>5. row.by[1] = t /\ row.by[2] = n
  BY <1>4
<1>6. Clears(s) => row.id # job[s].id
  BY DEF Clears, Delete, RowsWithId
<1>7. CASE Writes(s) /\ row.id = job[s].id
  <2>1. row.by = CommandOf(s)
    BY <1>7, OwnRow
  <2>2. Sorted(row)'
    BY <1>1, <1>7, <2>1, WritesOwn
  <2>3. t = s /\ n = Current(s)
    BY <1>4, <2>1 DEF CommandOf
  <2>4. AnswersKept
    <3>1. job'[s].step = "timeline"
      BY <1>7 DEF Writes
    <3> QED
      BY <3>1, AnswersChange DEF Replies, Rests
  <2>5. n \notin Answered(t)'
    <3>1. Answered(t)' = Answered(t)
      BY <2>3, <2>4 DEF AnswersKept, Answered
    <3> QED
      BY <2>3, <3>1, ClaimsOf
  <2> QED
    BY <1>5, <2>2, <2>5
<1>8. CASE ~ (Writes(s) /\ row.id = job[s].id)
  <2>1. Milestones(row)' = Milestones(row)
    BY <1>6, <1>8, MilestonesKept
  <2>2. Sorted(row)' /\ (Full(row) => Full(row)')
    BY <1>2, <2>1, RowSame
  <2>3. ASSUME faults' = 0, n \in Answered(t)' PROVE Full(row)
    <3>1. CASE n \in Answered(t)
      BY <1>1, <1>2, <1>5, <2>3, <3>1
    <3>2. CASE n \notin Answered(t)
      <4>1. t = s /\ ~ AnswersKept
        <5>1. ~ (answers'[t] = answers[t])
          BY <2>3, <3>2 DEF Answered
        <5> QED
          BY <5>1, AnswersChange, AnswerAdded DEF AnswersKept
      <4>2. PICK a : Appended(s, a)
        BY <4>1, AnswersChange
      <4>3. n = Current(s)
        BY <2>3, <3>2, <4>1, <4>2, AnswerAdded
      <4>4. At(s, "respond")
        BY <1>4, <2>3, <4>1, <4>2, <4>3, AnswersLate
      <4>5. Underway(s, row)
        BY <1>4, <4>1, <4>3 DEF TimelineInv, CommandOf
      <4> QED
        BY <1>1, <2>3, <4>4, <4>5 DEF Underway, At
    <3> QED
      BY <3>1, <3>2
  <2> QED
    BY <1>5, <2>2, <2>3
<1> QED
  BY <1>7, <1>8

(* Nothing was written of a row that is stored now. *)
LEMMA NewRowStep ==
  ASSUME RowsInv, JobsInv, AnswersInv, PlacesInv, TimelineInv,
         NEW s \in Sidecars, TimelineMove(s), Creates(s),
         NEW row, row = NewRow(s)
  PROVE  /\ \A t \in Sidecars : row.by = CommandOf(t)' => Underway(t, row)'
         /\ Sorted(row)' /\ ~ (row.by[2] \in Answered(row.by[1])')
<1>1. /\ row.id = lastId + 1 /\ row.by = << s, Current(s) >>
      /\ row.options = Options(s)
  BY DEF NewRow, NextId, CommandOf
<1>2. /\ At(s, "insert") /\ job'[s].step = "reload"
      /\ job'[s].id = lastId + 1 /\ job'[s].request = job[s].request
      /\ ~ job'[s].existing /\ answers'[s] = answers[s]
  BY DEF Creates, Inserts, Turn, NextId, PlacesInv, PlaceOK, At, Late,
         AnswersKept
<1>3. timeline' = timeline
  BY <1>2 DEF TimelineMove, Still, Clears, Enters, Plans, Writes, At
<1>4. Milestones(row)' = {}
  <2>1. \A e \in timeline : e.id \in 1 .. lastId /\ lastId \in Nat
    BY DEF TimelineInv, TimelineTruthful, Ids, RowsInv
  <2>2. \A e \in timeline : e.id # row.id
    BY <1>1, <2>1
  <2> QED
    BY <1>3, <2>2 DEF Milestones, EntriesOf
<1>5. Sorted(row)'
  BY <1>4 DEF Sorted
<1>6. ~ (row.by[2] \in Answered(row.by[1])')
  <2>1. Answered(s)' = Answered(s)
    BY <1>2 DEF Answered
  <2> QED
    BY <1>1, <2>1, ClaimsOf
<1>7. Underway(s, row)'
  <2>1. Named(s, { "analyze_report" })'
    <3>1. job'[s].request.name = "analyze_report"
      BY <1>2, Analyzing DEF At, PipelineSteps
    <3> QED
      BY <3>1 DEF Named
  <2>2. Options(s)' = Options(s)
    BY <1>2 DEF Options, Payload
  <2> QED
    BY <1>1, <1>2, <1>4, <2>1, <2>2 DEF Underway, Late, At
<1>8. \A t \in Sidecars : row.by = CommandOf(t)' => t = s
  BY <1>1 DEF CommandOf
<1> QED
  BY <1>5, <1>6, <1>7, <1>8

(* What a command has still to write *)
LEMMA TodoStep ==
  ASSUME JobsInv, TimelineInv, NEW s \in Sidecars, Doing(s), TimelineMove(s),
         At(s, "timeline")'
  PROVE  /\ job'[s].todo \in Seq(MilestoneKinds)
         /\ job'[s].existing => job'[s].todo = << >>
<1>1. job[s].step \in { "reload", "timeline" } /\ job'[s].step = "timeline"
  BY BeforeWriting DEF At
<1>2. job'[s].existing = job[s].existing
  BY <1>1
     DEF Doing, Proceeds, TurnTo, Turn, Fails, Finds, Creates, Removes, Begins,
         Replies, Rests, Pauses, LoopIdle, At
<1>3. CASE Plans(s)
  <2>1. job'[s].todo = IF job[s].existing THEN << >> ELSE Pipeline(Options(s))
    BY <1>3 DEF Plans, EntriesToWrite
  <2> QED
    BY <1>2, <2>1, PipelineShape
<1>4. CASE Writes(s)
  <2>1. /\ job[s].todo \in Seq(MilestoneKinds) /\ job[s].todo # << >>
        /\ ~ job[s].existing /\ job'[s].todo = Tail(job[s].todo)
    BY <1>4 DEF Writes, TimelineInv
  <2> QED
    BY <1>2, <2>1
<1> QED
  BY <1>1, <1>3, <1>4 DEF TimelineMove, Still, Clears, Enters, At

(* A row that was there, or the one that a command stores *)
LEMMA RowsBefore ==
  ASSUME NEW s \in Sidecars, Doing(s), NEW row \in rows'
  PROVE  row \in rows \/ (Creates(s) /\ row = NewRow(s))
<1>1. CASE StoreKept
  BY <1>1 DEF StoreKept
<1>2. CASE Delete(job[s].id)
  BY <1>2 DEF Delete
<1>3. CASE Creates(s)
  BY <1>3 DEF Creates, Inserts, Insert
<1> QED
  BY <1>1, <1>2, <1>3 DEF Doing, Proceeds, Fails, Finds, Removes, Begins,
                          Replies, Pauses

LEMMA SidecarTimeline ==
  ASSUME CommandsInv, DuplicatesInv, TimelineInv,
         NEW s \in Sidecars, SidecarStep(s)
  PROVE  TimelineInv'
<1>1. /\ JobsInv /\ AnswersInv /\ RowsInv /\ FilesInv
      /\ PlacesInv /\ ClaimsInv /\ AuthorsInv
  BY DEF CommandsInv, DuplicatesInv
<1>2. Doing(s)
  BY <1>1, SidecarDoing DEF SidecarStep
<1>3. TimelineMove(s)
  BY <1>1, <1>2, TimelineDoing
<1>4. /\ replacers \subseteq replacers'
      /\ job'[s].step = "record" => CommandOf(s)' \in replacers'
  BY <1>1, <1>2, ExportedGrows
<1>5. faults' = 0 => faults = 0
  BY <1>1, FaultCounts
<1>6. /\ IsFiniteSet(timeline')
      /\ \A e \in timeline' :
           /\ e.rowid \in Nat /\ e.id \in Ids'
           /\ e.kind = "report.exported" => e.by \in replacers'
  BY <1>2, <1>3, <1>4, EntriesStep
<1>7. ASSUME NEW row \in rows'
      PROVE  /\ Sorted(row)'
             /\ faults' = 0 /\ row.by[2] \in Answered(row.by[1])' => Full(row)'
  BY <1>1, <1>2, <1>3, RowStep, RowsBefore, NewRowStep
<1>8. ASSUME NEW t \in Sidecars, t # s
      PROVE  job'[t] = job[t] /\ answers'[t] = answers[t]
  BY <1>1, <1>2, <1>8, AnswerAdded
     DEF Doing, Proceeds, Fails, Finds, Creates, Removes, Begins, Replies,
         Pauses, AnswersKept, TurnTo, Turn, Rests, Others
<1>9. ASSUME NEW t \in Sidecars
      PROVE  /\ At(t, "record")' => CommandOf(t)' \in replacers'
             /\ At(t, "timeline")' => job'[t].todo \in Seq(MilestoneKinds)
             /\ At(t, "timeline")' /\ job'[t].existing => job'[t].todo = << >>
  <2>1. CASE t = s
    BY <1>1, <1>2, <1>3, <1>4, <2>1, TodoStep DEF At
  <2>2. CASE t # s
    <3>1. /\ At(t, "record") => CommandOf(t) \in replacers
          /\ At(t, "timeline") => job[t].todo \in Seq(MilestoneKinds)
          /\ At(t, "timeline") /\ job[t].existing => job[t].todo = << >>
      BY DEF TimelineInv
    <3> QED
      BY <1>4, <1>8, <2>2, <3>1 DEF At, CommandOf, Current
  <2> QED
    BY <2>1, <2>2
<1>10. ASSUME NEW t \in Sidecars, NEW row \in rows', row.by = CommandOf(t)'
       PROVE  Underway(t, row)'
  <2>1. CASE Creates(s) /\ row = NewRow(s)
    BY <1>1, <1>3, <1>10, <2>1, NewRowStep
  <2>2. CASE row \in rows /\ t # s
    <3>1. CommandOf(t)' = CommandOf(t)
      BY <1>8, <2>2 DEF CommandOf, Current
    <3> QED
      BY <1>1, <1>2, <1>3, <1>5, <1>10, <2>2, <3>1, UnderwayOther
  <2>3. CASE row \in rows /\ t = s
    <3>1. CASE AnswersKept
      <4>1. CommandOf(s)' = CommandOf(s)
        BY <3>1 DEF AnswersKept, CommandOf, Current
      <4> QED
        BY <1>1, <1>2, <1>3, <1>5, <1>10, <2>3, <3>1, <4>1, UnderwayOwn
    <3>2. ASSUME NEW a, Appended(s, a) PROVE FALSE
      <4>1. Current(s)' = Current(s) + 1 /\ Current(s) \in Nat
        BY <1>1, <3>2, AnswerAdded
      <4>2. row.by = << s, Current(s) + 1 >>
        BY <1>10, <2>3, <4>1 DEF CommandOf
      <4>3. PICK u \in Sidecars : \E n \in 1 .. Current(u) : row.by = << u, n >>
        BY <1>1, <2>3 DEF AuthorsInv
      <4>4. Current(s) + 1 \in 1 .. Current(s)
        BY <4>2, <4>3
      <4> QED
        BY <4>1, <4>4
    <3> QED
      BY <1>2, <3>1, <3>2, AnswersChange
  <2> QED
    BY <1>2, <2>1, <2>2, <2>3, RowsBefore
<1> QED
  BY <1>6, <1>7, <1>9, <1>10 DEF TimelineInv, TimelineTruthful

LEMMA TimelineSame ==
  ASSUME TimelineInv, UNCHANGED << jobVars, storeVars, fileVars >>
  PROVE  TimelineInv'
<1> USE DEF jobVars, storeVars, fileVars
<1>1. \A row : Milestones(row)' = Milestones(row)
  BY DEF Milestones, EntriesOf
<1>2. \A row : /\ (Sorted(row)' <=> Sorted(row)) /\ (Full(row)' <=> Full(row))
               /\ \A k : (Written(row, k)' <=> Written(row, k))
  BY <1>1 DEF Sorted, Full, Written
<1>3. \A s \in Sidecars :
        /\ CommandOf(s)' = CommandOf(s)
        /\ \A step : (At(s, step)' <=> At(s, step))
        /\ \A row : (Remaining(s, row)' <=> Remaining(s, row))
  BY <1>2 DEF CommandOf, Current, At, Remaining
<1>4. \A s \in Sidecars : \A row : (Underway(s, row)' <=> Underway(s, row))
  BY <1>1, <1>2, <1>3 DEF Underway, Named, Options, Payload
<1>5. TimelineTruthful'
  BY <1>2 DEF TimelineInv, TimelineTruthful, Answered, Ids
<1> QED
  BY <1>3, <1>4, <1>5 DEF TimelineInv

LEMMA TimelineStep ==
  CommandsInv /\ DuplicatesInv /\ TimelineInv /\ [Next]_vars => TimelineInv'
<1> SUFFICES ASSUME CommandsInv, DuplicatesInv, TimelineInv, [Next]_vars
             PROVE  TimelineInv'
  OBVIOUS
<1>1. ASSUME NEW s \in Sidecars, CommandStep(s) \/ Kill(s) \/ Restart(s)
      PROVE  TimelineInv'
  BY <1>1, SidecarTimeline DEF SidecarStep
<1>2. ASSUME NEW c \in Clients, WindowStep(c)
      PROVE  TimelineInv'
  BY <1>2, WindowEffect, TimelineSame
<1> QED
  BY <1>1, <1>2, StepCases, TimelineSame DEF vars

LEMMA TimelineInit == Init => TimelineInv
<1> SUFFICES ASSUME Init PROVE TimelineInv
  OBVIOUS
<1>1. /\ job = [ s \in Sidecars |-> Idle ] /\ rows = {} /\ timeline = {}
  BY DEF Init, JobInit, StoreInit
<1>2. \A s \in Sidecars : ~ At(s, "record") /\ ~ At(s, "timeline")
  BY <1>1 DEF At, Idle
<1> QED
  BY <1>1, <1>2, FS_EmptySet DEF TimelineInv, TimelineTruthful

(* Whatever other sidecars analyse, delete and export meanwhile, and       *)
(* wherever one of them is killed: an investigation's timeline tells what  *)
(* the analysis that stored it did, in order, each thing once, and all of  *)
(* it once that analysis has answered and nothing went wrong.              *)
THEOREM TimelinesAreTruthful == Spec => []TimelineTruthful
<1>1. TimelineInv => TimelineTruthful
  BY DEF TimelineInv
<1>2. Spec => []DuplicatesInv
  BY DuplicatesInit, DuplicatesStep, CommandsAlways, PTL DEF Spec
<1>3. Spec => []TimelineInv
  BY <1>2, TimelineInit, TimelineStep, CommandsAlways, PTL DEF Spec
<1> QED
  BY <1>1, <1>3, PTL
=============================================================================
