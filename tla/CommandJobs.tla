---------------------------- MODULE CommandJobs -----------------------------
(***************************************************************************)
(* How a sidecar runs commands: POST /commands/{name} of api/app.py,       *)
(* dispatch() of application/handlers.py and run_blocking() of             *)
(* application/execution.py.                                               *)
(*                                                                         *)
(* run_command is a coroutine that calls the handler directly, and         *)
(* run_blocking() waits for its worker thread: a command keeps the event   *)
(* loop until it answers, and a sidecar runs one command at a time.        *)
(* Several sidecars (two application windows, or a sidecar of a previous   *)
(* run) share the database and the files.                                  *)
(*                                                                         *)
(* A job's `step` is the next transaction or file operation of the handler *)
(* that runs.                                                              *)
(***************************************************************************)
EXTENDS EventStream, InvestigationStore, SettingsFile, Requests

CONSTANTS
  Situations,  (* bound: the settings file found, the requests each sidecar *)
               (* is sent, in order, and the windows that listen            *)
  MaxFaults    (* bound: how many things go wrong in a behaviour            *)

ASSUME FaultsAssumption == MaxFaults \in Nat

(* Every request that is sent *)
Sent ==
  UNION { UNION { Range(situation.inbox[s]) : s \in Sidecars } :
          situation \in Situations }

(* What the bounds name: a report that is analysed is one of Reports, a    *)
(* setting is set to one of SettingValues.                                 *)
ASSUME SituationsAssumption ==
  /\ \A situation \in Situations :
       /\ situation.inbox \in [ Sidecars -> Seq(Sent) ]
       /\ situation.settings \in SettingsContents
  /\ \A request \in Sent :
       Verdict(request.name, request.payload) = "accepted" =>
         /\ request.name = "analyze_report" =>
              request.payload["report_path"][2] \in Reports
         /\ request.name = "save_settings" =>
              \A field \in SettingNames :
                ~ Absent(field, request.payload) =>
                  request.payload[field][2] \in SettingValues

VARIABLES
  windows,     (* the clients that open an event stream                     *)
  inbox,       (* per sidecar, the requests it has not read yet             *)
  job,         (* per sidecar, the command it runs                          *)
  answers,     (* per sidecar, its answers in order                         *)
  faults       (* things that went wrong so far                             *)

inboxVars == << windows, inbox >>
jobVars == << inboxVars, job, answers, faults >>

Idle ==
  [ step |-> "idle", request |-> [ name |-> "none", payload |-> << >> ],
    id |-> 0, existing |-> FALSE, code |-> "none", todo |-> << >>,
    seen |-> << >>, loaded |-> Defaults ]
Down == [ Idle EXCEPT !.step = "down" ]

JobInit ==
  /\ \E situation \in Situations :
       /\ inbox = situation.inbox /\ settings = situation.settings
       /\ windows = situation.windows
  /\ job = [ s \in Sidecars |-> Idle ]
  /\ answers = [ s \in Sidecars |-> << >> ]
  /\ faults = 0

At(s, step) == job[s].step = step
Named(s, names) == job[s].request.name \in names
LoopIdle(s) == At(s, "idle")
Payload(s) == job[s].request.payload

(* The command a sidecar runs is known by its place among the answers. *)
Current(s) == Len(answers[s]) + 1
CommandOf(s) == << s, Current(s) >>

GoTo(s, step) == job' = [ job EXCEPT ![s].step = step ]

NoFault == UNCHANGED faults
Fault   == faults < MaxFaults /\ faults' = faults + 1

-----------------------------------------------------------------------------
(***************************************************************************)
(* Answers                                                                 *)
(***************************************************************************)
Answer(request, ok, code, id, existing, seen) ==
  [ request |-> request, ok |-> ok, code |-> code, id |-> id,
    existing |-> existing, seen |-> seen ]

Reply(s, answer) ==
  /\ answers' = [ answers EXCEPT ![s] = Append(@, answer) ]
  /\ job' = [ job EXCEPT ![s] = Idle ]

ReplyOk(s) ==
  Reply(s, Answer(job[s].request, TRUE, "none", job[s].id, job[s].existing,
                  job[s].seen))
ReplySeen(s, seen) ==
  Reply(s, Answer(job[s].request, TRUE, "none", job[s].id, FALSE, seen))
ReplyError(s, code) ==
  Reply(s, Answer(job[s].request, FALSE, code, job[s].id, FALSE, << >>))

(* A command has done what it does and has not answered yet: if its        *)
(* sidecar is killed now, what it has changed stays.                       *)
Done(s) == GoTo(s, "answer") /\ UNCHANGED answers

(* A sqlite3.Error, an OSError or a RuntimeError has no entry in           *)
(* _EXCEPTION_CODE_MAP.                                                    *)
Breaks(s) == Fault /\ ReplyError(s, "INTERNAL_ERROR")

-----------------------------------------------------------------------------
(***************************************************************************)
(* dispatch(): the request is validated, the handler is constructed.       *)
(***************************************************************************)
ReadsRow ==
  { "get_investigation", "get_iocs", "get_threat_intelligence",
    "get_investigation_integrity", "get_investigation_provenance",
    "get_investigation_risk_explanation", "get_timeline", "export_report" }
ReadsRows ==
  { "list_investigations", "get_dashboard_summary",
    "get_investigation_aggregate_summary", "search_investigations",
    "export_investigations_csv" }
UsesDatabase ==
  ReadsRow \cup ReadsRows \cup { "delete_investigation", "analyze_report" }

FirstStep(name) ==
  CASE name \in ReadsRow                          -> "row"
    [] name \in ReadsRows                         -> "rows"
    [] name = "delete_investigation"              -> "delete"
    [] name \in { "get_settings", "save_settings" } -> "load"
    [] name \in { "analyze_report", "enrich_ioc" }  -> "begin"

RequestedId(request) ==
  IF "investigation_id" \in DOMAIN request.payload
    THEN request.payload["investigation_id"][2]
    ELSE 0

Start(s, request) ==
  /\ job' = [ job EXCEPT ![s] =
                [ Idle EXCEPT !.request = request,
                              !.step = FirstStep(request.name),
                              !.id = RequestedId(request) ] ]
  /\ UNCHANGED answers

(* A search for nothing is answered without asking the database. *)
BlankSearch(request) ==
  /\ request.name = "search_investigations"
  /\ request.payload["report_name"] = Text("")

Refuse(s, request, code) ==
  /\ answers' = [ answers EXCEPT ![s] =
       Append(@, Answer(request, FALSE, code, 0, FALSE, << >>)) ]
  /\ UNCHANGED job

Accept(s) ==
  /\ LoopIdle(s) /\ inbox[s] # << >>
  /\ inbox' = [ inbox EXCEPT ![s] = Tail(@) ]
  /\ LET request == Head(inbox[s])
         verdict == Verdict(request.name, request.payload)
     IN  \/ verdict # "accepted" /\ Refuse(s, request, verdict) /\ NoFault
         \/ /\ verdict = "accepted" /\ BlankSearch(request)
            /\ answers' = [ answers EXCEPT ![s] = Append(@,
                 Answer(request, TRUE, "none", 0, FALSE, << >>)) ]
            /\ NoFault /\ UNCHANGED job
         \/ /\ verdict = "accepted" /\ ~ BlankSearch(request)
            /\ Start(s, request) /\ NoFault
         \* the repositories of the handler cannot open the database
         \/ /\ verdict = "accepted" /\ request.name \in UsesDatabase
            /\ Fault /\ Refuse(s, request, "INTERNAL_ERROR")
  /\ UNCHANGED << windows, streamVars, storeVars, settings >>

(* The handler returns, and run_command with it. *)
Return(s) ==
  /\ At(s, "answer")
  /\ ReplyOk(s)
  /\ UNCHANGED << inboxVars, faults, streamVars, storeVars, settings >>
=============================================================================
