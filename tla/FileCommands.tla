---------------------------- MODULE FileCommands ----------------------------
(***************************************************************************)
(* The commands that write files: get_settings and save_settings           *)
(* (settings/service.py), export_report (reporting/atomic_write.py) and    *)
(* export_investigations_csv (services/investigation_csv_export.py).       *)
(*                                                                         *)
(* A report is written to a temporary file that takes its place by         *)
(* os.replace.  The CSV is written in place: opening it empties it, and    *)
(* what two sidecars write at the same time overlays.                      *)
(***************************************************************************)
EXTENDS StoreCommands

VARIABLES
  reportFile,   (* the id a report was rendered from; 0 is no file          *)
  temporaries,  (* temporary report files left behind                       *)
  csvFile,      (* the rows in the CSV file                                 *)
  replacers,    (* history: the commands whose report, or whose settings,   *)
                (* replaced the file                                        *)
  lastSaved,    (* history: what the last save of a setting to replace the  *)
                (* file set, answered or not; "unset" once a load has given *)
                (* up what was saved                                        *)
  raced         (* history: a sidecar wrote the settings while another was  *)
                (* between loading and saving them                          *)

fileVars == << reportFile, temporaries, csvFile, replacers, lastSaved, raced >>

FileInit ==
  /\ reportFile = 0 /\ temporaries = 0 /\ csvFile = << >> /\ replacers = {}
  /\ lastSaved = [ f \in SettingNames |-> "unset" ]
  /\ raced = FALSE

-----------------------------------------------------------------------------
(***************************************************************************)
(* Settings                                                                *)
(***************************************************************************)
(* A handler that has loaded the settings goes on. *)
AfterLoad(s, values) ==
  \/ /\ Named(s, { "save_settings" })
     /\ job' = [ job EXCEPT ![s].step = "save", ![s].loaded = values ]
     /\ UNCHANGED answers
  \/ Named(s, { "get_settings" } \cup ReadsSettings) /\ Done(s)
  \/ /\ Named(s, { "enrich_ioc" }) /\ GoTo(s, "lookup") /\ UNCHANGED answers
  \/ /\ Named(s, { "analyze_report" }) /\ GoTo(s, "score")
     /\ UNCHANGED answers

(* load(): a file that is there and can be parsed is only read; anything   *)
(* else, a read that fails included, is about to be reset.                 *)
LoadSettings(s) ==
  /\ At(s, "load")
  /\ \/ Readable /\ AfterLoad(s, LoadedValues) /\ NoFault
     \/ ~ Readable /\ GoTo(s, "reset") /\ NoFault /\ UNCHANGED answers
     \/ Fault /\ GoTo(s, "reset") /\ UNCHANGED answers
  /\ UNCHANGED << inboxVars, streamVars, storeVars, settings, fileVars >>

SomeoneBetween(s) ==
  \E t \in Sidecars \ { s } : job[t].step \in { "reset", "save" }

(* load() saves the defaults; when it cannot, load_settings returns them   *)
(* all the same.                                                           *)
ResetSettings(s) ==
  /\ At(s, "reset")
  /\ \/ /\ Replace(Defaults) /\ NoFault
        /\ raced' = (raced \/ SomeoneBetween(s))
     \/ Fault /\ UNCHANGED << settings, raced >>
  /\ lastSaved' = [ f \in SettingNames |-> "unset" ]
  /\ AfterLoad(s, Defaults)
  /\ UNCHANGED << inboxVars, streamVars, storeVars, reportFile, temporaries,
                  csvFile, replacers >>

SettingOf(s) ==
  IF Absent("export_directory", Payload(s)) THEN "theme" ELSE "export_directory"

(* Mutant: the other setting goes back to its default. *)
UpdatedFromDefaults(s) ==
  [ Defaults EXCEPT ![SettingOf(s)] = Payload(s)[SettingOf(s)][2] ]

(* update_export_directory, update_theme: one setting of those loaded *)
Updated(s) ==
  [ job[s].loaded EXCEPT ![SettingOf(s)] = Payload(s)[SettingOf(s)][2] ]

(* os.replace; the answer follows, if the sidecar is not killed first.     *)
SaveSettings(s) ==
  /\ At(s, "save")
  /\ \/ /\ Replace(Updated(s)) /\ NoFault /\ Done(s)
        /\ replacers' = replacers \cup { CommandOf(s) }
        /\ lastSaved' = [ lastSaved EXCEPT
                            ![SettingOf(s)] = Updated(s)[SettingOf(s)] ]
        /\ raced' = (raced \/ SomeoneBetween(s))
     \/ Breaks(s) /\ UNCHANGED << settings, replacers, lastSaved, raced >>
  /\ UNCHANGED << inboxVars, streamVars, storeVars, reportFile, temporaries,
                  csvFile >>

-----------------------------------------------------------------------------
(***************************************************************************)
(* export_report                                                           *)
(***************************************************************************)
(* atomic_write: the exporter writes the temporary file, and a failure     *)
(* removes it.                                                             *)
RenderReport(s) ==
  /\ At(s, "render")
  /\ \/ /\ GoTo(s, "replace") /\ temporaries' = temporaries + 1
        /\ NoFault /\ UNCHANGED answers
     \/ Breaks(s) /\ UNCHANGED temporaries
  /\ UNCHANGED << inboxVars, streamVars, storeVars, settings, reportFile, csvFile,
                  replacers, lastSaved, raced >>

(* os.replace *)
ReplaceReport(s) ==
  /\ At(s, "replace")
  /\ temporaries' = temporaries - 1
  /\ \/ /\ reportFile' = job[s].id
        /\ replacers' = replacers \cup { CommandOf(s) }
        /\ GoTo(s, "record") /\ NoFault /\ UNCHANGED answers
     \/ Breaks(s) /\ UNCHANGED << reportFile, replacers >>
  /\ UNCHANGED << inboxVars, streamVars, storeVars, settings, csvFile,
                  lastSaved, raced >>

(* The timeline entry of a finished export; when it cannot be appended     *)
(* (the investigation has gone, the database fails) the export still       *)
(* counts as done.                                                         *)
RecordExport(s) ==
  /\ At(s, "record")
  /\ \/ /\ job[s].id \in Ids /\ NoFault
        /\ AppendEntry(job[s].id, "report.exported", CommandOf(s))
     \/ job[s].id \notin Ids /\ NoFault /\ UNCHANGED storeVars
     \/ Fault /\ UNCHANGED storeVars
  /\ Done(s)
  /\ UNCHANGED << inboxVars, streamVars, settings, fileVars >>

-----------------------------------------------------------------------------
(***************************************************************************)
(* export_investigations_csv                                               *)
(***************************************************************************)
(* output_path.open("w") *)
OpenCsv(s) ==
  /\ At(s, "open")
  /\ \/ /\ csvFile' = << >> /\ GoTo(s, "write") /\ NoFault
        /\ UNCHANGED answers
     \/ Breaks(s) /\ UNCHANGED csvFile
  /\ UNCHANGED << inboxVars, streamVars, storeVars, settings, reportFile,
                  temporaries, replacers, lastSaved, raced >>

(* The rows go to the start of the file: a longer file keeps its tail.     *)
Overlay(old, new) == new \o SubSeq(old, Len(new) + 1, Len(old))

(* A failed write leaves some of the rows behind. *)
WriteCsv(s) ==
  /\ At(s, "write")
  /\ \/ /\ csvFile' = Overlay(csvFile, job[s].seen)
        /\ Done(s) /\ NoFault
     \/ /\ \E n \in 0 .. Len(job[s].seen) :
             csvFile' = Overlay(csvFile, SubSeq(job[s].seen, 1, n))
        /\ Breaks(s)
  /\ UNCHANGED << inboxVars, streamVars, storeVars, settings, reportFile,
                  temporaries, replacers, lastSaved, raced >>

FileStep(s) ==
  \/ LoadSettings(s) \/ ResetSettings(s) \/ SaveSettings(s)
  \/ RenderReport(s) \/ ReplaceReport(s) \/ RecordExport(s)
  \/ OpenCsv(s) \/ WriteCsv(s)
=============================================================================
