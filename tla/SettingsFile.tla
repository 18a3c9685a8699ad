---------------------------- MODULE SettingsFile ----------------------------
(***************************************************************************)
(* settings.json: settings/repository.py and settings/service.py.          *)
(*                                                                         *)
(* The VirusTotal key is not in the file but in the secret store, which a  *)
(* sidecar can only read.  A file written by an old version may still      *)
(* hold the key in plain text: load() tries to move it to the secret       *)
(* store, is refused, and leaves the file as it is.                        *)
(***************************************************************************)
CONSTANTS
  SettingValues,  (* what a setting may be set to                           *)
  DefaultValue    (* what ApplicationSettings() gives it                    *)

ASSUME DefaultAssumption == DefaultValue \in SettingValues

VARIABLE settings   (* the file: absent, garbled, or saved                  *)

SettingNames == { "theme", "export_directory" }

Saved(values, key) == [ kind |-> "saved", value |-> values, key |-> key ]

Defaults     == [ f \in SettingNames |-> DefaultValue ]
AbsentFile   == [ Saved(Defaults, FALSE) EXCEPT !.kind = "absent" ]
GarbledFile  == [ Saved(Defaults, FALSE) EXCEPT !.kind = "garbled" ]

SettingsContents ==
  { AbsentFile, GarbledFile }
    \cup { Saved(values, FALSE) : values \in [ SettingNames -> SettingValues ] }
    \cup { Saved(values, TRUE)  : values \in [ SettingNames -> SettingValues ] }

-----------------------------------------------------------------------------
(* SettingsRepository.load parses the file, or falls back to the defaults. *)
Readable == settings.kind = "saved"

(* What an exception in load() leaves: SettingsService.load_settings.      *)
LoadedValues == IF Readable THEN settings.value ELSE Defaults

(* save(): a complete temporary file takes the place of the old one, and   *)
(* asdict() without the key is all it holds.                               *)
Replace(values) == settings' = Saved(values, FALSE)
=============================================================================
