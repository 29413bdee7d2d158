------------------------------ MODULE Settings ------------------------------
(***************************************************************************)
(* The settings of the administrator: AppSetting rows, the form that saves *)
(* them key by key and get_int, which everything that uses one reads it    *)
(* through. The ranges stand twice in the code, in the form and at every   *)
(* use, and nothing but their agreement makes a saved value the value used.*)
(*                                                                         *)
(* A stored text is the number it spells, or NoNumber. (site_name and      *)
(* time_zone, which are no numbers, are left out.)                         *)
(***************************************************************************)
EXTENDS Integers, Sequences

CONSTANTS
    NoRow,           \* there is no row, or its value is empty
    NoNumber,        \* a text int() does not accept
    MaxSaves         \* bound: submissions of the form

ASSUME SettingsAssumption ==
    /\ NoRow \notin Int /\ NoNumber \notin Int
    /\ MaxSaves \in Nat

VARIABLES
    stored,          \* value of each AppSetting row
    saving,          \* the submission being saved: its values and the next key
    saves,           \* submissions so far (bounded by MaxSaves)
    submitted        \* history: the values last saved, Unknown after a partial save

settingsVars == <<stored, saving, saves, submitted>>

\* The numbers of SettingsForm, in the order they are saved.
KeyOrder == <<"session_timeout_minutes", "discovery_seconds", "scan_timeout_minutes",
              "office_conversion_timeout_seconds", "task_retry_limit", "print_retention_hours",
              "scan_retention_days", "max_upload_mb">>
Keys == {KeyOrder[i] : i \in DOMAIN KeyOrder}

\* What SettingsForm accepts.
Accepted == [session_timeout_minutes |-> <<5, 43200>>, discovery_seconds |-> <<3, 60>>,
             scan_timeout_minutes |-> <<1, 120>>,
             office_conversion_timeout_seconds |-> <<30, 600>>, task_retry_limit |-> <<1, 10>>,
             print_retention_hours |-> <<1, 720>>, scan_retention_days |-> <<1, 365>>,
             max_upload_mb |-> <<1, 1024>>]

\* Fault: only the minimum is enforced.
RaisesOnly(text, default, minimum, maximum) ==
    LET value == IF text \in Int THEN text ELSE default
    IN  IF value < minimum THEN minimum ELSE value

\* AppSetting.get_int; absent rows and empty values give the default (get_value), and so
\* does what is no number.
GetInt(text, default, minimum, maximum) ==
    LET value == IF text \in Int THEN text ELSE default
        raised == IF value < minimum THEN minimum ELSE value
    IN  IF raised > maximum THEN maximum ELSE raised

\* The uses, each with the range written there.
SessionMinutes == GetInt(stored["session_timeout_minutes"], 480, 5, 43200)
DiscoverySeconds == GetInt(stored["discovery_seconds"], 12, 3, 60)
ScanMinutes == GetInt(stored["scan_timeout_minutes"], 15, 1, 120)
ConversionSeconds == GetInt(stored["office_conversion_timeout_seconds"], 120, 30, 600)
RetryLimit == GetInt(stored["task_retry_limit"], 3, 1, 10)
PrintHours == GetInt(stored["print_retention_hours"], 24, 1, 720)
ScanDays == GetInt(stored["scan_retention_days"], 7, 1, 365)
UploadMegabytes == GetInt(stored["max_upload_mb"], 100, 1, 1024)

Used == [session_timeout_minutes |-> SessionMinutes, discovery_seconds |-> DiscoverySeconds,
         scan_timeout_minutes |-> ScanMinutes,
         office_conversion_timeout_seconds |-> ConversionSeconds,
         task_retry_limit |-> RetryLimit, print_retention_hours |-> PrintHours,
         scan_retention_days |-> ScanDays, max_upload_mb |-> UploadMegabytes]

NoSave == [values |-> <<>>, next |-> 0]
Unknown == <<>>

\* A valid form (the inputs: the least, or the greatest, that it accepts of everything).
Submissions == {[k \in Keys |-> Accepted[k][bound]] : bound \in {1, 2}}

-----------------------------------------------------------------------------
\* system_settings, with one submission in flight at a time.
BeginSave(v) ==
    /\ saving = NoSave
    /\ saves < MaxSaves
    /\ saves' = saves + 1
    /\ saving' = [values |-> v, next |-> 1]
    /\ UNCHANGED <<stored, submitted>>

\* Fault: the last key is left out.
SavesAllButLast ==
    /\ saving # NoSave
    /\ LET k == KeyOrder[saving.next]
           last == saving.next = Len(KeyOrder) - 1
       IN  /\ stored' = [stored EXCEPT ![k] = saving.values[k]]
           /\ saving' = IF last THEN NoSave ELSE [saving EXCEPT !.next = @ + 1]
           /\ submitted' = IF last THEN saving.values ELSE Unknown
    /\ UNCHANGED saves

\* update_or_create of the next key, each in a transaction of its own.
SaveKey ==
    /\ saving # NoSave
    /\ LET k == KeyOrder[saving.next]
           last == saving.next = Len(KeyOrder)
       IN  /\ stored' = [stored EXCEPT ![k] = saving.values[k]]
           /\ saving' = IF last THEN NoSave ELSE [saving EXCEPT !.next = @ + 1]
           /\ submitted' = IF last THEN saving.values ELSE Unknown
    /\ UNCHANGED saves

\* The process dies: the keys saved so far stay.
SaveDies ==
    /\ saving # NoSave
    /\ saving' = NoSave
    /\ UNCHANGED <<stored, saves, submitted>>

\* A database without rows, or with values the form would not accept today.
SettingsInit ==
    /\ \/ \E text \in {NoRow, NoNumber, 0} : stored = [k \in Keys |-> text]
       \/ stored = [k \in Keys |-> Accepted[k][2] + 1]
    /\ saving = NoSave
    /\ saves = 0
    /\ submitted = Unknown

SettingsNext == (\E v \in Submissions : BeginSave(v)) \/ SaveKey \/ SaveDies

SettingsSpec == SettingsInit /\ [][SettingsNext]_settingsVars
-----------------------------------------------------------------------------
\* What the form accepted and saved is what the program uses, for every setting and at
\* both ends of its range, unless a submission was cut short.
SettingsTakeEffect == saving = NoSave /\ submitted # Unknown => Used = submitted
=============================================================================
