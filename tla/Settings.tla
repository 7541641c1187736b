------------------------------ MODULE Settings ------------------------------
(* The settings of the system (system-settings.service.ts): one row of JSON,   *)
(* read, merged with the defaults and a change, and written back whole.       *)
EXTENDS Requests, Integers

CONSTANTS
  Fields,        \* the fields of the six sections
  SectionOf,     \* the section of each
  SettingValues, \* what a field may be set to; 0 is its default
  Missing

ASSUME SettingsAssumption == 0 \in SettingValues /\ Missing \notin [Fields -> SettingValues]

VARIABLES
  settings,      \* the row of system_settings, Missing before the first request
  given,         \* ghost: the last value given to each field
  answer,        \* the last answer of findAll
  settingsRaced  \* ghost: two handlers were in flight at once

svars == <<settings, given, answer, settingsRaced>>

getDefaultSettings == [f \in Fields |-> 0]

SettingsInit ==
  /\ settings = Missing /\ answer = getDefaultSettings
  /\ given = getDefaultSettings /\ settingsRaced = FALSE

BeginSettings(p, h) ==
  /\ Idle(p)
  /\ Become(p, h)
  /\ settingsRaced' = (settingsRaced \/ \E q \in Procs \ {p} : ~Idle(q))
  /\ UNCHANGED <<settings, given, answer>>

\* {...defaults.section, ...current.section, ...update.section}, for each section.
Merged(current, update) ==
  [f \in Fields |-> IF f \in DOMAIN update THEN update[f]
                    ELSE IF f \in DOMAIN current THEN current[f] ELSE getDefaultSettings[f]]

Current == IF settings = Missing THEN getDefaultSettings ELSE settings

\* One section, of what findAll would answer.
findOne(section) == [f \in {g \in Fields : SectionOf[g] = section} |-> Merged(Current, << >>)[f]]

updateSettings(p, new) ==
  BeginSettings(p, [pc |-> "settings_upsert", merged |-> Merged(Current, new), new |-> new])

Upsert(p) ==
  LET h == handler[p] IN
  /\ In(p, "settings_upsert")
  /\ settings' = h.merged
  /\ given' = [f \in Fields |-> IF f \in DOMAIN h.new THEN h.new[f] ELSE given[f]]
  /\ Finish(p)
  /\ UNCHANGED <<answer, settingsRaced>>

\* findAll answers what it has read, or creates the row it has missed.
findAll(p) ==
  IF settings = Missing THEN BeginSettings(p, [pc |-> "settings_create"])
  ELSE /\ Idle(p)
       /\ answer' = Merged(settings, << >>)
       /\ UNCHANGED <<settings, given, settingsRaced, rvars>>

\* The row is there by now if another request was faster: this one throws.
CreateDefaults(p) ==
  /\ In(p, "settings_create")
  /\ IF settings # Missing THEN UNCHANGED <<settings, answer>>
     ELSE settings' = getDefaultSettings /\ answer' = getDefaultSettings
  /\ Finish(p)
  /\ UNCHANGED <<given, settingsRaced>>

\* One field, or all of a section.
Changes == UNION {[fs -> SettingValues] : fs \in {{f} : f \in Fields} \cup
                   {{f \in Fields : SectionOf[f] = SectionOf[g]} : g \in Fields}}

SettingsRequest(p) ==
  \/ \E new \in Changes : updateSettings(p, new)
  \/ Upsert(p) \/ findAll(p) \/ CreateDefaults(p)

SettingsNext == \E p \in Procs : SettingsRequest(p) \/ (Dies(p) /\ UNCHANGED svars)

SettingsSpec == SettingsInit /\ RequestsInit /\ [][SettingsNext]_<<svars, rvars>>

-----------------------------------------------------------------------------
SettingsTypeOK ==
  /\ settings = Missing \/ settings \in [Fields -> SettingValues]
  /\ answer \in [Fields -> SettingValues]

\* update writes the whole row back: where no two requests met, a section answers
\* the last value each of its fields was given, whatever the others were set to.
SettingsKeepSections ==
  ~settingsRaced => \A g \in Fields : \A f \in DOMAIN findOne(SectionOf[g]) : findOne(SectionOf[g])[f] = given[f]
=============================================================================
