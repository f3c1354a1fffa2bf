------------------------------ MODULE Settings ------------------------------
(***************************************************************************)
(* The user's settings: config.yaml and its copy in memory (core/config.py, *)
(* core/config_migrations.py, core/settings_schema.py).  They are read when *)
(* the program starts and written after each update from the settings page. *)
(*                                                                         *)
(* A file is a version and a sequence of entries [key, value], in the      *)
(* order in which they are read.  One key stands for each kind of field;   *)
(* "A" is another spelling of the value "a", "bad" is no value of a number *)
(* or a choice, "mask" is the placeholder shown instead of a secret.       *)
(***************************************************************************)
EXTENDS Naturals, Sequences

Editable == {"provider",   \* a choice
             "secret",     \* an API key
             "path",       \* an optional text: empty is stored as none
             "seconds"}    \* a number, from the legacy key before version 2
Known    == Editable \cup {"batch"}   \* a number that only the file can set
Legacy   == "chunk_length"

CurrentVersion == 2
Default == [provider |-> "b", secret |-> "empty", path |-> "none", seconds |-> "b", batch |-> "b"]

\* Outcomes of a normalisation: the value, or the exception.
Fails == "exception"

\* normalize_setting_value, of a field of the settings page.
Normal(key, value) ==
  IF key \in {"provider", "seconds"}
  THEN IF value \in {"a", "b"} THEN value
       ELSE IF key = "provider" /\ value = "A" THEN "a" ELSE Fails
  ELSE IF key = "path" /\ value = "empty" THEN "none"
  ELSE IF value = "none" THEN "empty" ELSE value

\* The value of any known key of the file.
Read(key, value) ==
  IF key = "secret" /\ value = "mask" THEN "empty"
  ELSE IF key \in Editable THEN Normal(key, value)
  ELSE IF value \in {"a", "b"} THEN value ELSE Fails

-----------------------------------------------------------------------------
\* The entries that are left when some keys are dropped, after each entry.
Dropping(entries, keys) ==
  LET after[n \in 0..Len(entries)] ==
        IF n = 0 THEN <<>>
        ELSE IF entries[n].key \in keys THEN after[n - 1] ELSE Append(after[n - 1], entries[n])
  IN after
Without(entries, keys) == Dropping(entries, keys)[Len(entries)]

\* migrate_config: the legacy key is replaced; a newer file is not understood.
Supported(file) == file.version <= CurrentVersion

Migrated(file) ==
  LET kept       == Without(file.entries, {Legacy})
      Has(key)   == \E n \in DOMAIN file.entries : file.entries[n].key = key
      legacy     == (CHOOSE n \in DOMAIN file.entries : file.entries[n].key = Legacy)
      value      == IF Has(Legacy) /\ file.entries[legacy].value \in {"a", "b"}
                    THEN file.entries[legacy].value ELSE "b"
  IN IF file.version < CurrentVersion /\ ~Has("seconds")
     THEN Append(kept, [key |-> "seconds", value |-> value]) ELSE kept

\* One entry; nothing is read after an entry that fails.
ReadEntry(acc, e) ==
  IF acc.stopped THEN acc
  ELSE IF e.key \notin Known THEN [acc EXCEPT !.unknown = Append(@, e)]
  ELSE IF Read(e.key, e.value) = Fails THEN [acc EXCEPT !.stopped = TRUE]
  ELSE [acc EXCEPT !.known[e.key] = Read(e.key, e.value)]

\* What has been read after each entry.
Reading(entries) ==
  LET after[n \in 0..Len(entries)] ==
        IF n = 0 THEN [known |-> Default, unknown |-> <<>>, stopped |-> FALSE]
                 ELSE ReadEntry(after[n - 1], entries[n])
  IN after

\* _load_from_file: an exception is logged, and what was read before it stays.
Load(file) ==
  LET entries == IF Supported(file) THEN Migrated(file) ELSE <<>>
      read    == Reading(entries)[Len(entries)]
  IN [known |-> read.known, unknown |-> read.unknown]

\* save_to_file: the new file is written beside the old one and replaces it.
Order == <<"provider", "secret", "path", "seconds", "batch">>
Saved(memory) ==
  [version |-> CurrentVersion,
   entries |-> memory.unknown \o [n \in DOMAIN Order |-> [key |-> Order[n], value |-> memory.known[Order[n]]]]]

\* Faulty variant: the placeholder of a secret is taken for the secret.
SentWithMask(batch) == {key \in DOMAIN batch : key \in Editable}

\* What is taken of an update: a value for some keys, known or not.
Sent(batch) == {key \in DOMAIN batch : key \in Editable /\ ~(key = "secret" /\ batch[key] = "mask")}

Accepted(batch) == \A key \in Sent(batch) : Normal(key, batch[key]) # Fails

\* Settings.update: the memory and the file after it.  The write may fail: then
\* both are what they were.
Update(memory, file, batch, writes) ==
  IF Accepted(batch) /\ writes
  THEN LET new == [memory EXCEPT !.known =
                    [key \in Known |-> IF key \in Sent(batch) THEN Normal(key, batch[key]) ELSE memory.known[key]]]
       IN [memory |-> new, file |-> Saved(new)]
  ELSE [memory |-> memory, file |-> file]

\* to_public_dict: what the settings page shows.
Public(memory) ==
  [key \in Editable |-> IF key = "secret" /\ memory.known[key] # "empty" THEN "mask"
                        ELSE IF memory.known[key] = "none" THEN "empty" ELSE memory.known[key]]

-----------------------------------------------------------------------------
(* Properties, for any file and any update.                                *)

\* Nothing in the program tells an empty text from none.
SameValue(a, b)  == a = b \/ {a, b} \subseteq {"none", "empty"}
SameMemory(m, n) == m.unknown = n.unknown /\ \A key \in Known : SameValue(m.known[key], n.known[key])

\* A file that can be read to its end.
Readable(file) ==
  /\ Supported(file)
  /\ \A n \in DOMAIN Migrated(file) :
       LET e == Migrated(file)[n] IN e.key \in Known => Read(e.key, e.value) # Fails

\* Whatever the file and the update: a restart after a save, or after a failed
\* one, finds the settings that the program had; saving the page as it is shown
\* changes nothing; no placeholder is stored for a secret; and of a file that
\* can be read, a save changes nothing but what the user changed.
SettingsSurvive(file, batch) ==
  LET memory == Load(file)
  IN \A writes \in BOOLEAN :
       LET after == Update(memory, file, batch, writes)
       IN /\ SameMemory(Load(after.file), after.memory)
          /\ ~(Accepted(batch) /\ writes) => after.memory = memory
          /\ SameMemory(Update(after.memory, after.file, Public(after.memory), TRUE).memory, after.memory)
          /\ after.memory.known["secret"] # "mask"
          /\ Readable(file) /\ writes /\ Accepted(batch) =>
               /\ Without(after.file.entries, Known) = Without(Migrated(file), Known)
               /\ \A n \in DOMAIN Migrated(file) :
                    LET e == Migrated(file)[n]
                    IN \/ e.key \notin Known \/ e.key \in Sent(batch)
                       \/ \E m \in n + 1..Len(Migrated(file)) : Migrated(file)[m].key = e.key
                       \/ SameValue(after.memory.known[e.key], Read(e.key, e.value))
=============================================================================
