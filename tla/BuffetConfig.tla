---------------------------- MODULE BuffetConfig ----------------------------
(***************************************************************************)
(* The settings weaved keeps for libweave (src/buffet/buffet_config.cc):   *)
(* one encrypted file per name, the default settings under the empty name. *)
(* Encryption, decryption, reads and writes may each fail at any time; a   *)
(* write is atomic (ImportantFileWriter); the process may die between a    *)
(* write and the callback that reports it.                                 *)
(***************************************************************************)
EXTENDS Integers, FiniteSets

CONSTANTS Names,    \* of settings
          Default,  \* the empty name
          Values,   \* settings libweave saves
          Empty,    \* the empty text
          Missing,  \* a file that does not exist
          MaxSaves  \* bound on calls of SaveSettings

\* A name is a text too, the empty name the empty text.
ASSUME ConfigAssumption ==
  /\ Default \in Names
  /\ Empty \notin Values \cup Names
  /\ Missing \notin {Empty} \cup Values \cup Names
  /\ MaxSaves \in Nat

Texts == {Empty} \cup Values \cup (Names \ {Default})
TextOf(name) == IF name = Default THEN Empty ELSE name

Sealed(text) == <<"ciphertext", text>>
Cleared == <<"empty file", Empty>>
Contents == {<<"missing", Missing>>, Cleared} \cup {Sealed(t) : t \in Texts}

VARIABLES
  file,      \* content of each settings file
  saves,     \* number of SaveSettings calls
  latest,    \* the last of them for each name, 0 for none
  given,     \* texts SaveSettings was ever given for each name
  stored,    \* the text whose last save for a name was reported done, or Missing
  callbacks, \* callbacks posted: <<name, number, text, done>>
  loaded     \* what LoadSettings returned last for each name

callerVars == <<saves, latest, given, stored>>
vars == <<file, callerVars, callbacks, loaded>>

TypeOK ==
  /\ file \in [Names -> Contents]
  /\ saves \in 0..MaxSaves
  /\ latest \in [Names -> 0..MaxSaves]
  /\ given \in [Names -> SUBSET Values]
  /\ stored \in [Names -> Values \cup {Missing}]
  /\ callbacks \subseteq Names \X (1..MaxSaves) \X Values \X BOOLEAN
  /\ loaded \in [Names -> Texts]

Init ==
  /\ file = [n \in Names |-> <<"missing", Missing>>]
  /\ saves = 0
  /\ latest = [n \in Names |-> 0]
  /\ given = [n \in Names |-> {}]
  /\ stored = [n \in Names |-> Missing]
  /\ callbacks = {}
  /\ loaded = [n \in Names |-> Empty]

\* A file that keeps the plain text when it cannot be encrypted.
WrittenPlain(name, text, encrypted, written) ==
  IF ~written THEN file
  ELSE [file EXCEPT ![name] = IF encrypted THEN Sealed(text) ELSE text]

\* What is left in the file of a name when its text is written.
Written(name, text, encrypted, written) ==
  IF ~written THEN file
  ELSE [file EXCEPT ![name] = IF encrypted THEN Sealed(text) ELSE Cleared]

\* A SaveSettings that reports only the write.
SaveReportingWriteOnly(name, text, encrypted, written) ==
  /\ saves < MaxSaves
  /\ file' = Written(name, text, encrypted, written)
  /\ saves' = saves + 1
  /\ latest' = [latest EXCEPT ![name] = saves + 1]
  /\ given' = [given EXCEPT ![name] = @ \cup {text}]
  /\ stored' = [stored EXCEPT ![name] = Missing]
  /\ callbacks' = callbacks \cup {<<name, saves + 1, text, written>>}
  /\ UNCHANGED loaded

\* BuffetConfig::SaveSettings: a text that cannot be encrypted clears the
\* file; either failure is reported, later, to the callback.
SaveSettings(name, text, encrypted, written) ==
  /\ saves < MaxSaves
  /\ file' = Written(name, text, encrypted, written)
  /\ saves' = saves + 1
  /\ latest' = [latest EXCEPT ![name] = saves + 1]
  /\ given' = [given EXCEPT ![name] = @ \cup {text}]
  /\ stored' = [stored EXCEPT ![name] = Missing]
  /\ callbacks' = callbacks \cup {<<name, saves + 1, text, encrypted /\ written>>}
  /\ UNCHANGED loaded

\* The callback of a save runs; its caller trusts the last one.
RunCallback(cb) ==
  /\ cb \in callbacks
  /\ callbacks' = callbacks \ {cb}
  /\ stored' = IF cb[4] /\ latest[cb[1]] = cb[2]
               THEN [stored EXCEPT ![cb[1]] = cb[3]] ELSE stored
  /\ UNCHANGED <<file, saves, latest, given, loaded>>

\* BuffetConfig::LoadSettings of a file that cannot be read.
LoadUnreadable(name) ==
  /\ loaded' = [loaded EXCEPT ![name] = Empty]
  /\ UNCHANGED <<file, callerVars, callbacks>>

\* ... decrypted without authentication: anything may come out.
LoadUnauthenticated(name) ==
  /\ file[name][1] # "missing"
  /\ \E t \in Texts : loaded' = [loaded EXCEPT ![name] = t]
  /\ UNCHANGED <<file, callerVars, callbacks>>

\* ... that is read and decrypted.
LoadDecrypted(name) ==
  /\ file[name][1] # "missing"
  /\ loaded' = [loaded EXCEPT ![name] = file[name][2]]
  /\ UNCHANGED <<file, callerVars, callbacks>>

\* ... that cannot be decrypted.  It calls SaveSettings(std::string(), name,
\* {}), whose first parameter is the name and second the text.
LoadUndecryptable(name, encrypted, written) ==
  /\ file[name][1] # "missing"
  /\ loaded' = [loaded EXCEPT ![name] = Empty]
  /\ file' = Written(Default, TextOf(name), encrypted, written)
  /\ UNCHANGED <<callerVars, callbacks>>

\* weaved dies: the callbacks it had posted are lost, the files are not.
Crash ==
  /\ callbacks # {}
  /\ callbacks' = {}
  /\ UNCHANGED <<file, callerVars, loaded>>

Next ==
  \/ \E name \in Names, encrypted, written \in BOOLEAN :
       \/ \E text \in Values : SaveSettings(name, text, encrypted, written)
       \/ LoadUndecryptable(name, encrypted, written)
  \/ \E cb \in callbacks : RunCallback(cb)
  \/ \E name \in Names :
       \/ LoadUnreadable(name)
       \/ LoadDecrypted(name)
  \/ Crash

Spec == Init /\ [][Next]_vars

-----------------------------------------------------------------------------
\* Named settings whose last SaveSettings reported success are in their file,
\* encrypted, through crashes, failed loads and writes of other settings.
ReportedIsDurable ==
  \A n \in Names \ {Default} :
    stored[n] # Missing => file[n] = Sealed(stored[n])

\* LoadSettings of named settings gives something that was saved under that
\* name, or nothing.
NamedLoadsItsOwn ==
  \A n \in Names \ {Default} : loaded[n] \in {Empty} \cup given[n]

\* "Failed to decrypt settings, proceeding with empty settings." (and the test's
\* "Decryption fails -> empty settings loaded."): whatever name the file that
\* cannot be decrypted has, no name loads what was not saved under it.
EveryNameLoadsItsOwn ==
  \A n \in Names : loaded[n] \in {Empty} \cup given[n]

=============================================================================
