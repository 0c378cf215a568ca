------------------------- MODULE BuffetConfigProofs -------------------------
(***************************************************************************)
(* BuffetConfig for any settings, names and number of saves: its types,    *)
(* that what was reported stored stays stored, and that named settings     *)
(* load their own text or none.                                            *)
(***************************************************************************)
EXTENDS BuffetConfig, TLAPS

\* What is written into a file is one of its contents.
LEMMA WrittenTypes ==
  ASSUME file \in [Names -> Contents], NEW name \in Names, NEW text \in Texts,
         NEW encrypted \in BOOLEAN, NEW written \in BOOLEAN
  PROVE  Written(name, text, encrypted, written) \in [Names -> Contents]
<1>1. Sealed(text) \in Contents /\ Cleared \in Contents
  BY DEF Contents
<1> QED BY <1>1 DEF Written

\* Only the file of the name changes, to the text sealed or to nothing.
LEMMA WrittenFile ==
  ASSUME file \in [Names -> Contents], NEW name \in Names, NEW text,
         NEW encrypted \in BOOLEAN, NEW written \in BOOLEAN
  PROVE  LET f == Written(name, text, encrypted, written)
         IN  /\ f[name] \in {file[name], Sealed(text), Cleared}
             /\ encrypted /\ written => f[name] = Sealed(text)
             /\ \A n \in Names \ {name} : f[n] = file[n]
BY DEF Written

\* A name, as a text, is one of the texts.
LEMMA TextTypes ==
  ASSUME NEW name \in Names PROVE TextOf(name) \in Texts
BY DEF TextOf, Texts

\* No file and no callback: the initial types.
LEMMA InitTypes == ASSUME ConfigAssumption, Init PROVE TypeOK
<1>1. <<"missing", Missing>> \in Contents /\ Empty \in Texts
  BY DEF Contents, Texts
<1>2. 0 \in 0..MaxSaves
  BY DEF ConfigAssumption
<1> QED BY <1>1, <1>2 DEF Init, TypeOK

\* Every step keeps the types.
LEMMA NextTypes == ASSUME ConfigAssumption, TypeOK, [Next]_vars PROVE TypeOK'
<1>1. CASE UNCHANGED vars
  BY <1>1 DEF TypeOK, vars, callerVars
<1>2. ASSUME NEW name \in Names, NEW encrypted \in BOOLEAN,
             NEW written \in BOOLEAN, NEW text \in Values,
             SaveSettings(name, text, encrypted, written)
      PROVE  TypeOK'
  <2>1. file' \in [Names -> Contents]
    BY <1>2, WrittenTypes DEF SaveSettings, TypeOK, Texts
  <2>2. saves + 1 \in 1..MaxSaves /\ saves + 1 \in 0..MaxSaves
    BY <1>2 DEF SaveSettings, TypeOK, ConfigAssumption
  <2>3. <<name, saves + 1, text, encrypted /\ written>>
          \in Names \X (1..MaxSaves) \X Values \X BOOLEAN
    BY <2>2
  <2>4. latest' \in [Names -> 0..MaxSaves]
    BY <1>2, <2>2 DEF SaveSettings, TypeOK
  <2>5. given' \in [Names -> SUBSET Values]
    BY <1>2 DEF SaveSettings, TypeOK
  <2>6. stored' \in [Names -> Values \cup {Missing}]
    BY <1>2 DEF SaveSettings, TypeOK
  <2> QED
    BY <1>2, <2>1, <2>2, <2>3, <2>4, <2>5, <2>6 DEF SaveSettings, TypeOK
<1>3. ASSUME NEW name \in Names, NEW encrypted \in BOOLEAN,
             NEW written \in BOOLEAN,
             LoadUndecryptable(name, encrypted, written)
      PROVE  TypeOK'
  <2>1. file' \in [Names -> Contents]
    BY <1>3, WrittenTypes, TextTypes DEF LoadUndecryptable, TypeOK,
                                         ConfigAssumption
  <2>2. loaded' \in [Names -> Texts]
    BY <1>3 DEF LoadUndecryptable, TypeOK, Texts
  <2> QED BY <1>3, <2>1, <2>2 DEF LoadUndecryptable, TypeOK, callerVars
<1>4. ASSUME NEW cb \in callbacks, RunCallback(cb) PROVE TypeOK'
  <2>1. cb[3] \in Values
    BY DEF TypeOK
  <2>2. stored' \in [Names -> Values \cup {Missing}]
    BY <1>4, <2>1 DEF RunCallback, TypeOK
  <2> QED BY <1>4, <2>2 DEF RunCallback, TypeOK
<1>5. ASSUME NEW name \in Names, LoadUnreadable(name) PROVE TypeOK'
  BY <1>5 DEF LoadUnreadable, TypeOK, Texts, callerVars
<1>6. ASSUME NEW name \in Names, LoadDecrypted(name) PROVE TypeOK'
  <2>1. file[name] \in Contents /\ file[name][1] # "missing"
    BY <1>6 DEF LoadDecrypted, TypeOK
  <2>2. file[name][2] \in Texts
    <3>1. file[name] = Cleared \/ \E t \in Texts : file[name] = Sealed(t)
      BY <2>1 DEF Contents
    <3>2. Cleared[2] = Empty /\ \A t : Sealed(t)[2] = t
      BY DEF Cleared, Sealed
    <3> QED BY <3>1, <3>2 DEF Texts
  <2> QED BY <1>6, <2>2 DEF LoadDecrypted, TypeOK, callerVars
<1>7. CASE Crash
  BY <1>7 DEF Crash, TypeOK, callerVars
<1> QED BY <1>1, <1>2, <1>3, <1>4, <1>5, <1>6, <1>7 DEF Next

\* Type correctness of BuffetConfig.
THEOREM TypeCorrect == ASSUME ConfigAssumption PROVE Spec => []TypeOK
BY InitTypes, NextTypes, PTL DEF Spec

(***************************************************************************)
(* Durability.  The report of a name's last save is true before it is      *)
(* given, and no later step but a save of that name touches its file.      *)
(***************************************************************************)
ReportsAreTrue ==
  \A cb \in callbacks :
    /\ cb[2] <= saves
    /\ cb[1] # Default /\ cb[4] /\ latest[cb[1]] = cb[2]
         => file[cb[1]] = Sealed(cb[3])

\* A named file holds a text saved under its name, or nothing.
FilesAreOwn ==
  \A n \in Names \ {Default} :
    \/ file[n] \in {<<"missing", Missing>>, Cleared}
    \/ \E t \in given[n] : file[n] = Sealed(t)

Inv == /\ ReportsAreTrue
       /\ FilesAreOwn
       /\ ReportedIsDurable
       /\ NamedLoadsItsOwn

\* Nothing is stored, reported or loaded at first.
LEMMA InitInv == ASSUME ConfigAssumption, Init PROVE Inv
BY DEF Init, Inv, ReportsAreTrue, FilesAreOwn, ReportedIsDurable,
       NamedLoadsItsOwn

\* A save of a name makes the earlier reports for it void.
LEMMA SaveInv ==
  ASSUME ConfigAssumption, TypeOK, Inv, NEW name \in Names,
         NEW encrypted \in BOOLEAN, NEW written \in BOOLEAN, NEW text \in Values,
         SaveSettings(name, text, encrypted, written)
  PROVE  Inv'
<1> DEFINE new == <<name, saves + 1, text, encrypted /\ written>>
<1>1. /\ file'[name] \in {file[name], Sealed(text), Cleared}
      /\ encrypted /\ written => file'[name] = Sealed(text)
      /\ \A n \in Names \ {name} : file'[n] = file[n]
  BY WrittenFile DEF SaveSettings, TypeOK
<1>2. /\ saves' = saves + 1 /\ saves \in Nat
      /\ latest'[name] = saves + 1 /\ stored'[name] = Missing
      /\ given'[name] = given[name] \cup {text}
      /\ \A n \in Names \ {name} : /\ latest'[n] = latest[n]
                                   /\ stored'[n] = stored[n]
                                   /\ given'[n] = given[n]
      /\ callbacks' = callbacks \cup {new}
      /\ loaded' = loaded
  BY DEF SaveSettings, TypeOK
<1>3. ReportsAreTrue'
  <2>1. ASSUME NEW cb \in callbacks
        PROVE  /\ cb[2] <= saves'
               /\ cb[1] # Default /\ cb[4] /\ latest'[cb[1]] = cb[2]
                    => file'[cb[1]] = Sealed(cb[3])
    <3>1. cb[1] \in Names /\ cb[2] \in Nat /\ cb[2] <= saves
      BY DEF TypeOK, Inv, ReportsAreTrue
    <3>2. CASE cb[1] = name
      BY <1>2, <3>1, <3>2
    <3>3. CASE cb[1] # name
      BY <1>1, <1>2, <3>1, <3>3 DEF Inv, ReportsAreTrue
    <3> QED BY <3>2, <3>3
  <2>2. /\ new[2] <= saves'
        /\ new[4] => file'[new[1]] = Sealed(new[3])
    BY <1>1, <1>2
  <2> QED BY <1>2, <2>1, <2>2 DEF ReportsAreTrue
<1>4. FilesAreOwn'
  BY <1>1, <1>2 DEF Inv, FilesAreOwn
<1>5. ReportedIsDurable'
  BY <1>1, <1>2 DEF Inv, ReportedIsDurable
<1>6. NamedLoadsItsOwn'
  BY <1>2 DEF Inv, NamedLoadsItsOwn
<1> QED BY <1>3, <1>4, <1>5, <1>6 DEF Inv

\* Every step keeps both halves: loads write the default file only, a save
\* of a name makes its earlier reports void.
LEMMA NextInv == ASSUME ConfigAssumption, TypeOK, Inv, [Next]_vars PROVE Inv'
<1>1. CASE UNCHANGED vars
  BY <1>1 DEF Inv, ReportsAreTrue, FilesAreOwn, ReportedIsDurable,
              NamedLoadsItsOwn, vars, callerVars
<1>2. ASSUME NEW name \in Names, NEW encrypted \in BOOLEAN,
             NEW written \in BOOLEAN, NEW text \in Values,
             SaveSettings(name, text, encrypted, written)
      PROVE  Inv'
  BY <1>2, SaveInv
<1>3. ASSUME NEW name \in Names, NEW encrypted \in BOOLEAN,
             NEW written \in BOOLEAN,
             LoadUndecryptable(name, encrypted, written)
      PROVE  Inv'
  <2>1. \A n \in Names \ {Default} : file'[n] = file[n]
    <3>1. file' = Written(Default, TextOf(name), encrypted, written)
      BY <1>3 DEF LoadUndecryptable
    <3>2. file \in [Names -> Contents] /\ Default \in Names
      BY DEF TypeOK, ConfigAssumption
    <3>3. \A n \in Names \ {Default} :
            Written(Default, TextOf(name), encrypted, written)[n] = file[n]
      BY <3>2, WrittenFile
    <3> QED BY <3>1, <3>3
  <2>2. \A n \in Names : loaded'[n] \in {Empty, loaded[n]}
    BY <1>3 DEF LoadUndecryptable, TypeOK
  <2>3. UNCHANGED <<saves, latest, given, stored, callbacks>>
    BY <1>3 DEF LoadUndecryptable, callerVars
  <2>4. \A cb \in callbacks : cb[1] \in Names
    BY DEF TypeOK
  <2> QED
    BY <2>1, <2>2, <2>3, <2>4 DEF Inv, ReportsAreTrue, FilesAreOwn,
       ReportedIsDurable, NamedLoadsItsOwn
<1>4. ASSUME NEW cb \in callbacks, RunCallback(cb) PROVE Inv'
  <2>1. cb[1] \in Names
    BY DEF TypeOK
  <2>2. ReportedIsDurable'
    BY <1>4, <2>1 DEF RunCallback, Inv, ReportsAreTrue, ReportedIsDurable,
                      TypeOK
  <2> QED
    BY <1>4, <2>2 DEF RunCallback, Inv, ReportsAreTrue, FilesAreOwn,
                      NamedLoadsItsOwn
<1>5. ASSUME NEW name \in Names, LoadUnreadable(name) PROVE Inv'
  BY <1>5 DEF LoadUnreadable, Inv, ReportsAreTrue, FilesAreOwn,
              ReportedIsDurable, NamedLoadsItsOwn, TypeOK, callerVars
<1>6. ASSUME NEW name \in Names, LoadDecrypted(name) PROVE Inv'
  <2>1. name # Default => file[name][2] \in {Empty} \cup given[name]
    <3>1. file[name][1] # "missing"
      BY <1>6 DEF LoadDecrypted
    <3>2. <<"missing", Missing>>[1] = "missing"
      OBVIOUS
    <3>3. Cleared[2] = Empty /\ \A t : Sealed(t)[2] = t
      BY DEF Cleared, Sealed
    <3> QED BY <3>1, <3>2, <3>3 DEF Inv, FilesAreOwn
  <2>2. NamedLoadsItsOwn'
    BY <1>6, <2>1 DEF LoadDecrypted, Inv, NamedLoadsItsOwn, TypeOK, callerVars
  <2> QED
    BY <1>6, <2>2 DEF LoadDecrypted, Inv, ReportsAreTrue, FilesAreOwn,
                      ReportedIsDurable, callerVars
<1>7. CASE Crash
  BY <1>7 DEF Crash, Inv, ReportsAreTrue, FilesAreOwn, ReportedIsDurable,
              NamedLoadsItsOwn, callerVars
<1> QED BY <1>1, <1>2, <1>3, <1>4, <1>5, <1>6, <1>7 DEF Next

\* Both hold in every state of a behaviour.
LEMMA SpecInv == ASSUME ConfigAssumption PROVE Spec => [](TypeOK /\ Inv)
<1>1. Init => TypeOK /\ Inv
  BY InitTypes, InitInv
<1>2. TypeOK /\ Inv /\ [Next]_vars => TypeOK' /\ Inv'
  BY NextTypes, NextInv
<1> QED BY <1>1, <1>2, PTL DEF Spec

\* Named settings reported stored are in their file until the next save.
THEOREM ReportsAreDurable ==
  ASSUME ConfigAssumption PROVE Spec => []ReportedIsDurable
<1>1. TypeOK /\ Inv => ReportedIsDurable
  BY DEF Inv
<1> QED BY <1>1, SpecInv, PTL

\* Named settings load what was saved under their name, or nothing.
THEOREM NamesLoadTheirOwn ==
  ASSUME ConfigAssumption PROVE Spec => []NamedLoadsItsOwn
<1>1. TypeOK /\ Inv => NamedLoadsItsOwn
  BY DEF Inv
<1> QED BY <1>1, SpecInv, PTL

=============================================================================
