----------------------------- MODULE BrainProofs -----------------------------
(***************************************************************************)
(* Proofs about Brain, for any number of agents, tools, keys, sessions and *)
(* threads of a pool, and any mix of requests.                             *)
(***************************************************************************)
EXTENDS Brain, FiniteSetTheorems, NaturalsInduction, SequenceTheorems, TLAPS, WellFoundedInduction

-----------------------------------------------------------------------------
(* The settings. *)

\* While .env is being written, nobody changes the settings it is written from.
SettingsInv ==
    /\ SettingsTypeOK
    /\ envFile = [whole |-> envFile.whole, values |-> envFile.values]
    /\ saved = [known |-> saved.known, values |-> saved.values]
    /\ saving \in BOOLEAN /\ envFile.whole \in BOOLEAN /\ saved.known \in BOOLEAN
    /\ \A k \in Keys : settings[k] # Unset
    /\ saving => \A k \in Keys \ Misnamed : envFile.values[k] = Serialized(k, settings[k])
    /\ CopiesFit /\ SavedComesBack

\* What a step may do to them.
SettingsMove ==
    \/ UNCHANGED settingsVars
    \/ ~saving /\ (Refreshes \/ TellsNobody)
    \/ SaveWrites
    \/ SettingsRestart

\* A chat for the router leaves the rest alone.
LEMMA ChatRests ==
    ASSUME NEW t, ChatInLoop(t) PROVE RouteRest /\ UNCHANGED settingsVars
  BY DEF ChatInLoop, ChatAsks, ChatRefuses, ChatReplies, ChatCounts, ChatTrims

LEMMA SettingsSteps ==
    ASSUME [Next]_brainVars PROVE SettingsMove
  <1>1. CASE UNCHANGED brainVars
    BY <1>1 DEF brainVars, SettingsMove
  <1>2. CASE Commands
    BY <1>2 DEF Commands, StartNewSession, ResumeSession, DeleteSession, UseAgent, Show, UseSkill,
       DropSkill, ReloadSkills, ConfigCommand, Configure, Command, Arrives, Free, CreateAgent,
       SetAgentTools, SetAgentModel, SetAgentPersona, ToSave, Receive, StartAgents, ServeRest, SettingsMove
  <1>3. CASE Serving
    BY <1>3 DEF Serving, ConfigSaved, OpenAgentsFile, WriteAgentsFile, SaveRest, SaveUserRow,
       ChatAnswers, LoopAnswers, SaveAnswer, Count, Trim, Learn, AgentsAnswer, ServeRest, SettingsMove
  <1>4. ASSUME NEW t \in Threads, Looping(t) PROVE SettingsMove
    BY <1>4, ChatRests DEF Looping, LoopSteps, ClearInLoop, ForgetInLoop, RememberInLoop,
       ConfigureInLoop, Configure, RouteBreaks, SettingsMove
  <1>5. ASSUME NEW w \in Workers, PoolSteps(w) PROVE SettingsMove
    BY <1>5 DEF PoolSteps, SettingsMove
  <1>6. CASE Background \/ Leaves \/ FinalizeFails
    BY <1>6 DEF Background, Extract, Summarize, TaskRest, Leaves, FinalizeFails, ServeRest, SettingsMove
  <1>7. CASE Restart
    BY <1>7 DEF Restart, SettingsMove
  <1>8. QED
    BY <1>1, <1>2, <1>3, <1>4, <1>5, <1>6, <1>7 DEF Next, Serves

\* Every component is in the list, is a tool or is told by the loop, but for
\* those that are made once.
LEMMA ToldOrMadeOnce ==
    \A c \in DOMAIN Copies : c \in Reached \cup MadeOnce \cup {"background"}
  BY DEF Copies, Reached, Refreshables, RefreshedTools, MadeOnce

LEMMA CopiesHold ==
    ASSUME NEW copy \in Copied, copy[1] \notin MadeOnce, copy[2] \notin StartupOnly
    PROVE  copy[1] \in Reached /\ Recopies(copy)
  <1>1. copy[1] \in DOMAIN Copies /\ copy[2] \in Copies[copy[1]]
    BY DEF Copied
  <1>2. copy[1] # "background"
    BY <1>1 DEF Copies, StartupOnly
  <1>3. Recopies(copy)
    BY DEF Recopies, StartupOnly
  <1>4. QED
    BY <1>1, <1>2, <1>3, ToldOrMadeOnce

\* A refresh makes the copies fit.
LEMMA RefreshFits ==
    ASSUME cached' = Refreshed(cached, settings') PROVE CopiesFit' /\ DOMAIN cached' = Copied
  <1>1. DOMAIN cached' = Copied
    BY DEF Refreshed
  <1>2. ASSUME NEW copy \in Copied, copy[1] \notin MadeOnce, copy[2] \notin StartupOnly
        PROVE  cached'[copy] = CopyOf(copy, settings'[copy[2]])
    BY <1>2, CopiesHold DEF Refreshed
  <1>3. QED
    BY <1>1, <1>2 DEF CopiesFit

LEMMA AllCopiedFits ==
    ASSUME cached' = AllCopied(settings') PROVE CopiesFit' /\ DOMAIN cached' = Copied
  BY DEF AllCopied, CopiesFit

\* What is read of a line is read of it again once it is saved, and is what was
\* saved or one of the values that come back changed.
LEMMA ReadBack ==
    ASSUME NEW k \in Keys, NEW v, v # Unset, NEW back,
           back = ReadAs(k, FromLine(Serialized(k, v)))
    PROVE  /\ back = v \/ <<v, back>> \in ComeBackChanged(k)
           /\ ReadAs(k, FromLine(Serialized(k, back))) = back
  <1> USE DEF Unset, Default, Empty, Blank, Spaced, Tidy, Mixed, Lower, Malformed, Hashed, Cut
  <1>1. CASE v = Hashed
    <2>1. back = Cut
      BY <1>1 DEF ReadAs, FromLine, Serialized
    <2>2. <<v, back>> \in ComeBackChanged(k)
      BY <1>1, <2>1 DEF ComeBackChanged
    <2>3. QED
      BY <2>1, <2>2 DEF ReadAs, FromLine, Serialized
  <1>2. CASE v = Spaced
    BY <1>2 DEF ReadAs, FromLine, Serialized, ComeBackChanged, StrippedLists
  <1>3. CASE v = Blank \/ v = Empty
    <2>1. \/ back = v
          \/ k \in BareLists /\ v = Empty /\ back = Blank
      BY <1>3 DEF ReadAs, FromLine, Serialized
    <2>2. back = v \/ <<v, back>> \in ComeBackChanged(k)
      BY <2>1 DEF ComeBackChanged
    <2>3. k \in BareLists => ReadAs(k, FromLine(Serialized(k, Blank))) = Blank
      BY DEF ReadAs, FromLine, Serialized
    <2>4. QED
      BY <2>1, <2>2, <2>3
  <1>4. CASE v = Mixed
    <2>0. FromLine(Serialized(k, v)) = v
      BY <1>4 DEF FromLine, Serialized
    <2>1. back = v \/ (k \in LoweredLists /\ back = Lower)
      BY <1>4, <2>0 DEF ReadAs
    <2>2. back = v \/ <<v, back>> \in ComeBackChanged(k)
      BY <1>4, <2>1 DEF ComeBackChanged
    <2>3. ReadAs(k, FromLine(Serialized(k, Lower))) = Lower
      BY DEF ReadAs, FromLine, Serialized
    <2>4. CASE back = v
      BY <1>4, <2>4
    <2>5. QED
      BY <2>1, <2>2, <2>3, <2>4
  <1>5. CASE v = Malformed
    BY <1>5 DEF ReadAs, FromLine, Serialized, ComeBackChanged
  <1>6. CASE v \notin {Hashed, Spaced, Blank, Empty, Mixed, Malformed}
    BY <1>6 DEF ReadAs, FromLine, Serialized
  <1>7. QED
    BY <1>1, <1>2, <1>3, <1>4, <1>5, <1>6

LEMMA ReadIsSet ==
    ASSUME NEW k, NEW v PROVE ReadAs(k, v) # Unset
  BY DEF ReadAs, Unset, Default, Blank, Tidy, Lower

LEMMA SettingsStart ==
    ASSUME SettingsInit PROVE SettingsInv
  <1>1. \A k \in Keys : ReadAs(k, environ[k]) # Unset
    BY ReadIsSet
  <1>2. CopiesFit /\ DOMAIN cached = Copied
    BY DEF SettingsInit, AllCopied, CopiesFit
  <1>3. QED
    BY <1>1, <1>2 DEF SettingsInit, SettingsInv, SettingsTypeOK, SavedComesBack, FromEnviron,
       AtStart, AllOf

LEMMA SettingsNext ==
    ASSUME SettingsInv, SettingsMove PROVE SettingsInv'
  <1>1. CASE UNCHANGED settingsVars
    BY <1>1 DEF settingsVars, SettingsInv, SettingsTypeOK, CopiesFit, SavedComesBack
  <1>2. ASSUME NEW k \in Keys, NEW v, v # Unset, ~saving, settings' = [settings EXCEPT ![k] = v],
               \/ k \in StartupOnly \cup {LogLevel} /\ cached' = cached
               \/ cached' = Refreshed(cached, settings'),
               UNCHANGED <<environ, envFile, saving, saved>>
        PROVE  SettingsInv'
    <2>1. DOMAIN settings' = Keys /\ DOMAIN settings = Keys /\ DOMAIN cached = Copied
      BY <1>2 DEF SettingsInv, SettingsTypeOK
    <2>2. \A j \in Keys : settings'[j] # Unset
      BY <1>2, <2>1 DEF SettingsInv
    <2>3. CopiesFit' /\ DOMAIN cached' = Copied
      <3>1. CASE cached' = Refreshed(cached, settings')
        BY <3>1, RefreshFits
      <3>2. CASE k \in StartupOnly \cup {LogLevel} /\ cached' = cached
        <4>1. ASSUME NEW copy \in Copied, copy[2] \notin StartupOnly \cup {LogLevel}
              PROVE  settings'[copy[2]] = settings[copy[2]]
          BY <1>2, <2>1, <3>2, <4>1 DEF Copied
        <4>2. QED
          BY <2>1, <3>2, <4>1 DEF SettingsInv, CopiesFit
      <3>3. QED
        BY <1>2, <3>1, <3>2
    <2>4. SettingsTypeOK'
      BY <1>2, <2>1, <2>3 DEF SettingsInv, SettingsTypeOK
    <2>5. SavedComesBack'
      BY <1>2 DEF SettingsInv, SavedComesBack
    <2>6. QED
      BY <1>2, <2>2, <2>3, <2>4, <2>5 DEF SettingsInv
  <1>3. CASE ~saving /\ \E k \in Keys : \E v \in Values[k] : Set(k, v)
    BY <1>2, <1>3, SettingsAssumption DEF Set
  <1>4. CASE ~saving /\ \E k \in ModelKeys : \E v \in Values[k] : SwitchModel(k, v)
    BY <1>2, <1>4, SettingsAssumption DEF SwitchModel, ModelKeys
  <1>5. CASE ~saving /\ \E v \in Values[LogLevel] : ToggleLog(v)
    BY <1>2, <1>5, SettingsAssumption DEF ToggleLog
  <1>6. CASE SaveOpens
    <2>1. SettingsTypeOK'
      BY <1>6 DEF SaveOpens, SettingsInv, SettingsTypeOK, Written
    <2>2. CopiesFit' /\ \A k \in Keys : settings'[k] # Unset
      BY <1>6 DEF SaveOpens, SettingsInv, CopiesFit
    <2>3. QED
      BY <1>6, <2>1, <2>2 DEF SaveOpens, SettingsInv, SavedComesBack, Written
  <1>7. CASE SaveWrites
    <2>1. envFile' = [whole |-> TRUE, values |-> envFile.values]
      BY <1>7 DEF SaveWrites, SettingsInv
    <2>2. SettingsTypeOK' /\ CopiesFit' /\ \A k \in Keys : settings'[k] # Unset
      BY <1>7, <2>1 DEF SaveWrites, SettingsInv, SettingsTypeOK, CopiesFit
    <2>3. \A k \in Keys \ Misnamed :
             envFile.values[k] = Serialized(k, settings[k]) /\ settings[k] # Unset
      BY <1>7 DEF SaveWrites, SettingsInv
    <2>4. saved'.values = settings
      BY <1>7 DEF SaveWrites
    <2>5. SavedComesBack'
      <3>1. ASSUME NEW k \in Keys \ Misnamed, NEW back,
                   back = ReadAs(k, FromLine(envFile'.values[k]))
            PROVE  /\ back = saved'.values[k] \/ <<saved'.values[k], back>> \in ComeBackChanged(k)
                   /\ ReadAs(k, FromLine(Serialized(k, back))) = back
        BY <2>1, <2>3, <2>4, <3>1, ReadBack
      <3>2. QED
        BY <3>1 DEF SavedComesBack
    <2>6. QED
      BY <1>7, <2>1, <2>2, <2>5 DEF SaveWrites, SettingsInv
  <1>8. ASSUME NEW env PROVE \A k \in Keys : FromEnviron(env)[k] # Unset
    BY ReadIsSet DEF FromEnviron
  <1>9. CASE ~saving /\ Reload
    <2>1. CopiesFit' /\ DOMAIN cached' = Copied
      BY <1>9, RefreshFits DEF Reload
    <2>2. SettingsTypeOK'
      BY <1>9, <2>1 DEF Reload, SettingsInv, SettingsTypeOK, FromEnviron, Overridden
    <2>3. \A k \in Keys : settings'[k] # Unset
      BY <1>8, <1>9 DEF Reload
    <2>4. QED
      BY <1>9, <2>1, <2>2, <2>3 DEF Reload, SettingsInv, SavedComesBack
  <1>10. CASE SettingsRestart
    <2>1. CopiesFit' /\ DOMAIN cached' = Copied
      BY <1>10, AllCopiedFits DEF SettingsRestart
    <2>2. SettingsTypeOK'
      BY <1>10, <2>1 DEF SettingsRestart, SettingsInv, SettingsTypeOK, FromEnviron, AtStart, InFile, AllOf
    <2>3. \A k \in Keys : settings'[k] # Unset
      BY <1>8, <1>10 DEF SettingsRestart
    <2>4. saved' = [known |-> saved.known /\ envFile.whole, values |-> saved.values]
      BY <1>10 DEF SettingsRestart, SettingsInv
    <2>5. SavedComesBack'
      BY <1>10, <2>4 DEF SettingsRestart, SettingsInv, SavedComesBack, InFile
    <2>6. QED
      BY <1>10, <2>1, <2>2, <2>3, <2>4, <2>5 DEF SettingsRestart, SettingsInv
  <1>11. CASE ~saving /\ (Refreshes \/ TellsNobody)
    <2>1. ModelKeys \subseteq Keys
      BY DEF ModelKeys
    <2>2. QED
      BY <1>3, <1>4, <1>5, <1>6, <1>9, <1>11, <2>1 DEF Refreshes, TellsNobody
  <1>12. QED
    BY <1>1, <1>7, <1>10, <1>11 DEF SettingsMove

(***************************************************************************)
(* Every component but those that are made once works with the settings in *)
(* force, and what !save has written a restart or !reload reads again,     *)
(* but for the values that the text in .env and its reading change         *)
(* (brain.py _refresh_from_settings, config_handler.py, settings.py),      *)
(* whichever settings are followed.  !save empties .env before it writes   *)
(* it, and until it has, no command is served.                             *)
(***************************************************************************)
THEOREM SettingsAgree == Spec => []SettingsFit
  <1>1. Init => SettingsInv
    BY SettingsStart DEF Init
  <1>2. SettingsInv /\ [Next]_brainVars => SettingsInv'
    BY SettingsSteps, SettingsNext
  <1>3. SettingsInv => SettingsFit
    BY DEF SettingsInv, SettingsFit
  <1>4. QED
    BY <1>1, <1>2, <1>3, PTL DEF Spec

-----------------------------------------------------------------------------
(* What is done with a message. *)

\* The first words of a message, if it has any.
WordsAre(m, w, v) ==
    /\ m.lead = <<>> => w = ""
    /\ \A a : a # "" => (Starts(m, <<a>>) <=> w = a)
    /\ \A a, b : a # "" /\ b # "" => (Starts(m, <<a, b>>) <=> w = a /\ v = b)

LEMMA FirstWords ==
    ASSUME NEW s \in Seq(STRING)
    PROVE  /\ Len(s) \in Nat
           /\ s = <<>> => Len(s) = 0
           /\ Len(s) >= 1 => SubSeq(s, 1, 1) = <<s[1]>>
           /\ Len(s) >= 2 => SubSeq(s, 1, 2) = <<s[1], s[2]>>
  <1>1. Len(s) \in Nat /\ \A i \in 1..Len(s) : s[i] \in STRING
    OBVIOUS
  <1>2. ASSUME Len(s) >= 1 PROVE SubSeq(s, 1, 1) = <<s[1]>>
    <2>1. \A i \in 1..1 : s[i] \in STRING
      BY <1>1, <1>2
    <2>2. /\ SubSeq(s, 1, 1) \in Seq(STRING) /\ Len(SubSeq(s, 1, 1)) = 1
          /\ \A i \in 1..1 : SubSeq(s, 1, 1)[i] = s[1 + i - 1]
      BY <2>1, SubSeqProperties
    <2>3. <<s[1]>> \in Seq(STRING) /\ Len(<<s[1]>>) = 1 /\ \A i \in 1..1 : <<s[1]>>[i] = s[1 + i - 1]
      BY <2>1
    <2>4. \A p, q \in Seq(STRING) : Len(p) = 1 /\ Len(q) = 1 /\ (\A i \in 1..1 : p[i] = q[i]) => p = q
      BY SeqEqual
    <2>5. \A i \in 1..1 : SubSeq(s, 1, 1)[i] = <<s[1]>>[i]
      BY <2>2, <2>3
    <2>6. QED
      BY <2>2, <2>3, <2>4, <2>5
  <1>3. ASSUME Len(s) >= 2 PROVE SubSeq(s, 1, 2) = <<s[1], s[2]>>
    <2>1. \A i \in 1..2 : s[i] \in STRING
      BY <1>1, <1>3
    <2>2. /\ SubSeq(s, 1, 2) \in Seq(STRING) /\ Len(SubSeq(s, 1, 2)) = 2
          /\ \A i \in 1..2 : SubSeq(s, 1, 2)[i] = s[1 + i - 1]
      BY <2>1, SubSeqProperties
    <2>3. /\ <<s[1], s[2]>> \in Seq(STRING) /\ Len(<<s[1], s[2]>>) = 2
          /\ \A i \in 1..2 : <<s[1], s[2]>>[i] = s[1 + i - 1]
      BY <2>1
    <2>4. \A p, q \in Seq(STRING) : Len(p) = 2 /\ Len(q) = 2 /\ (\A i \in 1..2 : p[i] = q[i]) => p = q
      BY SeqEqual
    <2>5. \A i \in 1..2 : SubSeq(s, 1, 2)[i] = <<s[1], s[2]>>[i]
      BY <2>2, <2>3
    <2>6. QED
      BY <2>2, <2>3, <2>4, <2>5
  <1>4. QED
    BY <1>1, <1>2, <1>3

LEMMA SomeWords ==
    ASSUME NEW m, IsMessage(m) PROVE \E w, v : WordsAre(m, w, v)
  <1> DEFINE s == m.lead
             w == IF Len(s) = 0 THEN "" ELSE s[1]
             v == IF Len(s) < 2 THEN "" ELSE s[2]
  <1>1. s \in Seq(STRING) /\ Len(s) \in Nat
    BY DEF IsMessage
  <1>2. /\ Len(s) = 0 => w = ""
        /\ Len(s) # 0 => w = s[1]
        /\ Len(s) < 2 => v = ""
        /\ ~ (Len(s) < 2) => v = s[2]
    OBVIOUS
  <1>3. \A p : Starts(m, p) <=> Len(p) <= Len(s) /\ SubSeq(s, 1, Len(p)) = p
    BY DEF Starts
  <1>4. /\ s = <<>> => Len(s) = 0
        /\ Len(s) >= 1 => SubSeq(s, 1, 1) = <<s[1]>>
        /\ Len(s) >= 2 => SubSeq(s, 1, 2) = <<s[1], s[2]>>
    BY <1>1, FirstWords
  <1> HIDE DEF s, w, v
  <1>5. ASSUME NEW a, a # "" PROVE Starts(m, <<a>>) <=> w = a
    <2> DEFINE p == <<a>>
    <2>1. Len(p) = 1 /\ p[1] = a /\ \A b : <<b>> = p => b = a
      OBVIOUS
    <2>2. Starts(m, p) <=> 1 <= Len(s) /\ SubSeq(s, 1, 1) = p
      BY <1>3, <2>1
    <2>3. CASE Len(s) = 0
      <3> HIDE DEF p
      <3>1. w = ""
        BY <1>2, <2>3
      <3>2. ~ (1 <= Len(s))
        BY <2>3
      <3>3. QED
        BY <1>5, <2>2, <3>1, <3>2 DEF p
    <2>4. CASE Len(s) # 0
      <3> HIDE DEF p
      <3>0. w = s[1]
        BY <1>2, <2>4
      <3>1. Len(s) >= 1 /\ 1 <= Len(s)
        BY <1>1, <2>4
      <3>2. SubSeq(s, 1, 1) = <<w>>
        BY <1>4, <3>0, <3>1
      <3>3. <<w>> = p <=> w = a
        BY <2>1 DEF p
      <3>4. QED
        BY <2>2, <3>1, <3>2, <3>3 DEF p
    <2>5. QED
      BY <2>3, <2>4
  <1>6. ASSUME NEW a, NEW b, a # "", b # "" PROVE Starts(m, <<a, b>>) <=> w = a /\ v = b
    <2> DEFINE p == <<a, b>>
    <2>1. Len(p) = 2 /\ \A c, d : <<c, d>> = p => c = a /\ d = b
      OBVIOUS
    <2>2. Starts(m, p) <=> 2 <= Len(s) /\ SubSeq(s, 1, 2) = p
      BY <1>3, <2>1
    <2>3. CASE Len(s) < 2
      <3> HIDE DEF p
      <3>1. v = ""
        BY <1>2, <2>3
      <3>2. ~ (2 <= Len(s))
        BY <1>1, <2>3
      <3>3. QED
        BY <1>6, <2>2, <3>1, <3>2 DEF p
    <2>4. CASE ~ (Len(s) < 2)
      <3> HIDE DEF p
      <3>1. Len(s) >= 2 /\ 2 <= Len(s) /\ Len(s) # 0
        BY <1>1, <2>4
      <3>2. w = s[1] /\ v = s[2]
        BY <1>2, <2>4, <3>1
      <3>3. SubSeq(s, 1, 2) = <<w, v>>
        BY <1>4, <3>1, <3>2
      <3>4. <<w, v>> = p <=> w = a /\ v = b
        BY <2>1 DEF p
      <3>5. QED
        BY <2>2, <3>1, <3>3, <3>4 DEF p
    <2>5. QED
      BY <2>3, <2>4
  <1>7. WordsAre(m, w, v)
    BY <1>2, <1>4, <1>5, <1>6 DEF WordsAre, s
  <1>8. QED
    BY <1>7

LEMMA FirstHeld ==
    ASSUME NEW tests, NEW m, NEW n \in Nat, DOMAIN tests = 1..n,
           \E i \in 1..n : Holds(tests[i], m)
    PROVE  /\ First(tests, m) \in 1..n /\ Holds(tests[First(tests, m)], m)
           /\ \A j \in 1..n : j < First(tests, m) => ~Holds(tests[j], m)
  <1> DEFINE held == {i \in DOMAIN tests : Holds(tests[i], m)}
             R == {ss \in Nat \X Nat : ss[1] < ss[2]}
  <1>1. held # {} /\ held \subseteq Nat /\ held \subseteq 1..n
    OBVIOUS
  <1>2. IsWellFoundedOn(R, Nat)
    BY NatLessThanWellFounded DEF OpToRel
  <1>3. PICK k \in held : \A j \in held : ~ (<<j, k>> \in R)
    <2> HIDE DEF held, R
    <2>1. QED
      BY <1>1, <1>2, WFMin
  <1>4. ASSUME NEW j \in held PROVE k <= j
    <2>1. j \in Nat /\ k \in Nat /\ ~ (<<j, k>> \in R)
      BY <1>1, <1>3
    <2>2. ~ (j < k)
      BY <2>1
    <2>3. QED
      BY <2>1, <2>2
  <1>5. First(tests, m) \in held /\ \A j \in held : First(tests, m) <= j
    BY <1>1, <1>4 DEF First
  <1>6. First(tests, m) \in 1..n /\ Holds(tests[First(tests, m)], m)
    <2> DEFINE l == First(tests, m)
    <2>1. l \in held
      BY <1>5
    <2> HIDE DEF l
    <2>2. l \in 1..n /\ Holds(tests[l], m)
      BY <2>1
    <2>3. QED
      BY <2>2 DEF l
  <1>7. ASSUME NEW j \in 1..n, j < First(tests, m), Holds(tests[j], m) PROVE FALSE
    <2>1. j \in held
      BY <1>7
    <2>2. First(tests, m) <= j /\ First(tests, m) \in 1..n
      BY <1>5, <1>6, <2>1
    <2>3. QED
      BY <1>7, <2>2
  <1>8. QED
    BY <1>6, <1>7

LEMMA FirstIs ==
    ASSUME NEW tests, NEW m, NEW n \in Nat, DOMAIN tests = 1..n, First(tests, m) # 0
    PROVE  /\ First(tests, m) \in 1..n /\ Holds(tests[First(tests, m)], m)
           /\ \A j \in 1..n : j < First(tests, m) => ~Holds(tests[j], m)
  <1>1. \E i \in 1..n : Holds(tests[i], m)
    BY DEF First
  <1>2. QED
    BY <1>1, FirstHeld

LEMMA FirstNone ==
    ASSUME NEW tests, NEW m, NEW n \in Nat, DOMAIN tests = 1..n, First(tests, m) = 0
    PROVE  \A i \in 1..n : ~Holds(tests[i], m)
  <1>1. ~ (\E i \in 1..n : Holds(tests[i], m))
    <2>1. 0 \notin 1..n
      OBVIOUS
    <2>2. QED
      BY <2>1, FirstHeld
  <1>2. QED
    BY <1>1

LEMMA FirstAt ==
    ASSUME NEW tests, NEW m, NEW n \in Nat, DOMAIN tests = 1..n,
           NEW k \in 1..n, Holds(tests[k], m), \A j \in 1..n : j < k => ~Holds(tests[j], m)
    PROVE  First(tests, m) = k
  <1> DEFINE held == {i \in DOMAIN tests : Holds(tests[i], m)}
  <1>1. k \in held /\ \A j \in held : k <= j
    OBVIOUS
  <1>2. \A i \in held : (\A j \in held : i <= j) => i = k
    BY <1>1
  <1>3. (CHOOSE i \in held : \A j \in held : i <= j) = k
    BY <1>1, <1>2
  <1>4. QED
    BY <1>1, <1>3 DEF First

LEMMA ToolTestsAre ==
    /\ DOMAIN ToolTests = 1..13
    /\ ToolTests[1] = SystemToolTests[1] /\ ToolTests[2] = SystemToolTests[2]
    /\ ToolTests[3] = SystemToolTests[3] /\ ToolTests[4] = SystemToolTests[4]
    /\ ToolTests[5] = SystemToolTests[5] /\ ToolTests[6] = SystemToolTests[6]
    /\ ToolTests[7] = SystemToolTests[7] /\ ToolTests[8] = FileToolTests[1]
    /\ ToolTests[9] = FileToolTests[2] /\ ToolTests[10] = FileToolTests[3]
    /\ ToolTests[11] = FileToolTests[4] /\ ToolTests[12] = FileToolTests[5]
    /\ ToolTests[13] = FileToolTests[6]
  <1> DEFINE p == SystemToolTests
             q == FileToolTests
             S == {p[i] : i \in 1..7} \cup {q[i] : i \in 1..6}
  <1>1. Len(p) = 7 /\ DOMAIN p = 1..7 /\ Len(q) = 6 /\ DOMAIN q = 1..6
    BY DEF SystemToolTests, FileToolTests
  <1>2. p \in Seq({p[i] : i \in 1..7}) /\ q \in Seq({q[i] : i \in 1..6})
    BY DEF SystemToolTests, FileToolTests
  <1>3. {p[i] : i \in 1..7} \subseteq S /\ {q[i] : i \in 1..6} \subseteq S
    OBVIOUS
  <1> HIDE DEF p, q, S
  <1>4. p \in Seq(S) /\ q \in Seq(S)
    BY <1>2, <1>3, SeqMonotonic
  <1>5. /\ p \o q \in Seq(S) /\ Len(p \o q) = Len(p) + Len(q)
        /\ \A i \in 1 .. Len(p) + Len(q) : (p \o q)[i] = IF i <= Len(p) THEN p[i] ELSE q[i - Len(p)]
    BY <1>4, ConcatProperties
  <1> DEFINE r == p \o q
  <1>6. ToolTests = r
    BY DEF ToolTests, p, q
  <1> HIDE DEF r
  <1>7. Len(r) = 13 /\ DOMAIN r = 1..13 /\ \A i \in 1..13 : r[i] = IF i <= 7 THEN p[i] ELSE q[i - 7]
    <2>1. /\ r \in Seq(S) /\ Len(r) = Len(p) + Len(q)
          /\ \A i \in 1 .. Len(p) + Len(q) : r[i] = IF i <= Len(p) THEN p[i] ELSE q[i - Len(p)]
      BY <1>5 DEF r
    <2>2. /\ Len(r) = 7 + 6
          /\ \A i \in 1 .. 7 + 6 : r[i] = IF i <= 7 THEN p[i] ELSE q[i - 7]
      BY <1>1, <2>1
    <2>3. 7 + 6 = 13
      OBVIOUS
    <2>4. Len(r) = 13 /\ \A i \in 1..13 : r[i] = IF i <= 7 THEN p[i] ELSE q[i - 7]
      BY <2>2, <2>3
    <2>5. r \in Seq(S) /\ Len(r) = 13
      BY <2>1, <2>4
    <2>6. DOMAIN r = 1..13
      BY <2>5
    <2>7. QED
      BY <2>4, <2>6
  <1>8. /\ r[1] = p[1] /\ r[2] = p[2] /\ r[3] = p[3] /\ r[4] = p[4] /\ r[5] = p[5]
        /\ r[6] = p[6] /\ r[7] = p[7] /\ r[8] = q[1] /\ r[9] = q[2] /\ r[10] = q[3]
        /\ r[11] = q[4] /\ r[12] = q[5] /\ r[13] = q[6]
    BY <1>7
  <1>9. QED
    BY <1>6, <1>7, <1>8 DEF p, q

LEMMA TestsAre ==
    /\ DOMAIN Tests = 1..32
    /\ \A i \in 1..16 : Tests[i] = CommandTests[i]
    /\ \A i \in 17..28 : Tests[i] = FileTests[i - 16]
    /\ \A i \in 29..32 : Tests[i] = LastTests[i - 28]
  <1> DEFINE p == CommandTests
             q == FileTests
             r == LastTests
             S == {p[i] : i \in 1..16} \cup {q[i] : i \in 1..12} \cup {r[i] : i \in 1..4}
  <1>1. /\ Len(p) = 16 /\ p \in Seq({p[i] : i \in 1..16})
        /\ Len(q) = 12 /\ q \in Seq({q[i] : i \in 1..12})
        /\ Len(r) = 4 /\ r \in Seq({r[i] : i \in 1..4})
    <2>1. Len(p) = 16
      BY DEF CommandTests
    <2>2. Len(q) = 12
      BY DEF FileTests
    <2>3. Len(r) = 4
      BY DEF LastTests
    <2>4. p \in Seq({p[i] : i \in 1..16})
      BY DEF CommandTests
    <2>5. q \in Seq({q[i] : i \in 1..12})
      BY DEF FileTests
    <2>6. r \in Seq({r[i] : i \in 1..4})
      <3> DEFINE a == Test({<<"!">>}, {}, "CONFIGURE", NoTool)
                 b == Test({<<"new", "session">>, <<"start", "fresh">>}, {"whole"}, "NEW_SESSION", NoTool)
                 c == Test({<<"clear">>, <<"reset">>}, {"whole"}, "CLEAR_CONVERSATION", NoTool)
                 d == Test({}, {"small talk"}, "CHAT", NoTool)
      <3>1. LastTests = <<a, b, c, d>>
        BY DEF LastTests
      <3> HIDE DEF a, b, c, d
      <3>2. QED
        BY <3>1
    <2>7. QED
      BY <2>1, <2>2, <2>3, <2>4, <2>5, <2>6
  <1>2. {p[i] : i \in 1..16} \subseteq S /\ {q[i] : i \in 1..12} \subseteq S /\ {r[i] : i \in 1..4} \subseteq S
    OBVIOUS
  <1> HIDE DEF p, q, r, S
  <1>3. p \in Seq(S) /\ q \in Seq(S) /\ r \in Seq(S)
    BY <1>1, <1>2, SeqMonotonic
  <1> DEFINE pq == p \o q
             all == pq \o r
  <1>4. /\ p \o q \in Seq(S) /\ Len(p \o q) = Len(p) + Len(q)
        /\ \A i \in 1 .. Len(p) + Len(q) : (p \o q)[i] = IF i <= Len(p) THEN p[i] ELSE q[i - Len(p)]
    BY <1>3, ConcatProperties
  <1> HIDE DEF pq
  <1>5. /\ pq \o r \in Seq(S) /\ Len(pq \o r) = Len(pq) + Len(r)
        /\ \A i \in 1 .. Len(pq) + Len(r) : (pq \o r)[i] = IF i <= Len(pq) THEN pq[i] ELSE r[i - Len(pq)]
    <2>1. pq \in Seq(S)
      BY <1>4 DEF pq
    <2>2. QED
      BY <1>3, <2>1, ConcatProperties
  <1>6. Tests = all
    BY DEF Tests, p, q, r, pq
  <1> HIDE DEF all
  <1>7. /\ Len(all) = 32 /\ DOMAIN all = 1..32
        /\ \A i \in 1..28 : all[i] = pq[i] /\ pq[i] = IF i <= 16 THEN p[i] ELSE q[i - 16]
        /\ \A i \in 29..32 : all[i] = r[i - 28]
    <2>1. /\ Len(pq) = 28
          /\ \A i \in 1..28 : pq[i] = IF i <= 16 THEN p[i] ELSE q[i - 16]
      <3>1. /\ Len(pq) = Len(p) + Len(q)
            /\ \A i \in 1 .. Len(p) + Len(q) : pq[i] = IF i <= Len(p) THEN p[i] ELSE q[i - Len(p)]
        BY <1>4 DEF pq
      <3>2. QED
        BY <1>1, <3>1
    <2>2. /\ all \in Seq(S) /\ Len(all) = 28 + 4
          /\ \A i \in 1 .. 28 + 4 : all[i] = IF i <= 28 THEN pq[i] ELSE r[i - 28]
      <3>1. /\ all \in Seq(S) /\ Len(all) = Len(pq) + Len(r)
            /\ \A i \in 1 .. Len(pq) + Len(r) : all[i] = IF i <= Len(pq) THEN pq[i] ELSE r[i - Len(pq)]
        BY <1>5 DEF all
      <3>2. Len(pq) = 28 /\ Len(r) = 4
        BY <1>1, <2>1
      <3>3. QED
        BY <3>1, <3>2
    <2>3. 28 + 4 = 32
      OBVIOUS
    <2>4. Len(all) = 32 /\ \A i \in 1..32 : all[i] = IF i <= 28 THEN pq[i] ELSE r[i - 28]
      BY <2>2, <2>3
    <2>5. DOMAIN all = 1..32
      BY <2>2, <2>4
    <2>6. /\ \A i \in 1..28 : i \in 1..32 /\ i <= 28
          /\ \A i \in 29..32 : i \in 1..32 /\ ~ (i <= 28)
      OBVIOUS
    <2>7. /\ \A i \in 1..28 : all[i] = pq[i]
          /\ \A i \in 29..32 : all[i] = r[i - 28]
      BY <2>4, <2>6
    <2>8. QED
      BY <2>1, <2>4, <2>5, <2>7
  <1>8. /\ \A i \in 1..16 : all[i] = p[i]
        /\ \A i \in 17..28 : all[i] = q[i - 16]
    BY <1>7
  <1>9. QED
    BY <1>6, <1>7, <1>8 DEF p, q, r

\* The tests of the tools, in words.
LEMMA ToolTestsAsk ==
    ASSUME NEW m, NEW w, NEW v, WordsAre(m, w, v)
    PROVE  /\ Holds(ToolTests[1], m) <=> "sum" \in m.marks
           /\ Holds(ToolTests[2], m) <=> w = "find"
           /\ Holds(ToolTests[3], m) <=> w = "read"
           /\ Holds(ToolTests[4], m) <=> w = "run"
           /\ Holds(ToolTests[5], m) <=> w = "open"
           /\ Holds(ToolTests[6], m) <=> w = "list" \/ w = "show"
           /\ Holds(ToolTests[7], m) <=>
                (w = "system" /\ v = "info") \/ (w = "system" /\ v = "status") \/ (w = "how's" /\ v = "my")
           /\ Holds(ToolTests[8], m) <=> w = "mkdir" \/ (w = "create" /\ v = "folder")
           /\ Holds(ToolTests[9], m) <=> w = "create" \/ w = "write" \/ w = "make" \/ w = "save"
           /\ Holds(ToolTests[10], m) <=> w = "delete" \/ w = "remove"
           /\ Holds(ToolTests[11], m) <=> w = "append" \/ (w = "add" /\ v = "to")
           /\ Holds(ToolTests[12], m) <=> w = "edit" \/ w = "replace"
           /\ Holds(ToolTests[13], m) <=>
                w = "grep" \/ (w = "search" /\ v = "in") \/ (w = "find" /\ v = "in")
  <1>1. /\ \A a : a # "" => (Starts(m, <<a>>) <=> w = a)
        /\ \A a, b : a # "" /\ b # "" => (Starts(m, <<a, b>>) <=> w = a /\ v = b)
    BY DEF WordsAre
  <1>2. Holds(ToolTests[1], m) <=>
         "sum" \in m.marks
    <2>1. ToolTests[1] = Test({}, {"sum"}, "USE_TOOL", "calculator")
      BY ToolTestsAre DEF SystemToolTests
    <2>2. QED
      BY <2>1 DEF Holds, Test
  <1>3. Holds(ToolTests[2], m) <=>
         Starts(m, <<"find">>)
    <2>1. ToolTests[2] = Test({<<"find">>}, {}, "USE_TOOL", "file_search")
      BY ToolTestsAre DEF SystemToolTests
    <2>2. QED
      BY <2>1 DEF Holds, Test
  <1>4. Holds(ToolTests[3], m) <=>
         Starts(m, <<"read">>)
    <2>1. ToolTests[3] = Test({<<"read">>}, {}, "USE_TOOL", "file_read")
      BY ToolTestsAre DEF SystemToolTests
    <2>2. QED
      BY <2>1 DEF Holds, Test
  <1>5. Holds(ToolTests[4], m) <=>
         Starts(m, <<"run">>)
    <2>1. ToolTests[4] = Test({<<"run">>}, {}, "USE_TOOL", "shell")
      BY ToolTestsAre DEF SystemToolTests
    <2>2. QED
      BY <2>1 DEF Holds, Test
  <1>6. Holds(ToolTests[5], m) <=>
         Starts(m, <<"open">>)
    <2>1. ToolTests[5] = Test({<<"open">>}, {}, "USE_TOOL", "app_launcher")
      BY ToolTestsAre DEF SystemToolTests
    <2>2. QED
      BY <2>1 DEF Holds, Test
  <1>7. Holds(ToolTests[6], m) <=>
         Starts(m, <<"list">>) \/ Starts(m, <<"show">>)
    <2>1. ToolTests[6] = Test({<<"list">>, <<"show">>}, {}, "USE_TOOL", "folder")
      BY ToolTestsAre DEF SystemToolTests
    <2>2. QED
      BY <2>1 DEF Holds, Test
  <1>8. Holds(ToolTests[7], m) <=>
         Starts(m, <<"system", "info">>) \/ Starts(m, <<"system", "status">>) \/ Starts(m, <<"how's", "my">>)
    <2>1. ToolTests[7] = Test({<<"system", "info">>, <<"system", "status">>, <<"how's", "my">>}, {}, "USE_TOOL", "system_info")
      BY ToolTestsAre DEF SystemToolTests
    <2>2. QED
      BY <2>1 DEF Holds, Test
  <1>9. Holds(ToolTests[8], m) <=>
         Starts(m, <<"mkdir">>) \/ Starts(m, <<"create", "folder">>)
    <2>1. ToolTests[8] = Test({<<"mkdir">>, <<"create", "folder">>}, {}, "USE_TOOL", "file_mkdir")
      BY ToolTestsAre DEF FileToolTests
    <2>2. QED
      BY <2>1 DEF Holds, Test
  <1>10. Holds(ToolTests[9], m) <=>
         Starts(m, <<"create">>) \/ Starts(m, <<"write">>) \/ Starts(m, <<"make">>) \/ Starts(m, <<"save">>)
    <2>1. ToolTests[9] = Test({<<"create">>, <<"write">>, <<"make">>, <<"save">>}, {}, "USE_TOOL", "file_write")
      BY ToolTestsAre DEF FileToolTests
    <2>2. QED
      BY <2>1 DEF Holds, Test
  <1>11. Holds(ToolTests[10], m) <=>
         Starts(m, <<"delete">>) \/ Starts(m, <<"remove">>)
    <2>1. ToolTests[10] = Test({<<"delete">>, <<"remove">>}, {}, "USE_TOOL", "file_delete")
      BY ToolTestsAre DEF FileToolTests
    <2>2. QED
      BY <2>1 DEF Holds, Test
  <1>12. Holds(ToolTests[11], m) <=>
         Starts(m, <<"append">>) \/ Starts(m, <<"add", "to">>)
    <2>1. ToolTests[11] = Test({<<"append">>, <<"add", "to">>}, {}, "USE_TOOL", "file_append")
      BY ToolTestsAre DEF FileToolTests
    <2>2. QED
      BY <2>1 DEF Holds, Test
  <1>13. Holds(ToolTests[12], m) <=>
         Starts(m, <<"edit">>) \/ Starts(m, <<"replace">>)
    <2>1. ToolTests[12] = Test({<<"edit">>, <<"replace">>}, {}, "USE_TOOL", "file_edit")
      BY ToolTestsAre DEF FileToolTests
    <2>2. QED
      BY <2>1 DEF Holds, Test
  <1>14. Holds(ToolTests[13], m) <=>
         Starts(m, <<"grep">>) \/ Starts(m, <<"search", "in">>) \/ Starts(m, <<"find", "in">>)
    <2>1. ToolTests[13] = Test({<<"grep">>, <<"search", "in">>, <<"find", "in">>}, {}, "USE_TOOL", "file_grep")
      BY ToolTestsAre DEF FileToolTests
    <2>2. QED
      BY <2>1 DEF Holds, Test
  <1>15. /\ Starts(m, <<"find">>) <=> w = "find"
         /\ Starts(m, <<"read">>) <=> w = "read"
         /\ Starts(m, <<"run">>) <=> w = "run"
         /\ Starts(m, <<"open">>) <=> w = "open"
         /\ Starts(m, <<"list">>) <=> w = "list"
         /\ Starts(m, <<"show">>) <=> w = "show"
    BY <1>1
  <1>16. /\ Starts(m, <<"mkdir">>) <=> w = "mkdir"
         /\ Starts(m, <<"create">>) <=> w = "create"
         /\ Starts(m, <<"write">>) <=> w = "write"
         /\ Starts(m, <<"make">>) <=> w = "make"
         /\ Starts(m, <<"save">>) <=> w = "save"
         /\ Starts(m, <<"delete">>) <=> w = "delete"
         /\ Starts(m, <<"remove">>) <=> w = "remove"
    BY <1>1
  <1>17. /\ Starts(m, <<"append">>) <=> w = "append"
         /\ Starts(m, <<"edit">>) <=> w = "edit"
         /\ Starts(m, <<"replace">>) <=> w = "replace"
         /\ Starts(m, <<"grep">>) <=> w = "grep"
    BY <1>1
  <1>18. /\ Starts(m, <<"system", "info">>) <=> (w = "system" /\ v = "info")
         /\ Starts(m, <<"system", "status">>) <=> (w = "system" /\ v = "status")
         /\ Starts(m, <<"how's", "my">>) <=> (w = "how's" /\ v = "my")
         /\ Starts(m, <<"create", "folder">>) <=> (w = "create" /\ v = "folder")
    BY <1>1
  <1>19. /\ Starts(m, <<"add", "to">>) <=> (w = "add" /\ v = "to")
         /\ Starts(m, <<"search", "in">>) <=> (w = "search" /\ v = "in")
         /\ Starts(m, <<"find", "in">>) <=> (w = "find" /\ v = "in")
    BY <1>1
  <1>20. /\ Holds(ToolTests[2], m) <=> w = "find"
         /\ Holds(ToolTests[3], m) <=> w = "read"
         /\ Holds(ToolTests[4], m) <=> w = "run"
         /\ Holds(ToolTests[5], m) <=> w = "open"
         /\ Holds(ToolTests[6], m) <=> w = "list" \/ w = "show"
    BY <1>3, <1>4, <1>5, <1>6, <1>7, <1>15
  <1>21. Holds(ToolTests[7], m) <=>
           (w = "system" /\ v = "info") \/ (w = "system" /\ v = "status") \/ (w = "how's" /\ v = "my")
    BY <1>8, <1>18
  <1>22. /\ Holds(ToolTests[8], m) <=> w = "mkdir" \/ (w = "create" /\ v = "folder")
         /\ Holds(ToolTests[9], m) <=> w = "create" \/ w = "write" \/ w = "make" \/ w = "save"
         /\ Holds(ToolTests[10], m) <=> w = "delete" \/ w = "remove"
    BY <1>9, <1>10, <1>11, <1>16, <1>18
  <1>23. /\ Holds(ToolTests[11], m) <=> w = "append" \/ (w = "add" /\ v = "to")
         /\ Holds(ToolTests[12], m) <=> w = "edit" \/ w = "replace"
         /\ Holds(ToolTests[13], m) <=>
                w = "grep" \/ (w = "search" /\ v = "in") \/ (w = "find" /\ v = "in")
    BY <1>12, <1>13, <1>14, <1>17, <1>19
  <1>24. QED
    BY <1>2, <1>20, <1>21, <1>22, <1>23

\* The tests of the decision that are for a tool, in words.
ForTool(test) == test.action = "USE_TOOL" /\ test.tool # "web_search"

LEMMA CommandTestsAsk ==
    ASSUME NEW m, NEW w, NEW v, WordsAre(m, w, v), NEW k \in 1..16,
           Holds(CommandTests[k], m), ForTool(CommandTests[k])
    PROVE  LET tool == CommandTests[k].tool
           IN  \/ tool = "file_grep" /\ ((w = "search" /\ v = "in"))
               \/ tool = "shell" /\ (w = "run")
               \/ tool = "app_launcher" /\ (w = "open")
               \/ tool = "folder" /\ (w = "list" \/ w = "show")
               \/ tool = "system_info" /\ ((w = "system" /\ v = "info") \/ (w = "system" /\ v = "status") \/ (w = "how's" /\ v = "my"))
  <1>1. /\ \A a : a # "" => (Starts(m, <<a>>) <=> w = a)
        /\ \A a, b : a # "" /\ b # "" => (Starts(m, <<a, b>>) <=> (w = a /\ v = b))
    BY DEF WordsAre
  <1>2. Holds(CommandTests[4], m) => ((w = "search" /\ v = "in"))
    <2>1. CommandTests[4] = Test({<<"search", "in">>}, {}, "USE_TOOL", "file_grep")
      BY DEF CommandTests
    <2>2. Holds(CommandTests[4], m) => (Starts(m, <<"search", "in">>))
      BY <2>1 DEF Holds, Test
    <2>3. QED
      BY <1>1, <2>2
  <1>3. Holds(CommandTests[11], m) => (w = "run")
    <2>1. CommandTests[11] = Test({<<"run">>}, {}, "USE_TOOL", "shell")
      BY DEF CommandTests
    <2>2. Holds(CommandTests[11], m) => (Starts(m, <<"run">>))
      BY <2>1 DEF Holds, Test
    <2>3. QED
      BY <1>1, <2>2
  <1>4. Holds(CommandTests[12], m) => (w = "open")
    <2>1. CommandTests[12] = Test({<<"open">>}, {"app"}, "USE_TOOL", "app_launcher")
      BY DEF CommandTests
    <2>2. Holds(CommandTests[12], m) => (Starts(m, <<"open">>))
      BY <2>1 DEF Holds, Test
    <2>3. QED
      BY <1>1, <2>2
  <1>5. Holds(CommandTests[13], m) => (w = "list" \/ w = "show")
    <2>1. CommandTests[13] = Test({<<"list">>, <<"show">>}, {"file"}, "USE_TOOL", "folder")
      BY DEF CommandTests
    <2>2. Holds(CommandTests[13], m) => (Starts(m, <<"list">>) \/ Starts(m, <<"show">>))
      BY <2>1 DEF Holds, Test
    <2>3. QED
      BY <1>1, <2>2
  <1>6. Holds(CommandTests[14], m) => ((w = "system" /\ v = "info") \/ (w = "system" /\ v = "status") \/ (w = "how's" /\ v = "my"))
    <2>1. CommandTests[14] = Test({<<"system", "info">>, <<"system", "status">>, <<"how's", "my">>}, {}, "USE_TOOL", "system_info")
      BY DEF CommandTests
    <2>2. Holds(CommandTests[14], m) => (Starts(m, <<"system", "info">>) \/ Starts(m, <<"system", "status">>) \/ Starts(m, <<"how's", "my">>))
      BY <2>1 DEF Holds, Test
    <2>3. QED
      BY <1>1, <2>2
  <1>7. k \in {4, 11, 12, 13, 14}
    <2>1. /\ ~ForTool(CommandTests[1]) /\ ~ForTool(CommandTests[2]) /\ ~ForTool(CommandTests[3])
          /\ ~ForTool(CommandTests[5]) /\ ~ForTool(CommandTests[6]) /\ ~ForTool(CommandTests[7])
          /\ ~ForTool(CommandTests[8]) /\ ~ForTool(CommandTests[9]) /\ ~ForTool(CommandTests[10])
          /\ ~ForTool(CommandTests[15]) /\ ~ForTool(CommandTests[16])
      BY DEF CommandTests, Test, ForTool
    <2>2. QED
      BY <2>1
  <1>8. /\ CommandTests[4].tool = "file_grep" /\ CommandTests[11].tool = "shell"
         /\ CommandTests[12].tool = "app_launcher" /\ CommandTests[13].tool = "folder"
         /\ CommandTests[14].tool = "system_info"
    BY DEF CommandTests, Test
  <1>9. QED
    BY <1>2, <1>3, <1>4, <1>5, <1>6, <1>7, <1>8

LEMMA FileTestsAsk ==
    ASSUME NEW m, NEW w, NEW v, WordsAre(m, w, v), NEW k \in 1..12,
           Holds(FileTests[k], m), ForTool(FileTests[k]),
           k = 8 => ~Holds(FileTests[7], m)
    PROVE  LET tool == FileTests[k].tool
           IN  \/ tool = "calculator" /\ ("sum" \in m.marks)
               \/ tool = "file_search" /\ (w = "find")
               \/ tool = "file_read" /\ (w = "read")
               \/ tool = "file_mkdir" /\ (w = "mkdir" \/ (w = "create" /\ v = "folder"))
               \/ tool = "file_write" /\ (w = "write" \/ w = "save" \/ w = "create" \/ w = "make") /\ ~(w = "create" /\ v = "folder")
               \/ tool = "file_delete" /\ (w = "delete" \/ w = "remove")
               \/ tool = "file_append" /\ (w = "append" \/ (w = "add" /\ v = "to"))
               \/ tool = "file_edit" /\ (w = "edit" \/ w = "replace")
               \/ tool = "file_grep" /\ (w = "grep" \/ (w = "search" /\ v = "in") \/ (w = "find" /\ v = "in"))
  <1>1. /\ \A a : a # "" => (Starts(m, <<a>>) <=> w = a)
        /\ \A a, b : a # "" /\ b # "" => (Starts(m, <<a, b>>) <=> (w = a /\ v = b))
    BY DEF WordsAre
  <1>2. Holds(FileTests[4], m) => ("sum" \in m.marks)
    <2>1. FileTests[4] = Test({}, {"sum"}, "USE_TOOL", "calculator")
      BY DEF FileTests
    <2>2. Holds(FileTests[4], m) => ("sum" \in m.marks)
      BY <2>1 DEF Holds, Test
    <2>3. QED
      BY <1>1, <2>2
  <1>3. Holds(FileTests[5], m) => (w = "find")
    <2>1. FileTests[5] = Test({<<"find">>}, {"file"}, "USE_TOOL", "file_search")
      BY DEF FileTests
    <2>2. Holds(FileTests[5], m) => (Starts(m, <<"find">>))
      BY <2>1 DEF Holds, Test
    <2>3. QED
      BY <1>1, <2>2
  <1>4. Holds(FileTests[6], m) => (w = "read")
    <2>1. FileTests[6] = Test({<<"read">>}, {"file"}, "USE_TOOL", "file_read")
      BY DEF FileTests
    <2>2. Holds(FileTests[6], m) => (Starts(m, <<"read">>))
      BY <2>1 DEF Holds, Test
    <2>3. QED
      BY <1>1, <2>2
  <1>5. Holds(FileTests[7], m) => (w = "mkdir" \/ (w = "create" /\ v = "folder"))
    <2>1. FileTests[7] = Test({<<"mkdir">>, <<"create", "folder">>}, {}, "USE_TOOL", "file_mkdir")
      BY DEF FileTests
    <2>2. Holds(FileTests[7], m) => (Starts(m, <<"mkdir">>) \/ Starts(m, <<"create", "folder">>))
      BY <2>1 DEF Holds, Test
    <2>3. QED
      BY <1>1, <2>2
  <1>6. Holds(FileTests[8], m) => (w = "write" \/ w = "save" \/ w = "create" \/ w = "make")
    <2>1. FileTests[8] = Test({<<"write">>, <<"save">>, <<"create">>, <<"make">>}, {"file"}, "USE_TOOL", "file_write")
      BY DEF FileTests
    <2>2. Holds(FileTests[8], m) => (Starts(m, <<"write">>) \/ Starts(m, <<"save">>) \/ Starts(m, <<"create">>) \/ Starts(m, <<"make">>))
      BY <2>1 DEF Holds, Test
    <2>3. QED
      BY <1>1, <2>2
  <1>7. Holds(FileTests[9], m) => (w = "delete" \/ w = "remove")
    <2>1. FileTests[9] = Test({<<"delete">>, <<"remove">>}, {"file"}, "USE_TOOL", "file_delete")
      BY DEF FileTests
    <2>2. Holds(FileTests[9], m) => (Starts(m, <<"delete">>) \/ Starts(m, <<"remove">>))
      BY <2>1 DEF Holds, Test
    <2>3. QED
      BY <1>1, <2>2
  <1>8. Holds(FileTests[10], m) => (w = "append" \/ (w = "add" /\ v = "to"))
    <2>1. FileTests[10] = Test({<<"append">>, <<"add", "to">>}, {}, "USE_TOOL", "file_append")
      BY DEF FileTests
    <2>2. Holds(FileTests[10], m) => (Starts(m, <<"append">>) \/ Starts(m, <<"add", "to">>))
      BY <2>1 DEF Holds, Test
    <2>3. QED
      BY <1>1, <2>2
  <1>9. Holds(FileTests[11], m) => (w = "edit" \/ w = "replace")
    <2>1. FileTests[11] = Test({<<"edit">>, <<"replace">>}, {}, "USE_TOOL", "file_edit")
      BY DEF FileTests
    <2>2. Holds(FileTests[11], m) => (Starts(m, <<"edit">>) \/ Starts(m, <<"replace">>))
      BY <2>1 DEF Holds, Test
    <2>3. QED
      BY <1>1, <2>2
  <1>10. Holds(FileTests[12], m) => (w = "grep" \/ (w = "search" /\ v = "in") \/ (w = "find" /\ v = "in"))
    <2>1. FileTests[12] = Test({<<"grep">>, <<"search", "in">>, <<"find", "in">>}, {}, "USE_TOOL", "file_grep")
      BY DEF FileTests
    <2>2. Holds(FileTests[12], m) => (Starts(m, <<"grep">>) \/ Starts(m, <<"search", "in">>) \/ Starts(m, <<"find", "in">>))
      BY <2>1 DEF Holds, Test
    <2>3. QED
      BY <1>1, <2>2
  <1>11. k \in 4..12
    <2>1. ~ForTool(FileTests[1]) /\ ~ForTool(FileTests[2]) /\ ~ForTool(FileTests[3])
      BY DEF FileTests, Test, ForTool
    <2>2. QED
      BY <2>1
  <1>12. w = "create" /\ v = "folder" => Holds(FileTests[7], m)
    <2>1. FileTests[7] = Test({<<"mkdir">>, <<"create", "folder">>}, {}, "USE_TOOL", "file_mkdir")
      BY DEF FileTests
    <2>2. Starts(m, <<"create", "folder">>) => Holds(FileTests[7], m)
      BY <2>1 DEF Holds, Test
    <2>3. QED
      BY <1>1, <2>2
  <1>13. /\ FileTests[4].tool = "calculator" /\ FileTests[5].tool = "file_search"
         /\ FileTests[6].tool = "file_read" /\ FileTests[7].tool = "file_mkdir"
         /\ FileTests[8].tool = "file_write" /\ FileTests[9].tool = "file_delete"
         /\ FileTests[10].tool = "file_append" /\ FileTests[11].tool = "file_edit"
         /\ FileTests[12].tool = "file_grep"
    BY DEF FileTests, Test
  <1>14. QED
    BY <1>2, <1>3, <1>4, <1>5, <1>6, <1>7, <1>8, <1>9, <1>10, <1>11, <1>12, <1>13

\* What the router makes of a message that starts so.
LEMMA ToolIs ==
    ASSUME NEW m, IsMessage(m), NEW w, NEW v, WordsAre(m, w, v), ~(w = "find" /\ v = "in"),
           NEW intent, NEW tool,
           \/ tool = "calculator" /\ "sum" \in m.marks
           \/ tool = "shell" /\ w = "run"
           \/ tool = "app_launcher" /\ w = "open"
           \/ tool = "folder" /\ (w = "list" \/ w = "show")
           \/ /\ tool = "system_info"
              /\ (w = "system" /\ v = "info") \/ (w = "system" /\ v = "status") \/ (w = "how's" /\ v = "my")
           \/ tool = "file_search" /\ w = "find"
           \/ tool = "file_read" /\ w = "read"
           \/ tool = "file_mkdir" /\ (w = "mkdir" \/ (w = "create" /\ v = "folder"))
           \/ /\ tool = "file_write" /\ ~(w = "create" /\ v = "folder")
              /\ w = "write" \/ w = "save" \/ w = "create" \/ w = "make"
           \/ tool = "file_delete" /\ (w = "delete" \/ w = "remove")
           \/ tool = "file_append" /\ (w = "append" \/ (w = "add" /\ v = "to"))
           \/ tool = "file_edit" /\ (w = "edit" \/ w = "replace")
           \/ /\ tool = "file_grep"
              /\ w = "grep" \/ (w = "search" /\ v = "in") \/ (w = "find" /\ v = "in")
    PROVE  ToolFor(m, intent) = tool
  <1> DEFINE H(k) == Holds(ToolTests[k], m)
  <1>1. w # "" => "sum" \notin m.marks
    BY DEF IsMessage, WordsAre
  <1>2. ASSUME NEW k \in 1..13, H(k), \A j \in 1..13 : j < k => ~H(j)
        PROVE  ToolFor(m, intent) = ToolTests[k].tool
    <2>1. First(ToolTests, m) = k
      BY <1>2, ToolTestsAre, FirstAt
    <2>2. QED
      BY <2>1 DEF ToolFor
  <1>3. /\ H(1) <=> "sum" \in m.marks
        /\ H(2) <=> w = "find"
        /\ H(3) <=> w = "read"
        /\ H(4) <=> w = "run"
        /\ H(5) <=> w = "open"
        /\ H(6) <=> w = "list" \/ w = "show"
        /\ H(7) <=> (w = "system" /\ v = "info") \/ (w = "system" /\ v = "status") \/ (w = "how's" /\ v = "my")
        /\ H(8) <=> w = "mkdir" \/ (w = "create" /\ v = "folder")
        /\ H(9) <=> w = "create" \/ w = "write" \/ w = "make" \/ w = "save"
        /\ H(10) <=> w = "delete" \/ w = "remove"
        /\ H(11) <=> w = "append" \/ (w = "add" /\ v = "to")
        /\ H(12) <=> w = "edit" \/ w = "replace"
        /\ H(13) <=> w = "grep" \/ (w = "search" /\ v = "in") \/ (w = "find" /\ v = "in")
    BY ToolTestsAsk
  <1>4. /\ ToolTests[1].tool = "calculator" /\ ToolTests[2].tool = "file_search"
        /\ ToolTests[3].tool = "file_read" /\ ToolTests[4].tool = "shell"
        /\ ToolTests[5].tool = "app_launcher" /\ ToolTests[6].tool = "folder"
        /\ ToolTests[7].tool = "system_info"
    BY ToolTestsAre DEF SystemToolTests, Test
  <1>5. /\ ToolTests[8].tool = "file_mkdir" /\ ToolTests[9].tool = "file_write"
        /\ ToolTests[10].tool = "file_delete" /\ ToolTests[11].tool = "file_append"
        /\ ToolTests[12].tool = "file_edit" /\ ToolTests[13].tool = "file_grep"
    BY ToolTestsAre DEF FileToolTests, Test
  <1> HIDE DEF H
  <1>6. ASSUME tool = "calculator", "sum" \in m.marks PROVE ToolFor(m, intent) = tool
    <2>1. H(1)
      BY <1>1, <1>3, <1>6
    <2>2. \A j \in 1..13 : j < 1 => ~H(j)
      BY <2>1
    <2>3. QED
      BY <1>2, <1>4, <1>5, <1>6, <2>1, <2>2
  <1>7. ASSUME tool = "shell", w = "run" PROVE ToolFor(m, intent) = tool
    <2>1. H(4) /\ ~H(1) /\ ~H(2) /\ ~H(3)
      BY <1>1, <1>3, <1>7
    <2>2. \A j \in 1..13 : j < 4 => ~H(j)
      BY <2>1
    <2>3. QED
      BY <1>2, <1>4, <1>5, <1>7, <2>1, <2>2
  <1>8. ASSUME tool = "app_launcher", w = "open" PROVE ToolFor(m, intent) = tool
    <2>1. H(5) /\ ~H(1) /\ ~H(2) /\ ~H(3) /\ ~H(4)
      BY <1>1, <1>3, <1>8
    <2>2. \A j \in 1..13 : j < 5 => ~H(j)
      BY <2>1
    <2>3. QED
      BY <1>2, <1>4, <1>5, <1>8, <2>1, <2>2
  <1>9. ASSUME tool = "folder", w = "list" \/ w = "show" PROVE ToolFor(m, intent) = tool
    <2>1. H(6) /\ ~H(1) /\ ~H(2) /\ ~H(3) /\ ~H(4) /\ ~H(5)
      BY <1>1, <1>3, <1>9
    <2>2. \A j \in 1..13 : j < 6 => ~H(j)
      BY <2>1
    <2>3. QED
      BY <1>2, <1>4, <1>5, <1>9, <2>1, <2>2
  <1>10. ASSUME tool = "system_info", (w = "system" /\ v = "info") \/ (w = "system" /\ v = "status") \/ (w = "how's" /\ v = "my") PROVE ToolFor(m, intent) = tool
    <2>1. H(7) /\ ~H(1) /\ ~H(2) /\ ~H(3) /\ ~H(4) /\ ~H(5) /\ ~H(6)
      BY <1>1, <1>3, <1>10
    <2>2. \A j \in 1..13 : j < 7 => ~H(j)
      BY <2>1
    <2>3. QED
      BY <1>2, <1>4, <1>5, <1>10, <2>1, <2>2
  <1>11. ASSUME tool = "file_search", w = "find" PROVE ToolFor(m, intent) = tool
    <2>1. H(2) /\ ~H(1)
      BY <1>1, <1>3, <1>11
    <2>2. \A j \in 1..13 : j < 2 => ~H(j)
      BY <2>1
    <2>3. QED
      BY <1>2, <1>4, <1>5, <1>11, <2>1, <2>2
  <1>12. ASSUME tool = "file_read", w = "read" PROVE ToolFor(m, intent) = tool
    <2>1. H(3) /\ ~H(1) /\ ~H(2)
      BY <1>1, <1>3, <1>12
    <2>2. \A j \in 1..13 : j < 3 => ~H(j)
      BY <2>1
    <2>3. QED
      BY <1>2, <1>4, <1>5, <1>12, <2>1, <2>2
  <1>13. ASSUME tool = "file_mkdir", w = "mkdir" \/ (w = "create" /\ v = "folder") PROVE ToolFor(m, intent) = tool
    <2>1. H(8) /\ ~H(1) /\ ~H(2) /\ ~H(3) /\ ~H(4) /\ ~H(5) /\ ~H(6) /\ ~H(7)
      BY <1>1, <1>3, <1>13
    <2>2. \A j \in 1..13 : j < 8 => ~H(j)
      BY <2>1
    <2>3. QED
      BY <1>2, <1>4, <1>5, <1>13, <2>1, <2>2
  <1>14. ASSUME tool = "file_write", ~(w = "create" /\ v = "folder") /\ (w = "write" \/ w = "save" \/ w = "create" \/ w = "make") PROVE ToolFor(m, intent) = tool
    <2>1. H(9) /\ ~H(1) /\ ~H(2) /\ ~H(3) /\ ~H(4) /\ ~H(5) /\ ~H(6) /\ ~H(7) /\ ~H(8)
      BY <1>1, <1>3, <1>14
    <2>2. \A j \in 1..13 : j < 9 => ~H(j)
      BY <2>1
    <2>3. QED
      BY <1>2, <1>4, <1>5, <1>14, <2>1, <2>2
  <1>15. ASSUME tool = "file_delete", w = "delete" \/ w = "remove" PROVE ToolFor(m, intent) = tool
    <2>1. H(10) /\ ~H(1) /\ ~H(2) /\ ~H(3) /\ ~H(4) /\ ~H(5) /\ ~H(6) /\ ~H(7) /\ ~H(8) /\ ~H(9)
      BY <1>1, <1>3, <1>15
    <2>2. \A j \in 1..13 : j < 10 => ~H(j)
      BY <2>1
    <2>3. QED
      BY <1>2, <1>4, <1>5, <1>15, <2>1, <2>2
  <1>16. ASSUME tool = "file_append", w = "append" \/ (w = "add" /\ v = "to") PROVE ToolFor(m, intent) = tool
    <2>1. H(11) /\ ~H(1) /\ ~H(2) /\ ~H(3) /\ ~H(4) /\ ~H(5) /\ ~H(6) /\ ~H(7) /\ ~H(8) /\ ~H(9) /\ ~H(10)
      BY <1>1, <1>3, <1>16
    <2>2. \A j \in 1..13 : j < 11 => ~H(j)
      BY <2>1
    <2>3. QED
      BY <1>2, <1>4, <1>5, <1>16, <2>1, <2>2
  <1>17. ASSUME tool = "file_edit", w = "edit" \/ w = "replace" PROVE ToolFor(m, intent) = tool
    <2>1. H(12) /\ ~H(1) /\ ~H(2) /\ ~H(3) /\ ~H(4) /\ ~H(5) /\ ~H(6) /\ ~H(7) /\ ~H(8) /\ ~H(9) /\ ~H(10) /\ ~H(11)
      BY <1>1, <1>3, <1>17
    <2>2. \A j \in 1..13 : j < 12 => ~H(j)
      BY <2>1
    <2>3. QED
      BY <1>2, <1>4, <1>5, <1>17, <2>1, <2>2
  <1>18. ASSUME tool = "file_grep", w = "grep" \/ (w = "search" /\ v = "in") PROVE ToolFor(m, intent) = tool
    <2>1. H(13) /\ ~H(1) /\ ~H(2) /\ ~H(3) /\ ~H(4) /\ ~H(5) /\ ~H(6) /\ ~H(7) /\ ~H(8) /\ ~H(9) /\ ~H(10) /\ ~H(11) /\ ~H(12)
      BY <1>1, <1>3, <1>18
    <2>2. \A j \in 1..13 : j < 13 => ~H(j)
      BY <2>1
    <2>3. QED
      BY <1>2, <1>4, <1>5, <1>18, <2>1, <2>2
  <1>19. QED
    BY <1>6, <1>7, <1>8, <1>9, <1>10, <1>11, <1>12, <1>13,
       <1>14, <1>15, <1>16, <1>17, <1>18

\* The text a later decision is made on starts as the message does.
LEMMA EnrichedStarts ==
    ASSUME NEW m, NEW n, n = m \/ n \in Enriched(m), NEW w, NEW v, WordsAre(m, w, v)
    PROVE  WordsAre(n, w, v) /\ ("sum" \in n.marks => "sum" \in m.marks)
  <1>1. n.lead = m.lead
    BY DEF Enriched, Message
  <1>2. \A p : Starts(n, p) <=> Starts(m, p)
    BY <1>1 DEF Starts
  <1>3. "sum" \in n.marks => "sum" \in m.marks
    BY DEF Enriched, Message
  <1>4. QED
    BY <1>1, <1>2, <1>3 DEF WordsAre

\* The tests of the decision that are for a search of the web, or for no tool.
LEMMA WebTestIs ==
    ASSUME NEW k \in 1..16, CommandTests[k].tool = "web_search" PROVE k = 3
  <1>1. /\ CommandTests[1].tool # "web_search" /\ CommandTests[2].tool # "web_search"
        /\ CommandTests[4].tool # "web_search" /\ CommandTests[5].tool # "web_search"
        /\ CommandTests[6].tool # "web_search" /\ CommandTests[7].tool # "web_search"
        /\ CommandTests[8].tool # "web_search" /\ CommandTests[9].tool # "web_search"
    BY DEF CommandTests, Test, NoTool
  <1>2. /\ CommandTests[10].tool # "web_search" /\ CommandTests[11].tool # "web_search"
        /\ CommandTests[12].tool # "web_search" /\ CommandTests[13].tool # "web_search"
        /\ CommandTests[14].tool # "web_search" /\ CommandTests[15].tool # "web_search"
        /\ CommandTests[16].tool # "web_search"
    BY DEF CommandTests, Test, NoTool
  <1>3. QED
    BY <1>1, <1>2

LEMMA NoFileTestForWeb ==
    ASSUME NEW k \in 1..12 PROVE FileTests[k].tool # "web_search"
  <1>1. /\ FileTests[1].tool # "web_search" /\ FileTests[2].tool # "web_search"
        /\ FileTests[3].tool # "web_search" /\ FileTests[4].tool # "web_search"
        /\ FileTests[5].tool # "web_search" /\ FileTests[6].tool # "web_search"
    BY DEF FileTests, Test, NoTool
  <1>2. /\ FileTests[7].tool # "web_search" /\ FileTests[8].tool # "web_search"
        /\ FileTests[9].tool # "web_search" /\ FileTests[10].tool # "web_search"
        /\ FileTests[11].tool # "web_search" /\ FileTests[12].tool # "web_search"
    BY DEF FileTests, Test, NoTool
  <1>3. QED
    BY <1>1, <1>2

LEMMA LastTestsAreForNone ==
    ASSUME NEW k \in 1..4
    PROVE  LastTests[k].action # "USE_TOOL" /\ LastTests[k].tool # "web_search"
  <1> DEFINE a == Test({<<"!">>}, {}, "CONFIGURE", NoTool)
             b == Test({<<"new", "session">>, <<"start", "fresh">>}, {"whole"}, "NEW_SESSION", NoTool)
             c == Test({<<"clear">>, <<"reset">>}, {"whole"}, "CLEAR_CONVERSATION", NoTool)
             d == Test({}, {"small talk"}, "CHAT", NoTool)
  <1>1. LastTests = <<a, b, c, d>>
    BY DEF LastTests
  <1>2. /\ a.action = "CONFIGURE" /\ b.action = "NEW_SESSION"
        /\ c.action = "CLEAR_CONVERSATION" /\ d.action = "CHAT"
        /\ a.tool = NoTool /\ b.tool = NoTool /\ c.tool = NoTool /\ d.tool = NoTool
    BY DEF Test
  <1> HIDE DEF a, b, c, d
  <1>3. LastTests[1] = a /\ LastTests[2] = b /\ LastTests[3] = c /\ LastTests[4] = d
    BY <1>1
  <1>4. k = 1 \/ k = 2 \/ k = 3 \/ k = 4
    OBVIOUS
  <1>5. QED
    BY <1>2, <1>3, <1>4 DEF NoTool

LEMMA StartsTwo ==
    ASSUME NEW m, NEW w, NEW v, WordsAre(m, w, v), NEW a, NEW b, a # "", b # ""
    PROVE  Starts(m, <<a, b>>) <=> w = a /\ v = b
  BY DEF WordsAre

LEMMA StartsOne ==
    ASSUME NEW m, NEW w, NEW v, WordsAre(m, w, v), NEW a, a # ""
    PROVE  Starts(m, <<a>>) <=> w = a
  BY DEF WordsAre

LEMMA SearchesStart ==
    ASSUME NEW m, NEW w, NEW v, WordsAre(m, w, v)
    PROVE  /\ (Starts(m, <<"find", "in">>) <=> w = "find" /\ v = "in")
           /\ (Starts(m, <<"search", "the">>) <=> w = "search" /\ v = "the")
           /\ (Starts(m, <<"search", "for">>) <=> w = "search" /\ v = "for")
           /\ (Starts(m, <<"search", "online">>) <=> w = "search" /\ v = "online")
  <1>1. /\ "find" # "" /\ "in" # "" /\ "search" # "" /\ "the" # ""
        /\ "for" # "" /\ "online" # ""
    OBVIOUS
  <1>2. QED
    BY <1>1, StartsTwo

LEMMA NoSumInWords ==
    ASSUME NEW m, IsMessage(m), NEW w, NEW v, WordsAre(m, w, v), w # ""
    PROVE  "sum" \notin m.marks
  BY DEF IsMessage, WordsAre

\* The words that a tool is decided for.
LEMMA WordsDecided ==
    ASSUME NEW m, NEW n, n = m \/ n \in Enriched(m), NEW intent,
           NEW w, NEW v, WordsAre(m, w, v), First(Tests, n) # 0,
           Decide(n, intent).action = "USE_TOOL", Decide(n, intent).tool # "web_search"
    PROVE  LET tool == Decide(n, intent).tool
           IN  \/ tool = "calculator" /\ "sum" \in m.marks
               \/ tool = "shell" /\ w = "run"
               \/ tool = "app_launcher" /\ w = "open"
               \/ tool = "folder" /\ (w = "list" \/ w = "show")
               \/ /\ tool = "system_info"
                  /\ (w = "system" /\ v = "info") \/ (w = "system" /\ v = "status") \/ (w = "how's" /\ v = "my")
               \/ tool = "file_search" /\ w = "find"
               \/ tool = "file_read" /\ w = "read"
               \/ tool = "file_mkdir" /\ (w = "mkdir" \/ (w = "create" /\ v = "folder"))
               \/ /\ tool = "file_write" /\ ~(w = "create" /\ v = "folder")
                  /\ w = "write" \/ w = "save" \/ w = "create" \/ w = "make"
               \/ tool = "file_delete" /\ (w = "delete" \/ w = "remove")
               \/ tool = "file_append" /\ (w = "append" \/ (w = "add" /\ v = "to"))
               \/ tool = "file_edit" /\ (w = "edit" \/ w = "replace")
               \/ /\ tool = "file_grep"
                  /\ w = "grep" \/ (w = "search" /\ v = "in") \/ (w = "find" /\ v = "in")
  <1>1. WordsAre(n, w, v) /\ ("sum" \in n.marks => "sum" \in m.marks)
    BY EnrichedStarts
  <1> DEFINE k == First(Tests, n)
             tool == Decide(n, intent).tool
  <1>3. k # 0
    OBVIOUS
  <1>4. k \in 1..32 /\ Holds(Tests[k], n) /\ \A j \in 1..32 : j < k => ~Holds(Tests[j], n)
    BY <1>3, TestsAre, FirstIs
  <1>5. tool = Tests[k].tool /\ Decide(n, intent).action = Tests[k].action
    BY <1>3 DEF Decide
  <1> HIDE DEF k
  <1>6. tool # "web_search" /\ Tests[k].action = "USE_TOOL"
    BY <1>5
  <1> HIDE DEF tool
  <1>7. CASE k \in 1..16
    <2>1. Tests[k] = CommandTests[k]
      BY <1>7, TestsAre
    <2>2. Holds(CommandTests[k], n) /\ ForTool(CommandTests[k]) /\ tool = CommandTests[k].tool
      BY <1>4, <1>5, <1>6, <2>1 DEF ForTool
    <2>3. \/ tool = "file_grep" /\ (w = "search" /\ v = "in")
          \/ tool = "shell" /\ w = "run"
          \/ tool = "app_launcher" /\ w = "open"
          \/ tool = "folder" /\ (w = "list" \/ w = "show")
          \/ /\ tool = "system_info"
             /\ (w = "system" /\ v = "info") \/ (w = "system" /\ v = "status") \/ (w = "how's" /\ v = "my")
      BY <1>1, <1>7, <2>2, CommandTestsAsk
    <2>4. QED
      BY <2>3 DEF tool
  <1>8. CASE k \in 17..28
    <2> DEFINE l == k - 16
    <2>1. l \in 1..12 /\ Tests[k] = FileTests[l]
      BY <1>8, TestsAre
    <2>2. l = 8 => 23 < k /\ Tests[23] = FileTests[7]
      BY <1>8, TestsAre
    <2>3. l = 8 => ~Holds(FileTests[7], n)
      BY <1>4, <2>2
    <2> HIDE DEF l
    <2>4. Holds(FileTests[l], n) /\ ForTool(FileTests[l]) /\ tool = FileTests[l].tool
      BY <1>4, <1>5, <1>6, <2>1 DEF ForTool
    <2>5. \/ tool = "calculator" /\ "sum" \in n.marks
          \/ tool = "file_search" /\ w = "find"
          \/ tool = "file_read" /\ w = "read"
          \/ tool = "file_mkdir" /\ (w = "mkdir" \/ (w = "create" /\ v = "folder"))
          \/ /\ tool = "file_write" /\ ~(w = "create" /\ v = "folder")
             /\ w = "write" \/ w = "save" \/ w = "create" \/ w = "make"
          \/ tool = "file_delete" /\ (w = "delete" \/ w = "remove")
          \/ tool = "file_append" /\ (w = "append" \/ (w = "add" /\ v = "to"))
          \/ tool = "file_edit" /\ (w = "edit" \/ w = "replace")
          \/ /\ tool = "file_grep"
             /\ w = "grep" \/ (w = "search" /\ v = "in") \/ (w = "find" /\ v = "in")
      BY <1>1, <2>1, <2>3, <2>4, FileTestsAsk
    <2>6. QED
      BY <1>1, <2>5 DEF tool
  <1>9. k \notin 29..32
    <2>1. ASSUME k \in 29..32 PROVE FALSE
      <3> DEFINE l == k - 28
      <3>1. l \in 1..4 /\ Tests[k] = LastTests[l]
        BY <2>1, TestsAre
      <3> HIDE DEF l
      <3>2. QED
        BY <1>6, <3>1, LastTestsAreForNone
    <2>2. QED
      BY <2>1
  <1>10. QED
    <2>1. k \in 1..16 \/ k \in 17..28 \/ k \in 29..32
      BY <1>4
    <2>2. QED
      BY <1>7, <1>8, <1>9, <2>1

\* Both read a message the same ...
LEMMA ToolAsDecided ==
    ASSUME NEW m, IsMessage(m), NEW n, n = m \/ n \in Enriched(m), NEW intent, NEW other,
           First(Tests, n) # 0, Decide(n, intent).action = "USE_TOOL",
           Decide(n, intent).tool # "web_search", ~Starts(m, <<"find", "in">>)
    PROVE  ToolFor(m, other) = Decide(n, intent).tool
  <1> PICK w, v : WordsAre(m, w, v)
    BY SomeWords
  <1>1. ~(w = "find" /\ v = "in")
    BY SearchesStart
  <1> DEFINE tool == Decide(n, intent).tool
  <1>2. \/ tool = "calculator" /\ "sum" \in m.marks
        \/ tool = "shell" /\ w = "run"
        \/ tool = "app_launcher" /\ w = "open"
        \/ tool = "folder" /\ (w = "list" \/ w = "show")
        \/ /\ tool = "system_info"
           /\ (w = "system" /\ v = "info") \/ (w = "system" /\ v = "status") \/ (w = "how's" /\ v = "my")
        \/ tool = "file_search" /\ w = "find"
        \/ tool = "file_read" /\ w = "read"
        \/ tool = "file_mkdir" /\ (w = "mkdir" \/ (w = "create" /\ v = "folder"))
        \/ /\ tool = "file_write" /\ ~(w = "create" /\ v = "folder")
           /\ w = "write" \/ w = "save" \/ w = "create" \/ w = "make"
        \/ tool = "file_delete" /\ (w = "delete" \/ w = "remove")
        \/ tool = "file_append" /\ (w = "append" \/ (w = "add" /\ v = "to"))
        \/ tool = "file_edit" /\ (w = "edit" \/ w = "replace")
        \/ /\ tool = "file_grep"
           /\ w = "grep" \/ (w = "search" /\ v = "in") \/ (w = "find" /\ v = "in")
    BY WordsDecided
  <1> HIDE DEF tool
  <1>3. ToolFor(m, other) = tool
    BY <1>1, <1>2, ToolIs
  <1>4. QED
    BY <1>3 DEF tool

\* ... but for "find in", where one looks into the files and the other for them, ...
LEMMA FoundInFiles ==
    ASSUME NEW m, IsMessage(m), NEW n, n = m \/ n \in Enriched(m), NEW intent, NEW other,
           First(Tests, n) # 0, Decide(n, intent).action = "USE_TOOL",
           Decide(n, intent).tool # "web_search", Starts(m, <<"find", "in">>)
    PROVE  Decide(n, intent).tool \in {"file_grep", "file_search"}
           /\ ToolFor(m, other) = "file_search"
  <1> PICK w, v : WordsAre(m, w, v)
    BY SomeWords
  <1>1. w = "find" /\ v = "in"
    BY SearchesStart
  <1>2. "sum" \notin m.marks
    <2>1. w # ""
      BY <1>1
    <2>2. QED
      BY <2>1, NoSumInWords
  <1>3. Decide(n, intent).tool \in {"file_grep", "file_search"}
    BY <1>1, <1>2, WordsDecided
  <1>4. Holds(ToolTests[2], m) /\ ~Holds(ToolTests[1], m)
    BY <1>1, <1>2, ToolTestsAsk
  <1>5. \A j \in 1..13 : j < 2 => ~Holds(ToolTests[j], m)
    <2>1. \A j \in 1..13 : j < 2 => j = 1
      OBVIOUS
    <2>2. QED
      BY <1>4, <2>1
  <1>6. First(ToolTests, m) = 2
    <2>1. 13 \in Nat /\ 2 \in 1..13
      OBVIOUS
    <2>2. QED
      BY <1>4, <1>5, <2>1, ToolTestsAre, FirstAt
  <1>7. ToolTests[2].tool = "file_search"
    BY ToolTestsAre DEF SystemToolTests, Test
  <1>8. QED
    BY <1>3, <1>6, <1>7 DEF ToolFor

LEMMA ShorterStart ==
    ASSUME NEW m, m.lead \in Seq(STRING), NEW a, NEW b, NEW c, Starts(m, <<a, b, c>>)
    PROVE  Starts(m, <<a, b>>)
  <1> DEFINE s == m.lead
             p == <<a, b, c>>
  <1>1. s \in Seq(STRING) /\ Len(s) \in Nat /\ 3 <= Len(s) /\ SubSeq(s, 1, 3) = p
    BY DEF Starts
  <1>2. p[1] = a /\ p[2] = b
    OBVIOUS
  <1> HIDE DEF p
  <1>3. \A i \in 1..3 : s[i] \in STRING
    BY <1>1
  <1>4. \A i \in 1..3 : SubSeq(s, 1, 3)[i] = s[1 + i - 1]
    BY <1>1, <1>3, SubSeqProperties
  <1>5. s[1] = a /\ s[2] = b
    BY <1>1, <1>2, <1>4
  <1>6. 2 <= Len(s) /\ SubSeq(s, 1, 2) = <<s[1], s[2]>>
    BY <1>1, FirstWords
  <1>7. Len(<<a, b>>) = 2
    OBVIOUS
  <1>8. QED
    BY <1>5, <1>6, <1>7 DEF Starts

\* ... a search of the web, which is classified once more, ...
LEMMA SearchedAgain ==
    ASSUME NEW m, IsMessage(m), NEW n, n = m \/ n \in Enriched(m), NEW intent, NEW other,
           First(Tests, n) # 0, Decide(n, intent).tool = "web_search"
    PROVE  ToolFor(m, other) \in {"web_search", "file_search", "memory_search"}
  <1> PICK w, v : WordsAre(m, w, v)
    BY SomeWords
  <1>1. WordsAre(n, w, v) /\ n.lead \in Seq(STRING)
    <2>1. n.lead = m.lead
      BY DEF Enriched, Message
    <2>2. QED
      BY <2>1, EnrichedStarts DEF IsMessage
  <1> DEFINE k == First(Tests, n)
  <1>2. k \in 1..32 /\ Holds(Tests[k], n) /\ Tests[k].tool = "web_search"
    BY TestsAre, FirstIs DEF Decide
  <1> HIDE DEF k
  <1>3. k = 3
    <2>1. ASSUME k \in 1..16 PROVE k = 3
      BY <1>2, <2>1, TestsAre, WebTestIs
    <2>2. ASSUME k \in 17..28 PROVE FALSE
      <3>1. k - 16 \in 1..12 /\ FileTests[k - 16].tool = "web_search"
        BY <1>2, <2>2, TestsAre
      <3>2. QED
        BY <3>1, NoFileTestForWeb
    <2>3. ASSUME k \in 29..32 PROVE FALSE
      <3>1. k - 28 \in 1..4 /\ LastTests[k - 28].tool = "web_search"
        BY <1>2, <2>3, TestsAre
      <3>2. QED
        BY <3>1, LastTestsAreForNone
    <2>4. k \in 1..16 \/ k \in 17..28 \/ k \in 29..32
      BY <1>2
    <2>5. QED
      BY <2>1, <2>2, <2>3, <2>4
  <1>4. Holds(CommandTests[3], n)
    BY <1>2, <1>3, TestsAre
  <1>5. \/ Starts(n, <<"search", "the", "web">>) \/ Starts(n, <<"search", "for">>)
        \/ Starts(n, <<"search", "online">>)
    <2>1. CommandTests[3].prefixes =
            {<<"search", "the", "web">>, <<"search", "for">>, <<"search", "online">>}
      BY DEF CommandTests, Test
    <2>2. QED
      BY <1>4, <2>1 DEF Holds
  <1>6. w = "search" /\ v \in {"the", "for", "online"}
    <2>1. \/ Starts(n, <<"search", "the">>) \/ Starts(n, <<"search", "for">>)
          \/ Starts(n, <<"search", "online">>)
      BY <1>1, <1>5, ShorterStart
    <2>2. QED
      BY <1>1, <2>1, SearchesStart
  <1>7. "sum" \notin m.marks
    <2>1. w # ""
      BY <1>6
    <2>2. QED
      BY <2>1, NoSumInWords
  <1>8. \A j \in 1..13 : ~Holds(ToolTests[j], m)
    <2>1. /\ ~Holds(ToolTests[1], m) /\ ~Holds(ToolTests[2], m) /\ ~Holds(ToolTests[3], m)
          /\ ~Holds(ToolTests[4], m) /\ ~Holds(ToolTests[5], m) /\ ~Holds(ToolTests[6], m)
          /\ ~Holds(ToolTests[7], m) /\ ~Holds(ToolTests[8], m) /\ ~Holds(ToolTests[9], m)
          /\ ~Holds(ToolTests[10], m) /\ ~Holds(ToolTests[11], m)
          /\ ~Holds(ToolTests[12], m) /\ ~Holds(ToolTests[13], m)
      BY <1>6, <1>7, ToolTestsAsk
    <2>2. QED
      BY <2>1
  <1>9. First(ToolTests, m) = 0
    BY <1>8, ToolTestsAre, FirstIs
  <1>10. QED
    BY <1>9 DEF ToolFor

\* ... and what was left to the classifier, which may be taken for any tool but
\* those that have to be asked for by name.
LEMMA GuessedTool ==
    ASSUME NEW m, IsMessage(m), NEW n, n = m \/ n \in Enriched(m), NEW other,
           First(Tests, n) = 0
    PROVE  ToolFor(m, other) \notin ByName
  <1> PICK w, v : WordsAre(m, w, v)
    BY SomeWords
  <1>1. WordsAre(n, w, v)
    BY EnrichedStarts
  <1>2. \A i \in 1..32 : ~Holds(Tests[i], n)
    BY TestsAre, FirstNone
  <1>3. /\ ~Holds(CommandTests[4], n) /\ ~Holds(CommandTests[11], n)
        /\ ~Holds(CommandTests[14], n)
    BY <1>2, TestsAre
  <1>4. /\ ~Holds(FileTests[7], n) /\ ~Holds(FileTests[10], n)
        /\ ~Holds(FileTests[11], n) /\ ~Holds(FileTests[12], n)
    <2>1. /\ Tests[23] = FileTests[7] /\ Tests[26] = FileTests[10]
          /\ Tests[27] = FileTests[11] /\ Tests[28] = FileTests[12]
      BY TestsAre
    <2>2. /\ ~Holds(Tests[23], n) /\ ~Holds(Tests[26], n)
          /\ ~Holds(Tests[27], n) /\ ~Holds(Tests[28], n)
      BY <1>2
    <2>3. QED
      BY <2>1, <2>2
  <1>5. ~(w = "search" /\ v = "in") /\ w # "run"
    <2>1. /\ CommandTests[4] = Test({<<"search", "in">>}, {}, "USE_TOOL", "file_grep")
          /\ CommandTests[11] = Test({<<"run">>}, {}, "USE_TOOL", "shell")
      BY DEF CommandTests
    <2>2. ~Starts(n, <<"search", "in">>) /\ ~Starts(n, <<"run">>)
      BY <1>3, <2>1 DEF Holds, Test
    <2>3. "in" # "" /\ "run" # "" /\ "search" # ""
      OBVIOUS
    <2>4. /\ (Starts(n, <<"search", "in">>) <=> w = "search" /\ v = "in")
          /\ (Starts(n, <<"run">>) <=> w = "run")
      BY <1>1, <2>3, StartsTwo, StartsOne
    <2>5. QED
      BY <2>2, <2>4
  <1>6. ~(w = "system" /\ v = "info") /\ ~(w = "system" /\ v = "status") /\ ~(w = "how's" /\ v = "my")
    <2>1. CommandTests[14] =
            Test({<<"system", "info">>, <<"system", "status">>, <<"how's", "my">>},
                 {}, "USE_TOOL", "system_info")
      BY DEF CommandTests
    <2>2. /\ ~Starts(n, <<"system", "info">>) /\ ~Starts(n, <<"system", "status">>)
          /\ ~Starts(n, <<"how's", "my">>)
      BY <1>3, <2>1 DEF Holds, Test
    <2>3. "how's" # "" /\ "info" # "" /\ "my" # "" /\ "status" # "" /\ "system" # ""
      OBVIOUS
    <2>4. /\ (Starts(n, <<"system", "info">>) <=> w = "system" /\ v = "info")
          /\ (Starts(n, <<"system", "status">>) <=> w = "system" /\ v = "status")
          /\ (Starts(n, <<"how's", "my">>) <=> w = "how's" /\ v = "my")
      BY <1>1, <2>3, StartsTwo, StartsOne
    <2>5. QED
      BY <2>2, <2>4
  <1>7. w # "mkdir" /\ ~(w = "create" /\ v = "folder") /\ w # "append" /\ ~(w = "add" /\ v = "to")
    <2>1. /\ FileTests[7] = Test({<<"mkdir">>, <<"create", "folder">>}, {}, "USE_TOOL", "file_mkdir")
          /\ FileTests[10] = Test({<<"append">>, <<"add", "to">>}, {}, "USE_TOOL", "file_append")
      BY DEF FileTests
    <2>2. /\ ~Starts(n, <<"mkdir">>) /\ ~Starts(n, <<"create", "folder">>)
          /\ ~Starts(n, <<"append">>) /\ ~Starts(n, <<"add", "to">>)
      BY <1>4, <2>1 DEF Holds, Test
    <2>3. "add" # "" /\ "append" # "" /\ "create" # "" /\ "folder" # "" /\ "mkdir" # "" /\ "to" # ""
      OBVIOUS
    <2>4. /\ (Starts(n, <<"create", "folder">>) <=> w = "create" /\ v = "folder")
          /\ (Starts(n, <<"add", "to">>) <=> w = "add" /\ v = "to")
          /\ (Starts(n, <<"mkdir">>) <=> w = "mkdir")
          /\ (Starts(n, <<"append">>) <=> w = "append")
      BY <1>1, <2>3, StartsTwo, StartsOne
    <2>5. QED
      BY <2>2, <2>4
  <1>8. w # "edit" /\ w # "replace" /\ w # "grep" /\ ~(w = "find" /\ v = "in")
    <2>1. /\ FileTests[11] = Test({<<"edit">>, <<"replace">>}, {}, "USE_TOOL", "file_edit")
          /\ FileTests[12] = Test({<<"grep">>, <<"search", "in">>, <<"find", "in">>},
                                  {}, "USE_TOOL", "file_grep")
      BY DEF FileTests
    <2>2. /\ ~Starts(n, <<"edit">>) /\ ~Starts(n, <<"replace">>)
          /\ ~Starts(n, <<"grep">>) /\ ~Starts(n, <<"find", "in">>)
      BY <1>4, <2>1 DEF Holds, Test
    <2>3. "edit" # "" /\ "find" # "" /\ "grep" # "" /\ "in" # "" /\ "replace" # ""
      OBVIOUS
    <2>4. /\ (Starts(n, <<"find", "in">>) <=> w = "find" /\ v = "in")
          /\ (Starts(n, <<"edit">>) <=> w = "edit")
          /\ (Starts(n, <<"replace">>) <=> w = "replace")
          /\ (Starts(n, <<"grep">>) <=> w = "grep")
      BY <1>1, <2>3, StartsTwo, StartsOne
    <2>5. QED
      BY <2>2, <2>4
  <1>9. /\ ~Holds(ToolTests[4], m) /\ ~Holds(ToolTests[7], m) /\ ~Holds(ToolTests[8], m)
        /\ ~Holds(ToolTests[11], m) /\ ~Holds(ToolTests[12], m) /\ ~Holds(ToolTests[13], m)
    BY <1>5, <1>6, <1>7, <1>8, ToolTestsAsk
  <1>10. CASE First(ToolTests, m) = 0
    BY <1>10 DEF ToolFor, ByName
  <1>11. CASE First(ToolTests, m) # 0
    <2> DEFINE k == First(ToolTests, m)
    <2>1. k \in 1..13 /\ Holds(ToolTests[k], m) /\ ToolFor(m, other) = ToolTests[k].tool
      BY <1>11, ToolTestsAre, FirstIs DEF ToolFor
    <2> HIDE DEF k
    <2>2. k \in {1, 2, 3, 5, 6, 9, 10}
      BY <1>9, <2>1
    <2>3. /\ ToolTests[1].tool = "calculator" /\ ToolTests[2].tool = "file_search"
          /\ ToolTests[3].tool = "file_read" /\ ToolTests[5].tool = "app_launcher"
          /\ ToolTests[6].tool = "folder" /\ ToolTests[9].tool = "file_write"
          /\ ToolTests[10].tool = "file_delete"
      BY ToolTestsAre DEF SystemToolTests, FileToolTests, Test
    <2>4. QED
      BY <2>1, <2>2, <2>3 DEF ByName
  <1>12. QED
    BY <1>10, <1>11

\* So a tool that is taken is the one decided on, but where that is said.
Taken(m, meant, tool) ==
    \/ tool = meant
    \/ /\ meant = "file_grep" /\ tool = "file_search"
       /\ Starts(m, <<"find", "in">>)
    \/ meant = "web_search" /\ tool \in {"file_search", "memory_search"}
    \/ meant = AnyTool /\ tool \notin ByName

LEMMA ToolTaken ==
    ASSUME NEW m, IsMessage(m), NEW n, n = m \/ n \in Enriched(m), NEW intent \in Intents,
           NEW other, Decide(n, intent).action = "USE_TOOL"
    PROVE  Taken(m, Decide(n, intent).tool, ToolFor(m, other))
  <1>1. CASE First(Tests, n) = 0
    <2>1. Decide(n, intent).tool = AnyTool
      BY <1>1 DEF Decide, Intents
    <2>2. QED
      BY <1>1, <2>1, GuessedTool DEF Taken
  <1>2. CASE First(Tests, n) # 0 /\ Decide(n, intent).tool = "web_search"
    BY <1>2, SearchedAgain DEF Taken
  <1>3. CASE First(Tests, n) # 0 /\ Decide(n, intent).tool # "web_search"
    <2>1. CASE Starts(m, <<"find", "in">>)
      BY <1>3, <2>1, FoundInFiles DEF Taken
    <2>2. CASE ~Starts(m, <<"find", "in">>)
      BY <1>3, <2>2, ToolAsDecided DEF Taken
    <2>3. QED
      BY <2>1, <2>2
  <1>4. QED
    BY <1>1, <1>2, <1>3

-----------------------------------------------------------------------------
(* The frames of the threads. *)

LEMMA AppendEnds ==
    ASSUME NEW T, NEW r \in Seq(T), NEW f \in T
    PROVE  /\ Append(r, f) \in Seq(T) /\ Append(r, f) # <<>>
           /\ Len(Append(r, f)) = Len(r) + 1
           /\ Front(Append(r, f)) = r /\ Last(Append(r, f)) = f
  <1>2. /\ Append(r, f) \in Seq(T) /\ Len(Append(r, f)) = Len(r) + 1
        /\ \A i \in 1..Len(r) : Append(r, f)[i] = r[i]
        /\ Append(r, f)[Len(r) + 1] = f
    BY AppendProperties
  <1>3. Len(r) \in Nat
    BY LenProperties
  <1>4. Last(Append(r, f)) = f /\ Append(r, f) # <<>>
    BY <1>2, <1>3, EmptySeq DEF Last
  <1>5. Front(Append(r, f)) = r
    <2>1. Front(Append(r, f)) = SubSeq(Append(r, f), 1, Len(r))
      BY <1>2, <1>3 DEF Front
    <2>2. /\ Front(Append(r, f)) \in Seq(T) /\ Len(Front(Append(r, f))) = Len(r)
          /\ \A i \in 1..Len(r) : Front(Append(r, f))[i] = r[i]
      BY <1>2, <1>3, <2>1, SubSeqProperties, ElementOfSeq
    <2>3. QED
      BY <2>2, SeqEqual
  <1>6. QED
    BY <1>2, <1>4, <1>5

LEMMA SplitEnds ==
    ASSUME NEW S, NEW s \in Seq(S), s # <<>>
    PROVE  /\ Front(s) \in Seq(S) /\ Last(s) \in S /\ s = Append(Front(s), Last(s))
  <1>1. Len(s) \in Nat \ {0}
    BY EmptySeq
  <1>2. Last(s) \in S /\ \A i \in 1..Len(s) - 1 : s[i] \in S
    BY <1>1, ElementOfSeq DEF Last
  <1>3. /\ Front(s) \in Seq(S) /\ Len(Front(s)) = Len(s) - 1
        /\ \A i \in 1..Len(s) - 1 : Front(s)[i] = s[i]
    <2>1. /\ SubSeq(s, 1, Len(s) - 1) \in Seq(S)
          /\ Len(SubSeq(s, 1, Len(s) - 1)) = IF 1 <= Len(s) - 1 THEN Len(s) - 1 - 1 + 1 ELSE 0
          /\ \A i \in 1 .. Len(s) - 1 - 1 + 1 : SubSeq(s, 1, Len(s) - 1)[i] = s[1 + i - 1]
      BY <1>1, <1>2, SubSeqProperties
    <2>2. Len(s) - 1 - 1 + 1 = Len(s) - 1 /\ \A i \in 1..Len(s) - 1 : 1 + i - 1 = i
      BY <1>1
    <2>3. \A i \in 1..Len(s) - 1 : SubSeq(s, 1, Len(s) - 1)[i] = s[i]
      BY <2>1, <2>2
    <2>4. Len(SubSeq(s, 1, Len(s) - 1)) = Len(s) - 1
      <3>1. PICK n \in Int : n = Len(s) - 1 /\ n >= 0
        BY <1>1
      <3>2. (IF 1 <= n THEN n - 1 + 1 ELSE 0) = n
        BY <3>1
      <3>3. QED
        BY <2>1, <3>1, <3>2
    <2>5. QED
      BY <2>1, <2>3, <2>4 DEF Front
  <1>4. /\ Append(Front(s), Last(s)) \in Seq(S)
        /\ Len(Append(Front(s), Last(s))) = Len(s)
        /\ \A i \in 1..Len(s) : Append(Front(s), Last(s))[i] = s[i]
    BY <1>1, <1>2, <1>3, AppendProperties DEF Last
  <1>5. QED
    BY <1>2, <1>3, <1>4, SeqEqual

ToolNames == Tools \cup {NoTool, NoSuchTool}

Decisions == UNION {Decided[m] \cup DecidedLater[m] : m \in Messages}
Actions == {d.action : d \in Decisions} \cup {"none yet"}
Meanings == {d.tool : d \in Decisions} \cup {NoTool}
ToolsTold == (UNION {ToldFor[m] : m \in Messages}) \cup {NoTool}

RunActs == Seq([tool : ToolNames, failed : BOOLEAN])
LegacyActs == Seq([tool : Actions, failed : BOOLEAN])

RunFrames ==
    [kind : {"run"}, agent : DOMAIN profiles, stream : BOOLEAN, hard : BOOLEAN,
     pc : {"ask", "asked", "stream", "tool", "web", "synthesize", "finish", "return",
           "delegated", "legacy", "legacy only"},
     tool : ToolNames, turn : Nat, iterations : Nat, acts : RunActs, final : Texts,
     substitute : BOOLEAN, by : {"program", "substitute", "preferred"}]

LegacyFrames ==
    [kind : {"legacy"}, agent : DOMAIN profiles, message : Messages,
     pc : {"decide", "route", "judge", "wait"}, turn : Nat, acts : LegacyActs, final : Texts,
     action : Actions, meant : Meanings, tool : ToolsTold]

ListFrames ==
    [kind : {"chain", "team", "parallel"}, agents : Parties, at : Nat, turn : Nat, out : Int,
     last : Texts, heard : SUBSET Texts, done : BOOLEAN]

AllFrames == RunFrames \cup LegacyFrames \cup ListFrames

\* One that has failed is not done again.
Unrepeated(acts) ==
    \A n \in 2..Len(acts) : acts[n].failed => acts[n] # acts[n - 1]

\* The tool that was told is the one that was decided on.
Routed(f) == f.action = "USE_TOOL" => Taken(f.message, f.meant, f.tool)

\* A tool is used in a turn, and one before the turns; a run that repeats a
\* failure goes no further.
Fits(f) ==
    /\ f.kind \in {"run", "legacy"} =>
         f.turn <= profiles[f.agent].turns /\ Unrepeated(f.acts)
    /\ f.kind = "run" =>
         /\ Len(f.acts) <= f.turn + IF f.pc \in {"asked", "tool"} THEN 0 ELSE 1
         /\ f.by # "program" => f.pc \in {"finish", "synthesize"}
    /\ f.kind = "legacy" =>
         /\ Len(f.acts) + (IF f.pc = "decide" THEN 0 ELSE 1) <= f.turn
         /\ f.pc = "route" => Routed(f)

\* A frame that waits for another to return.
Waits(f) ==
    \/ f.kind = "run" /\ f.pc \in {"delegated", "legacy", "legacy only"}
    \/ f.kind = "legacy" /\ f.pc = "wait"
    \/ f.kind \in {"chain", "team"}

\* Only the thread of the request knows whose words a reply has; and it has
\* the pools.
Fitting(t) ==
    {f \in AllFrames :
        /\ Fits(f)
        /\ t = Main => (f.kind = "run" /\ f.by = "substitute" => f.tool = NoSuchTool)
        /\ t # Main => f.kind # "parallel"}

Waiting(t) == {f \in Fitting(t) : Waits(f)}

Stacks(t) == {<<>>} \cup {Append(r, f) : r \in Seq(Waiting(t)), f \in Fitting(t)}

LEMMA TopAndRest ==
    ASSUME NEW t, NEW s \in Stacks(t), s # <<>>
    PROVE  /\ Front(s) \in Seq(Waiting(t)) /\ Last(s) \in Fitting(t)
           /\ Front(s) \in Stacks(t)
           /\ s \in Seq(Fitting(t))
  <1>1. Waiting(t) \subseteq Fitting(t)
    BY DEF Waiting
  <1>2. PICK r \in Seq(Waiting(t)), f \in Fitting(t) : s = Append(r, f) /\ r \in Seq(Fitting(t))
    BY <1>1, SeqMonotonic DEF Stacks
  <1>3. Front(s) = r /\ Last(s) = f /\ s \in Seq(Fitting(t))
    <2>1. /\ Append(r, f) \in Seq(Fitting(t))
          /\ Front(Append(r, f)) = r /\ Last(Append(r, f)) = f
      BY <1>2, AppendEnds
    <2>2. QED
      BY <1>2, <2>1
  <1>4. r \in Stacks(t)
    <2>1. CASE r = <<>>
      BY <2>1 DEF Stacks
    <2>2. CASE r # <<>>
      <3>1. Front(r) \in Seq(Waiting(t)) /\ Last(r) \in Fitting(t) /\ r = Append(Front(r), Last(r))
        BY <1>1, <2>2, SplitEnds
      <3>2. QED
        BY <3>1 DEF Stacks
    <2>3. QED
      BY <2>1, <2>2
  <1>5. QED
    BY <1>3, <1>4

LEMMA Stacked ==
    ASSUME NEW t, NEW r \in Seq(Waiting(t)), NEW f \in Fitting(t)
    PROVE  /\ Append(r, f) \in Stacks(t) /\ Append(r, f) # <<>>
           /\ Last(Append(r, f)) = f /\ Front(Append(r, f)) = r
  <1>1. r \in Seq(Fitting(t))
    BY SeqMonotonic DEF Waiting
  <1>2. /\ Append(r, f) # <<>>
        /\ Front(Append(r, f)) = r /\ Last(Append(r, f)) = f
    BY <1>1, AppendEnds
  <1>3. QED
    BY <1>2 DEF Stacks

ProfilesFit == profiles \in [DOMAIN profiles -> Profile]

FramesFit ==
    /\ frames = [t \in Threads |-> frames[t]]
    /\ \A t \in Threads : frames[t] \in Stacks(t)

Busy == {w \in Workers : frames[w] # <<>>}

\* The threads of a pool work while the request's waits for them.
PoolFits ==
    IF ~Idle /\ Top(Main).kind = "parallel" THEN Top(Main).out = Cardinality(Busy)
    ELSE Busy = {}

\* The shared mark is that of the call the request's thread has made.
FlagFits ==
    ~Idle /\ Top(Main).kind = "run" /\ Top(Main).pc = "asked" => flag = Top(Main).substitute

LoopInv ==
    /\ ProfilesFit /\ messages \subseteq Messages /\ calling \in BOOLEAN
    /\ FramesFit /\ PoolFits /\ FlagFits

\* What a step may do to the frames: that of a thread has another on top, or
\* others; the last of Main's is gone; a thread of the pool is free again, or
\* takes a run.
Moves(t) ==
    /\ frames[t] # <<>> /\ (Top(t).kind = "parallel" => Top(t).out = 0)
    /\ \E r \in Seq(Waiting(t)), g \in Fitting(t) :
         /\ frames' = [frames EXCEPT ![t] = Append(r, g)]
         /\ g.kind = "parallel" => g.out = 0
         /\ g.kind = "run" /\ g.pc = "asked" => flag' = g.substitute

Empties ==
    /\ ~Idle
    /\ Top(Main).kind = "parallel" => Top(Main).out = 0
    /\ frames' = [frames EXCEPT ![Main] = <<>>]

Frees(w) ==
    /\ frames[w] # <<>>
    /\ \E text \in Texts :
         frames' = [frames EXCEPT ![w] = <<>>,
                                  ![Main] = Append(Front(@), Received(Last(@), text))]

Passes ==
    /\ ~Idle /\ Top(Main).kind = "parallel"
    /\ frames' = [frames EXCEPT ![Main] = Append(Front(@), [Top(Main) EXCEPT !.at = @ + 1])]

Takes(w) ==
    /\ frames[w] = <<>> /\ ~Idle /\ Top(Main).kind = "parallel"
    /\ \E run \in Stacks(w) :
         /\ run # <<>>
         /\ frames' = [frames EXCEPT
                ![w] = run,
                ![Main] = Append(Front(@), [Top(Main) EXCEPT !.at = @ + 1, !.out = @ + 1])]

Begins ==
    /\ Idle
    /\ \E r \in Seq(Waiting(Main)), g \in Fitting(Main) :
         /\ frames' = [frames EXCEPT ![Main] = Append(r, g)]
         /\ g.kind = "parallel" => g.out = 0
         /\ g.kind = "run" => g.pc # "asked"

LEMMA StacksStay ==
    ASSUME profiles' = profiles, NEW t PROVE Stacks(t)' = Stacks(t)
  BY DEF Stacks, Waiting, Fitting, AllFrames, RunFrames, LegacyFrames, ListFrames, Fits, Routed

LEMMA MovesFit ==
    ASSUME LoopInv, profiles' = profiles, NEW t \in Threads, Moves(t)
    PROVE  (FramesFit /\ PoolFits /\ FlagFits)'
  <1> PICK r \in Seq(Waiting(t)), g \in Fitting(t) :
         /\ frames' = [frames EXCEPT ![t] = Append(r, g)]
         /\ g.kind = "parallel" => g.out = 0
         /\ g.kind = "run" /\ g.pc = "asked" => flag' = g.substitute
    BY DEF Moves
  <1>1. /\ Append(r, g) \in Stacks(t) /\ Append(r, g) # <<>> /\ Last(Append(r, g)) = g
    BY Stacked
  <1>2. /\ frames'[t] = Append(r, g) /\ frames' = [u \in Threads |-> frames'[u]]
        /\ \A u \in Threads \ {t} : frames'[u] = frames[u]
    BY DEF LoopInv, FramesFit
  <1>3. FramesFit'
    BY <1>1, <1>2, StacksStay DEF LoopInv, FramesFit
  <1>4. frames[t] # <<>> /\ (Top(t).kind = "parallel" => Top(t).out = 0)
    BY DEF Moves
  <1>5. Main \in Threads /\ Workers \subseteq Threads /\ Main \notin Workers
    BY LoopAssumption DEF Threads
  <1>6. Busy' = Busy
    BY <1>1, <1>2, <1>4, <1>5 DEF Busy
  <1>7. CASE t = Main
    <2>1. Busy = {}
      <3>1. Busy \subseteq Workers /\ IsFiniteSet(Busy)
        BY LoopAssumption, FS_Subset DEF Busy
      <3>2. QED
        BY <1>4, <1>7, <3>1, FS_EmptySet DEF LoopInv, PoolFits, Idle
    <2>2. ~Idle' /\ Top(Main)' = g
      BY <1>1, <1>2, <1>7 DEF Idle, Top
    <2>3. PoolFits'
      BY <1>6, <2>1, <2>2, FS_EmptySet DEF PoolFits
    <2>4. FlagFits'
      BY <2>2 DEF FlagFits
    <2>5. QED
      BY <1>3, <2>3, <2>4
  <1>8. CASE t # Main
    <2>1. t \in Busy /\ frames'[Main] = frames[Main]
      BY <1>2, <1>4, <1>5, <1>8 DEF Busy, Threads
    <2>2. Idle' = Idle /\ Top(Main)' = Top(Main)
      BY <2>1 DEF Idle, Top
    <2>3. ~Idle /\ Top(Main).kind = "parallel"
      BY <2>1 DEF LoopInv, PoolFits
    <2>4. PoolFits' /\ FlagFits'
      BY <1>6, <2>2, <2>3 DEF LoopInv, PoolFits, FlagFits
    <2>5. QED
      BY <1>3, <2>4
  <1>9. QED
    BY <1>7, <1>8

LEMMA StartsFit ==
    ASSUME LoopInv, profiles' = profiles, Begins
    PROVE  (FramesFit /\ PoolFits /\ FlagFits)'
  <1> PICK r \in Seq(Waiting(Main)), g \in Fitting(Main) :
         /\ frames' = [frames EXCEPT ![Main] = Append(r, g)]
         /\ g.kind = "parallel" => g.out = 0
         /\ g.kind = "run" => g.pc # "asked"
    BY DEF Begins
  <1>1. /\ Append(r, g) \in Stacks(Main) /\ Append(r, g) # <<>> /\ Last(Append(r, g)) = g
    BY Stacked
  <1>2. Main \in Threads /\ Workers \subseteq Threads /\ Main \notin Workers
    BY LoopAssumption DEF Threads
  <1>3. /\ frames'[Main] = Append(r, g) /\ frames' = [u \in Threads |-> frames'[u]]
        /\ \A u \in Threads \ {Main} : frames'[u] = frames[u]
    BY <1>2 DEF LoopInv, FramesFit
  <1>4. FramesFit'
    BY <1>1, <1>3, StacksStay DEF LoopInv, FramesFit
  <1>5. Busy' = {}
    BY <1>2, <1>3 DEF Busy, LoopInv, PoolFits, Begins
  <1>6. ~Idle' /\ Top(Main)' = g
    BY <1>1, <1>3 DEF Idle, Top
  <1>7. PoolFits' /\ FlagFits'
    BY <1>5, <1>6, FS_EmptySet DEF PoolFits, FlagFits
  <1>8. QED
    BY <1>4, <1>7

LEMMA EmptiesFit ==
    ASSUME LoopInv, profiles' = profiles, Empties
    PROVE  (FramesFit /\ PoolFits /\ FlagFits)'
  <1>1. Main \in Threads /\ Workers \subseteq Threads /\ Main \notin Workers
    BY LoopAssumption DEF Threads
  <1>2. /\ frames'[Main] = <<>> /\ frames' = [u \in Threads |-> frames'[u]]
        /\ \A u \in Threads \ {Main} : frames'[u] = frames[u]
    BY <1>1 DEF LoopInv, FramesFit, Empties
  <1>3. FramesFit'
    <2>1. \A t : <<>> \in Stacks(t)
      BY DEF Stacks
    <2>2. QED
      BY <1>2, <2>1, StacksStay DEF LoopInv, FramesFit
  <1>4. Busy \subseteq Workers /\ IsFiniteSet(Busy)
    BY LoopAssumption, FS_Subset DEF Busy
  <1>5. Busy = {}
    BY <1>4, FS_EmptySet DEF LoopInv, PoolFits, Empties
  <1>6. Busy' = {} /\ Idle'
    BY <1>1, <1>2, <1>5 DEF Busy, Idle
  <1>7. QED
    BY <1>3, <1>6 DEF PoolFits, FlagFits

\* The frame of the pool at work.
LEMMA PoolFrame ==
    ASSUME LoopInv, ~Idle, Top(Main).kind = "parallel", NEW text \in Texts
    PROVE  LET f == Top(Main)
               taken == [f EXCEPT !.at = @ + 1, !.out = @ + 1]
           IN  /\ Front(frames[Main]) \in Seq(Waiting(Main))
               /\ f.out = Cardinality(Busy) /\ f.out \in Int /\ IsFiniteSet(Busy)
               /\ [f EXCEPT !.at = @ + 1] \in Fitting(Main)
               /\ [f EXCEPT !.at = @ + 1].kind = "parallel"
               /\ [f EXCEPT !.at = @ + 1].out = f.out
               /\ taken \in Fitting(Main) /\ taken.kind = "parallel" /\ taken.out = f.out + 1
               /\ Received(f, text) \in Fitting(Main)
               /\ Received(f, text).kind = "parallel" /\ Received(f, text).out = f.out - 1
  <1> DEFINE f == Top(Main)
  <1>1. frames[Main] \in Stacks(Main) /\ frames[Main] # <<>>
    BY DEF LoopInv, FramesFit, Threads, Idle
  <1>2. Front(frames[Main]) \in Seq(Waiting(Main)) /\ f \in Fitting(Main)
    BY <1>1, TopAndRest DEF Top
  <1>3. f \in ListFrames /\ f.kind = "parallel"
    BY <1>2 DEF Fitting, AllFrames, RunFrames, LegacyFrames
  <1>4. Busy \subseteq Workers /\ IsFiniteSet(Busy)
    BY LoopAssumption, FS_Subset DEF Busy
  <1>5. f.out = Cardinality(Busy)
    BY DEF LoopInv, PoolFits
  <1>6. Received(f, text) = [f EXCEPT !.heard = @ \cup {text}, !.out = @ - 1]
    BY <1>3 DEF Received
  <1> HIDE DEF f
  <1>7. ASSUME NEW g \in ListFrames, g.kind = "parallel" PROVE g \in Fitting(Main)
    BY <1>7 DEF Fitting, AllFrames, Fits
  <1>8. /\ [f EXCEPT !.at = @ + 1] \in ListFrames
        /\ [f EXCEPT !.at = @ + 1].kind = "parallel" /\ [f EXCEPT !.at = @ + 1].out = f.out
        /\ f.out \in Int
    BY <1>3 DEF ListFrames
  <1>9. /\ [f EXCEPT !.at = @ + 1, !.out = @ + 1] \in ListFrames
        /\ [f EXCEPT !.at = @ + 1, !.out = @ + 1].kind = "parallel"
        /\ [f EXCEPT !.at = @ + 1, !.out = @ + 1].out = f.out + 1
    <2>1. [f EXCEPT !.at = @ + 1, !.out = @ + 1] \in ListFrames
      <3>1. f.at + 1 \in Nat /\ f.out + 1 \in Int
        BY <1>3 DEF ListFrames
      <3>2. QED
        BY <1>3, <3>1 DEF ListFrames
    <2>2. /\ [f EXCEPT !.at = @ + 1, !.out = @ + 1].kind = "parallel"
          /\ [f EXCEPT !.at = @ + 1, !.out = @ + 1].out = f.out + 1
      BY <1>3 DEF ListFrames
    <2>3. QED
      BY <2>1, <2>2
  <1>10. /\ Received(f, text) \in ListFrames
         /\ Received(f, text).kind = "parallel" /\ Received(f, text).out = f.out - 1
    <2>1. Received(f, text) \in ListFrames
      <3>1. f.heard \cup {text} \in SUBSET Texts /\ f.out - 1 \in Int
        BY <1>3 DEF ListFrames
      <3>2. QED
        BY <1>3, <1>6, <3>1 DEF ListFrames
    <2>2. /\ Received(f, text).kind = "parallel" /\ Received(f, text).out = f.out - 1
      BY <1>3, <1>6 DEF ListFrames
    <2>3. QED
      BY <2>1, <2>2
  <1>11. QED
    BY <1>2, <1>4, <1>5, <1>7, <1>8, <1>9, <1>10 DEF f

LEMMA PassesFit ==
    ASSUME LoopInv, profiles' = profiles, Passes
    PROVE  (FramesFit /\ PoolFits /\ FlagFits)'
  <1> DEFINE r == Front(frames[Main])
             g == [Top(Main) EXCEPT !.at = @ + 1]
  <1>1. /\ r \in Seq(Waiting(Main)) /\ Top(Main).out = Cardinality(Busy)
        /\ g \in Fitting(Main) /\ g.kind = "parallel" /\ g.out = Top(Main).out
    BY PoolFrame DEF Passes, Texts
  <1>2. Main \in Threads /\ Workers \subseteq Threads /\ Main \notin Workers
    BY LoopAssumption DEF Threads
  <1>3. /\ frames'[Main] = Append(r, g) /\ frames' = [u \in Threads |-> frames'[u]]
        /\ \A u \in Threads \ {Main} : frames'[u] = frames[u]
    BY <1>2 DEF LoopInv, FramesFit, Passes
  <1> HIDE DEF r, g
  <1>4. /\ Append(r, g) \in Stacks(Main) /\ Append(r, g) # <<>> /\ Last(Append(r, g)) = g
    BY <1>1, Stacked
  <1>5. FramesFit'
    BY <1>3, <1>4, StacksStay DEF LoopInv, FramesFit
  <1>6. Busy' = Busy
    BY <1>2, <1>3 DEF Busy
  <1>7. ~Idle' /\ Top(Main)' = g
    BY <1>3, <1>4 DEF Idle, Top
  <1>8. PoolFits' /\ FlagFits'
    BY <1>1, <1>6, <1>7 DEF PoolFits, FlagFits
  <1>9. QED
    BY <1>5, <1>8

LEMMA FreesFit ==
    ASSUME LoopInv, profiles' = profiles, NEW w \in Workers, Frees(w)
    PROVE  (FramesFit /\ PoolFits /\ FlagFits)'
  <1>1. PICK text \in Texts :
          frames' = [frames EXCEPT ![w] = <<>>,
                                   ![Main] = Append(Front(@), Received(Last(@), text))]
    BY DEF Frees
  <1> DEFINE r == Front(frames[Main])
             g == Received(Top(Main), text)
  <1>2. w \in Busy
    BY DEF Busy, Frees
  <1>3. ~Idle /\ Top(Main).kind = "parallel"
    BY <1>2 DEF LoopInv, PoolFits
  <1>4. /\ r \in Seq(Waiting(Main)) /\ Top(Main).out = Cardinality(Busy)
        /\ IsFiniteSet(Busy)
        /\ g \in Fitting(Main) /\ g.kind = "parallel" /\ g.out = Top(Main).out - 1
    BY <1>3, PoolFrame
  <1>5. Main \in Threads /\ Workers \subseteq Threads /\ Main \notin Workers
    BY LoopAssumption DEF Threads
  <1>6. /\ frames'[Main] = Append(r, g) /\ frames' = [u \in Threads |-> frames'[u]]
        /\ frames'[w] = <<>>
        /\ \A u \in Threads \ {Main, w} : frames'[u] = frames[u]
    BY <1>1, <1>5 DEF LoopInv, FramesFit, Top
  <1> HIDE DEF r, g
  <1>7. /\ Append(r, g) \in Stacks(Main) /\ Append(r, g) # <<>> /\ Last(Append(r, g)) = g
    BY <1>4, Stacked
  <1>8. \A t : <<>> \in Stacks(t)
    BY DEF Stacks
  <1>9. FramesFit'
    <2>1. \A t \in Threads : Stacks(t)' = Stacks(t)
      BY StacksStay
    <2>2. frames'[w] \in Stacks(w) /\ frames'[Main] \in Stacks(Main)
      BY <1>6, <1>7, <1>8
    <2>3. \A t \in Threads \ {Main, w} : frames'[t] \in Stacks(t)
      BY <1>6 DEF LoopInv, FramesFit
    <2>4. QED
      BY <1>6, <2>1, <2>2, <2>3 DEF FramesFit
  <1>10. Busy' = Busy \ {w}
    BY <1>5, <1>6 DEF Busy
  <1>11. Cardinality(Busy') = Cardinality(Busy) - 1
    BY <1>2, <1>4, <1>10, FS_RemoveElement
  <1>12. ~Idle' /\ Top(Main)' = g
    BY <1>6, <1>7 DEF Idle, Top
  <1>13. PoolFits' /\ FlagFits'
    BY <1>4, <1>11, <1>12 DEF PoolFits, FlagFits
  <1>14. QED
    BY <1>9, <1>13

LEMMA TakesFit ==
    ASSUME LoopInv, profiles' = profiles, NEW w \in Workers, Takes(w)
    PROVE  (FramesFit /\ PoolFits /\ FlagFits)'
  <1> DEFINE r == Front(frames[Main])
             g == [Top(Main) EXCEPT !.at = @ + 1, !.out = @ + 1]
  <1>1. PICK run \in Stacks(w) :
          run # <<>> /\ frames' = [frames EXCEPT ![w] = run, ![Main] = Append(Front(@), g)]
    BY DEF Takes
  <1>2. w \notin Busy /\ ~Idle /\ Top(Main).kind = "parallel"
    BY DEF Busy, Takes
  <1>3. /\ r \in Seq(Waiting(Main)) /\ Top(Main).out = Cardinality(Busy)
        /\ IsFiniteSet(Busy)
        /\ g \in Fitting(Main) /\ g.kind = "parallel" /\ g.out = Top(Main).out + 1
    BY <1>2, PoolFrame DEF Texts
  <1>4. Main \in Threads /\ Workers \subseteq Threads /\ Main \notin Workers
    BY LoopAssumption DEF Threads
  <1> HIDE DEF g
  <1>5. /\ frames'[Main] = Append(r, g) /\ frames' = [u \in Threads |-> frames'[u]]
        /\ frames'[w] = run
        /\ \A u \in Threads \ {Main, w} : frames'[u] = frames[u]
    BY <1>1, <1>4 DEF LoopInv, FramesFit, Top
  <1> HIDE DEF r
  <1>6. /\ Append(r, g) \in Stacks(Main) /\ Append(r, g) # <<>> /\ Last(Append(r, g)) = g
    BY <1>3, Stacked
  <1>7. FramesFit'
    <2>1. \A t \in Threads : Stacks(t)' = Stacks(t)
      BY StacksStay
    <2>2. frames'[w] \in Stacks(w) /\ frames'[Main] \in Stacks(Main)
      BY <1>1, <1>5, <1>6
    <2>3. \A t \in Threads \ {Main, w} : frames'[t] \in Stacks(t)
      BY <1>5 DEF LoopInv, FramesFit
    <2>4. QED
      BY <1>5, <2>1, <2>2, <2>3 DEF FramesFit
  <1>8. Busy' = Busy \cup {w}
    BY <1>1, <1>4, <1>5 DEF Busy
  <1>9. Cardinality(Busy') = Cardinality(Busy) + 1
    BY <1>2, <1>3, <1>8, FS_AddElement
  <1>10. ~Idle' /\ Top(Main)' = g
    BY <1>5, <1>6 DEF Idle, Top
  <1>11. PoolFits' /\ FlagFits'
    BY <1>3, <1>9, <1>10 DEF PoolFits, FlagFits
  <1>12. QED
    BY <1>7, <1>11

\* Which frames are whose.
LEMMA Kinds ==
    ASSUME NEW f \in AllFrames
    PROVE  /\ f.kind = "run" => f \in RunFrames
           /\ f.kind = "legacy" => f \in LegacyFrames
           /\ f.kind \notin {"run", "legacy"} => f \in ListFrames
           /\ f.kind \in {"run", "legacy", "chain", "team", "parallel"}
  BY DEF AllFrames, RunFrames, LegacyFrames, ListFrames

LEMMA TopFits ==
    ASSUME LoopInv, NEW t \in Threads, frames[t] # <<>>
    PROVE  /\ Top(t) \in Fitting(t) /\ Top(t) \in AllFrames /\ Fits(Top(t))
           /\ Front(frames[t]) \in Seq(Waiting(t))
           /\ Front(frames[t]) \in Stacks(t)
  <1>1. frames[t] \in Stacks(t)
    BY DEF LoopInv, FramesFit
  <1>2. QED
    BY <1>1, TopAndRest DEF Top, Fitting

\* Neither a pool, nor waiting for a reply.
Plain(f) == f.kind # "parallel" /\ ~(f.kind = "run" /\ f.pc = "asked")

LEMMA ReceivedFits ==
    ASSUME NEW t, NEW w \in Waiting(t), NEW text \in Texts
    PROVE  Received(w, text) \in Fitting(t) /\ Plain(Received(w, text))
  <1>1. w \in AllFrames /\ Fits(w) /\ Waits(w)
        /\ (t = Main => (w.kind = "run" /\ w.by = "substitute" => w.tool = NoSuchTool))
    BY DEF Waiting, Fitting
  <1>2. CASE w.kind = "run"
    <2>1. w \in RunFrames /\ w.pc \in {"delegated", "legacy", "legacy only"} /\ w.by = "program"
      BY <1>1, <1>2, Kinds DEF Waits, Fits
    <2>2. PICK final \in Texts, pc \in {"finish", "return"} :
            Received(w, text) = [w EXCEPT !.final = final, !.pc = pc]
      BY <1>2, <2>1 DEF Received, Texts
    <2> DEFINE g == [w EXCEPT !.final = final, !.pc = pc]
    <2>3. g \in RunFrames
      BY <2>1 DEF RunFrames
    <2>4. /\ g.kind = "run" /\ g.pc = pc /\ g.by = "program" /\ g.tool = w.tool
          /\ g.turn = w.turn /\ g.acts = w.acts /\ g.agent = w.agent
      BY <2>1 DEF RunFrames
    <2> HIDE DEF g
    <2>5. Fits(g)
      BY <1>1, <1>2, <2>1, <2>4 DEF Fits
    <2>6. g \in Fitting(t) /\ Plain(g)
      BY <2>3, <2>4, <2>5 DEF Fitting, AllFrames, Plain
    <2>7. QED
      BY <2>2, <2>6 DEF g
  <1>3. CASE w.kind = "legacy"
    <2>1. w \in LegacyFrames /\ w.pc = "wait"
      BY <1>1, <1>3, Kinds DEF Waits
    <2> DEFINE g == [w EXCEPT !.final = text, !.pc = "judge"]
    <2>2. Received(w, text) = g
      BY <1>3 DEF Received
    <2>3. g \in LegacyFrames
      BY <2>1 DEF LegacyFrames
    <2>4. /\ g.kind = "legacy" /\ g.pc = "judge"
          /\ g.turn = w.turn /\ g.acts = w.acts /\ g.agent = w.agent
      BY <2>1 DEF LegacyFrames
    <2> HIDE DEF g
    <2>5. Fits(g)
      BY <1>1, <1>3, <2>1, <2>4 DEF Fits
    <2>6. QED
      BY <2>2, <2>3, <2>4, <2>5 DEF Fitting, AllFrames, Plain
  <1>4. CASE w.kind \in {"chain", "team"}
    <2>1. w \in ListFrames
      BY <1>1, <1>4, Kinds
    <2>2. CASE w.kind = "chain"
      <3>1. Received(w, text) = [w EXCEPT !.last = text, !.at = @ + 1]
        BY <2>2 DEF Received
      <3>2. w.at + 1 \in Nat
        BY <2>1 DEF ListFrames
      <3>3. Received(w, text) \in ListFrames /\ Received(w, text).kind = "chain"
        BY <2>1, <2>2, <3>1, <3>2 DEF ListFrames
      <3>4. QED
        BY <3>3 DEF Fitting, AllFrames, Plain, Fits
    <2>3. CASE w.kind = "team"
      <3>1. Received(w, text) =
              [w EXCEPT !.heard = @ \cup {text}, !.at = @ + 1, !.done = text = "team done"]
        BY <2>3 DEF Received
      <3>2. w.heard \cup {text} \in SUBSET Texts /\ w.at + 1 \in Nat
        BY <2>1 DEF ListFrames
      <3>3. Received(w, text) \in ListFrames /\ Received(w, text).kind = "team"
        BY <2>1, <2>3, <3>1, <3>2 DEF ListFrames
      <3>4. QED
        BY <3>3 DEF Fitting, AllFrames, Plain, Fits
    <2>4. QED
      BY <1>4, <2>2, <2>3
  <1>5. QED
    BY <1>1, <1>2, <1>3, <1>4 DEF Waits

LEMMA Replaced ==
    ASSUME LoopInv, NEW t \in Threads, frames[t] # <<>>, Top(t).kind = "parallel" => Top(t).out = 0,
           NEW f \in Fitting(t), Continue(t, f), f.kind # "parallel",
           f.kind = "run" /\ f.pc = "asked" => flag' = f.substitute
    PROVE  Moves(t)
  BY TopFits DEF Moves, Continue

LEMMA ConcatTwo ==
    ASSUME NEW S, NEW r \in Seq(S), NEW w \in S, NEW g \in S
    PROVE  /\ r \o <<w, g>> = Append(Append(r, w), g)
           /\ r \o <<w>> = Append(r, w)
           /\ Append(<<>>, w) = <<w>>
           /\ Append(r, w) \in Seq(S)
  <1>1. /\ <<w>> \in Seq(S) /\ Len(<<w>>) = 1 /\ <<w>>[1] = w
        /\ <<w, g>> \in Seq(S) /\ Len(<<w, g>>) = 2 /\ <<w, g>>[1] = w /\ <<w, g>>[2] = g
        /\ Len(r) \in Nat
    BY LenProperties
  <1>2. /\ Append(r, w) \in Seq(S) /\ Len(Append(r, w)) = Len(r) + 1
        /\ \A i \in 1..Len(r) : Append(r, w)[i] = r[i]
        /\ Append(r, w)[Len(r) + 1] = w
    BY AppendProperties
  <1>3. /\ Append(Append(r, w), g) \in Seq(S) /\ Len(Append(Append(r, w), g)) = Len(r) + 2
        /\ \A i \in 1..Len(r) : Append(Append(r, w), g)[i] = r[i]
        /\ Append(Append(r, w), g)[Len(r) + 1] = w
        /\ Append(Append(r, w), g)[Len(r) + 2] = g
    BY <1>1, <1>2, AppendProperties
  <1>4. r \o <<w>> = Append(r, w)
    BY <1>1, <1>2, ConcatProperties, SeqEqual
  <1>5. r \o <<w, g>> = Append(Append(r, w), g)
    BY <1>1, <1>3, ConcatProperties, SeqEqual
  <1>6. Append(<<>>, w) = <<w>>
    <2>1. /\ Append(<<>>, w) \in Seq(S) /\ Len(Append(<<>>, w)) = 1 /\ Append(<<>>, w)[1] = w
      BY AppendProperties, EmptySeq
    <2>2. QED
      BY <1>1, <2>1, SeqEqual
  <1>7. QED
    BY <1>2, <1>4, <1>5, <1>6

LEMMA Called ==
    ASSUME LoopInv, NEW t \in Threads, frames[t] # <<>>, Top(t).kind = "parallel" => Top(t).out = 0,
           NEW w \in Waiting(t), NEW g \in Fitting(t), Calls(t, w, g),
           g.kind = "parallel" => g.out = 0, ~(g.kind = "run" /\ g.pc = "asked")
    PROVE  Moves(t)
  <1> DEFINE r == Front(frames[t])
  <1>1. r \in Seq(Waiting(t)) /\ r \in Seq(Fitting(t)) /\ w \in Fitting(t)
    BY TopFits, SeqMonotonic DEF Waiting
  <1>2. r \o <<w, g>> = Append(Append(r, w), g)
    BY <1>1, ConcatTwo
  <1>3. Append(r, w) \in Seq(Waiting(t))
    BY <1>1, ConcatTwo
  <1>4. frames' = [frames EXCEPT ![t] = Append(Append(r, w), g)]
    BY <1>2 DEF Calls
  <1>5. QED
    BY <1>3, <1>4 DEF Moves

\* What an activation of the loop begins with.
LEMMA FirstFrames ==
    ASSUME LoopInv, NEW t \in Threads, NEW a \in DOMAIN profiles, NEW stream \in BOOLEAN,
           NEW hard \in BOOLEAN, NEW first \in Tools \cup {NoTool}
    PROVE  /\ RunFrame(a, stream, hard, first) \in Fitting(t)
           /\ Plain(RunFrame(a, stream, hard, first))
           /\ [RunFrame(a, stream, hard, first) EXCEPT !.pc = "legacy only"] \in Waiting(t)
           /\ \A m \in messages : LegacyFrame(a, m) \in Fitting(t) /\ Plain(LegacyFrame(a, m))
  <1>1. profiles[a].turns \in Nat
    BY DEF LoopInv, ProfilesFit, Profile
  <1>2. <<>> \in RunActs /\ <<>> \in LegacyActs /\ Len(<<>>) = 0 /\ Unrepeated(<<>>)
    BY EmptySeq DEF RunActs, LegacyActs, Unrepeated
  <1>3. ASSUME NEW g \in RunFrames, g.agent = a, g.turn = 0, g.acts = <<>>, g.by = "program"
        PROVE  g \in Fitting(t)
    <2>1. g.kind = "run"
      BY <1>3 DEF RunFrames
    <2>2. Fits(g)
      BY <1>1, <1>2, <1>3, <2>1 DEF Fits
    <2>3. QED
      BY <1>3, <2>1, <2>2 DEF Fitting, AllFrames
  <1> DEFINE run == RunFrame(a, stream, hard, first)
             only == [run EXCEPT !.pc = "legacy only"]
  <1>4. /\ run \in RunFrames /\ run.agent = a /\ run.turn = 0 /\ run.acts = <<>>
        /\ run.by = "program" /\ run.kind = "run" /\ run.pc \in {"ask", "tool"}
    BY <1>2 DEF RunFrame, RunFrames, ToolNames, Texts
  <1> HIDE DEF run
  <1>5. /\ only \in RunFrames /\ only.agent = a /\ only.turn = 0 /\ only.acts = <<>>
        /\ only.by = "program" /\ only.kind = "run" /\ only.pc = "legacy only"
    BY <1>4 DEF RunFrames
  <1>6. run \in Fitting(t) /\ Plain(run)
    BY <1>3, <1>4 DEF Plain
  <1>7. only \in Waiting(t)
    BY <1>3, <1>5 DEF Waiting, Waits
  <1>8. ASSUME NEW m \in messages
        PROVE  LegacyFrame(a, m) \in Fitting(t) /\ Plain(LegacyFrame(a, m))
    <2> DEFINE g == LegacyFrame(a, m)
    <2>1. m \in Messages
      BY DEF LoopInv
    <2>2. /\ g.kind = "legacy" /\ g.pc = "decide" /\ g.agent = a
          /\ g.turn = 0 /\ g.acts = <<>>
      BY DEF LegacyFrame
    <2>3. "none yet" \in Actions /\ NoTool \in Meanings /\ NoTool \in ToolsTold
      BY DEF Actions, Meanings, ToolsTold
    <2>4. g \in LegacyFrames
      BY <1>2, <2>1, <2>3 DEF LegacyFrame, LegacyFrames, Texts
    <2> HIDE DEF g
    <2>5. Fits(g)
      BY <1>1, <1>2, <2>2 DEF Fits
    <2>6. QED
      BY <2>2, <2>4, <2>5 DEF Fitting, AllFrames, Plain, g
  <1>9. QED
    BY <1>6, <1>7, <1>8 DEF run

Pushed(t, stack) ==
    \E q \in Seq(Waiting(t)), g \in Fitting(t) : stack = Append(q, g) /\ Plain(g)

LEMMA Activated ==
    ASSUME LoopInv, NEW t \in Threads, NEW a \in DOMAIN profiles, NEW stream \in BOOLEAN,
           NEW hard \in BOOLEAN, NEW first \in Tools \cup {NoTool},
           NEW run \in Activations(a, stream, hard, first),
           NEW r \in Seq(Waiting(t))
    PROVE  Pushed(t, r \o run) /\ Pushed(t, run)
  <1> DEFINE f == RunFrame(a, stream, hard, first)
             only == [f EXCEPT !.pc = "legacy only"]
  <1>1. /\ f \in Fitting(t) /\ Plain(f) /\ only \in Waiting(t) /\ only \in Fitting(t)
        /\ \A m \in messages : LegacyFrame(a, m) \in Fitting(t) /\ Plain(LegacyFrame(a, m))
    BY FirstFrames DEF Waiting
  <1>2. run = <<f>> \/ \E m \in messages : run = <<only, LegacyFrame(a, m)>>
    BY DEF Activations
  <1> HIDE DEF f, only
  <1>3. r \in Seq(Fitting(t)) /\ <<>> \in Seq(Fitting(t)) /\ <<>> \in Seq(Waiting(t))
    BY SeqMonotonic, EmptySeq DEF Waiting
  <1>4. CASE run = <<f>>
    <2>1. r \o <<f>> = Append(r, f) /\ <<f>> = Append(<<>>, f)
      BY <1>1, <1>3, ConcatTwo
    <2>2. QED
      BY <1>1, <1>3, <1>4, <2>1 DEF Pushed
  <1>5. ASSUME NEW m \in messages, run = <<only, LegacyFrame(a, m)>>
        PROVE  Pushed(t, r \o run) /\ Pushed(t, run)
    <2> DEFINE g == LegacyFrame(a, m)
    <2>1. g \in Fitting(t) /\ Plain(g)
      BY <1>1
    <2> HIDE DEF g
    <2>2. r \o <<only, g>> = Append(Append(r, only), g)
      BY <1>1, <1>3, <2>1, ConcatTwo
    <2>3. <<>> \o <<only, g>> = Append(Append(<<>>, only), g)
      BY <1>1, <1>3, <2>1, ConcatTwo
    <2>4. Append(r, only) \in Seq(Waiting(t)) /\ Append(<<>>, only) \in Seq(Waiting(t))
      BY <1>1, <1>3, ConcatTwo
    <2>5. <<only, g>> \in Seq(Fitting(t)) /\ <<>> \o <<only, g>> = <<only, g>>
      BY <1>1, <2>1, ConcatEmptySeq
    <2>6. QED
      BY <1>5, <2>1, <2>2, <2>3, <2>4, <2>5 DEF g, Pushed
  <1>6. QED
    BY <1>2, <1>4, <1>5

LEMMA Ran ==
    ASSUME LoopInv, NEW t \in Threads, frames[t] # <<>>, Top(t).kind = "parallel" => Top(t).out = 0,
           NEW w \in Waiting(t), NEW a \in DOMAIN profiles, StartsRun(t, w, a)
    PROVE  Moves(t)
  <1> PICK hard \in BOOLEAN : \E run \in Activations(a, FALSE, hard, NoTool) :
          frames' = [frames EXCEPT ![t] = Front(@) \o <<w>> \o run]
    BY DEF StartsRun
  <1>1. PICK run \in Activations(a, FALSE, hard, NoTool) :
          frames' = [frames EXCEPT ![t] = Front(@) \o <<w>> \o run]
    OBVIOUS
  <1> DEFINE r == Front(frames[t]) \o <<w>>
  <1>2. r \in Seq(Waiting(t))
    BY TopFits, ConcatTwo
  <1>3. frames' = [frames EXCEPT ![t] = r \o run]
    BY <1>1
  <1> HIDE DEF r
  <1>4. Pushed(t, r \o run)
    <2>1. NoTool \in Tools \cup {NoTool} /\ FALSE \in BOOLEAN
      OBVIOUS
    <2>2. QED
      BY <1>2, <2>1, Activated
  <1>5. QED
    BY <1>3, <1>4 DEF Moves, Plain, Pushed

LEMMA Handed ==
    ASSUME LoopInv, NEW t \in Threads, frames[t] # <<>>, Top(t).kind = "parallel" => Top(t).out = 0,
           NEW w \in Waiting(t), NEW target, Delegates(t, w, target)
    PROVE  Moves(t)
  <1>1. CASE target \in DOMAIN profiles
    BY <1>1, Ran DEF Delegates
  <1>2. CASE target \notin DOMAIN profiles
    <2>1. Received(w, "failure") \in Fitting(t) /\ Plain(Received(w, "failure"))
      BY ReceivedFits DEF Texts
    <2>2. Continue(t, Received(w, "failure"))
      BY <1>2 DEF Delegates
    <2>3. QED
      BY <2>1, <2>2, Replaced DEF Plain
  <1>3. QED
    BY <1>1, <1>2

\* A frame has returned.
Returns(t) ==
    \/ Moves(t)
    \/ t = Main /\ Empties
    \/ t \in Workers /\ Frees(t)

LEMMA Left ==
    ASSUME LoopInv, NEW t \in Threads, frames[t] # <<>>,
           Top(t).kind = "parallel" => Top(t).out = 0,
           NEW text \in Texts, NEW state, Leave(t, text, state)
    PROVE  Returns(t)
  <1> DEFINE rest == Front(frames[t])
  <1>1. rest \in Seq(Waiting(t)) /\ rest \in Stacks(t)
    BY TopFits
  <1>2. CASE rest # <<>>
    <2>1. /\ Front(rest) \in Seq(Waiting(t)) /\ Last(rest) \in Waiting(t)
      BY <1>1, <1>2, SplitEnds
    <2> DEFINE g == Received(Last(rest), text)
    <2>2. g \in Fitting(t) /\ Plain(g)
      BY <2>1, ReceivedFits
    <2>3. frames' = [frames EXCEPT ![t] = Append(Front(rest), g)]
      BY <1>2 DEF Leave
    <2> HIDE DEF rest, g
    <2>4. Moves(t)
      BY <2>1, <2>2, <2>3 DEF Moves, Plain
    <2>5. QED
      BY <2>4 DEF Returns
  <1>3. CASE rest = <<>> /\ t = Main
    BY <1>3 DEF Leave, Returns, Empties, Idle
  <1>4. CASE rest = <<>> /\ t # Main
    BY <1>4 DEF Leave, Returns, Frees, Threads
  <1>5. QED
    BY <1>2, <1>3, <1>4

(* The steps of a loop. *)

LEMMA Unrepeating ==
    ASSUME NEW S, NEW acts \in Seq(S), NEW x \in S, Unrepeated(acts),
           Len(acts) > 0 => ~RepeatedFailure(Append(acts, x))
    PROVE  Unrepeated(Append(acts, x))
  <1> DEFINE new == Append(acts, x)
  <1>1. /\ Len(acts) \in Nat /\ Len(new) = Len(acts) + 1
        /\ \A i \in 1..Len(acts) : new[i] = acts[i]
    BY AppendProperties, LenProperties
  <1> HIDE DEF new
  <1>2. SUFFICES ASSUME NEW n \in 2..Len(new), new[n].failed, new[n] = new[n - 1]
                 PROVE  FALSE
    BY DEF Unrepeated, new
  <1>3. CASE n = Len(new)
    BY <1>1, <1>2, <1>3 DEF RepeatedFailure, new
  <1>4. CASE n # Len(new)
    <2>1. n \in 2..Len(acts) /\ new[n] = acts[n] /\ new[n - 1] = acts[n - 1]
      BY <1>1, <1>4
    <2>2. QED
      BY <1>2, <2>1 DEF Unrepeated
  <1>5. QED
    BY <1>3, <1>4

\* The top frame of a thread that is in a run.
LEMMA RunFits ==
    ASSUME LoopInv, NEW t \in Threads, frames[t] # <<>>, Top(t).kind = "run"
    PROVE  LET f == Top(t)
           IN  /\ f \in RunFrames /\ f.agent \in DOMAIN profiles /\ f.turn \in Nat
               /\ profiles[f.agent].turns \in Nat /\ f.turn <= profiles[f.agent].turns
               /\ f.final \in Texts
               /\ f.acts \in RunActs /\ Len(f.acts) \in Nat /\ Unrepeated(f.acts)
               /\ Len(f.acts) <= f.turn + IF f.pc \in {"asked", "tool"} THEN 0 ELSE 1
               /\ f.by # "program" => f.pc \in {"finish", "synthesize"}
               /\ t = Main => (f.by = "substitute" => f.tool = NoSuchTool)
  <1> DEFINE f == Top(t)
  <1>1. f \in Fitting(t) /\ Fits(f) /\ f \in RunFrames
    BY TopFits, Kinds
  <1> HIDE DEF f
  <1>2. f.agent \in DOMAIN profiles /\ f.turn \in Nat /\ f.final \in Texts /\ f.acts \in RunActs
        /\ f.kind = "run"
    BY <1>1 DEF RunFrames
  <1>3. profiles[f.agent].turns \in Nat
    BY <1>2 DEF LoopInv, ProfilesFit, Profile
  <1>4. Len(f.acts) \in Nat
    BY <1>2, LenProperties DEF RunActs
  <1>5. QED
    BY <1>1, <1>2, <1>3, <1>4 DEF Fitting, Fits, f

\* A run that goes on, one that waits, and one whose reply is its answer.
LEMMA RunGoesOn ==
    ASSUME NEW t, NEW g \in RunFrames,
           g.turn <= profiles[g.agent].turns, Unrepeated(g.acts),
           Len(g.acts) <= g.turn + IF g.pc \in {"asked", "tool"} THEN 0 ELSE 1,
           g.by # "program" => g.pc \in {"finish", "synthesize"},
           t = Main => (g.by = "substitute" => g.tool = NoSuchTool)
    PROVE  /\ g \in Fitting(t) /\ g.kind = "run"
           /\ g.pc \in {"delegated", "legacy", "legacy only"} => g \in Waiting(t)
  <1>1. g.kind = "run"
    BY DEF RunFrames
  <1>2. Fits(g)
    BY <1>1 DEF Fits
  <1>3. QED
    BY <1>1, <1>2 DEF Fitting, AllFrames, Waiting, Waits

LEMMA AskMoves ==
    ASSUME LoopInv, NEW t \in Threads, frames[t] # <<>>, Ask(t) PROVE Moves(t)
  <1> DEFINE f == Top(t)
             g == [f EXCEPT !.turn = @ + 1, !.iterations = @ + 1]
  <1>1. f.kind = "run" /\ f.pc = "ask" /\ f.turn < profiles[f.agent].turns
    BY DEF Ask
  <1>2. /\ f \in RunFrames /\ f.turn \in Nat /\ profiles[f.agent].turns \in Nat
        /\ Unrepeated(f.acts) /\ Len(f.acts) \in Nat /\ Len(f.acts) <= f.turn + 1
        /\ f.by = "program"
    BY <1>1, RunFits
  <1> DEFINE h == [g EXCEPT !.pc = "stream"]
             k == [g EXCEPT !.pc = "asked", !.substitute = Substituted(g)]
  <1>3. \/ Continue(t, h)
        \/ Continue(t, k) /\ flag' = Substituted(g)
    BY DEF Ask, Marked
  <1> HIDE DEF f
  <1>4. f.turn + 1 \in Nat /\ f.iterations + 1 \in Nat /\ Substituted(g) \in BOOLEAN
    <2>1. Substituted(g) \in BOOLEAN
      BY DEF Substituted
    <2>2. f.iterations \in Nat
      BY <1>2 DEF RunFrames
    <2>3. QED
      BY <1>2, <2>1, <2>2
  <1>5. g \in RunFrames /\ g.turn = f.turn + 1 /\ g.acts = f.acts /\ g.agent = f.agent /\ g.by = f.by
    BY <1>2, <1>4 DEF RunFrames
  <1> HIDE DEF g
  <1>6. /\ h \in RunFrames /\ h.turn = f.turn + 1 /\ h.acts = f.acts /\ h.agent = f.agent
        /\ h.by = f.by /\ h.pc = "stream"
    BY <1>5 DEF RunFrames
  <1>7. /\ k \in RunFrames /\ k.turn = f.turn + 1 /\ k.acts = f.acts /\ k.agent = f.agent
        /\ k.by = f.by /\ k.pc = "asked" /\ k.substitute = Substituted(g)
    BY <1>4, <1>5 DEF RunFrames
  <1> HIDE DEF h, k
  <1>8. f.turn + 1 <= profiles[f.agent].turns /\ Len(f.acts) <= f.turn + 1
    BY <1>1, <1>2
  <1>9. h \in Fitting(t) /\ h.kind = "run"
    <2>1. Len(h.acts) <= h.turn + IF h.pc \in {"asked", "tool"} THEN 0 ELSE 1
      BY <1>2, <1>6, <1>8
    <2>2. QED
      BY <1>2, <1>6, <1>8, <2>1, RunGoesOn
  <1>10. k \in Fitting(t) /\ k.kind = "run"
    <2>1. Len(k.acts) <= k.turn + IF k.pc \in {"asked", "tool"} THEN 0 ELSE 1
      BY <1>2, <1>7, <1>8
    <2>2. QED
      BY <1>2, <1>7, <1>8, <2>1, RunGoesOn
  <1>11. CASE Continue(t, h)
    BY <1>1, <1>6, <1>9, <1>11, Replaced DEF f
  <1>12. CASE Continue(t, k) /\ flag' = Substituted(g)
    BY <1>1, <1>7, <1>10, <1>12, Replaced DEF f
  <1>13. QED
    BY <1>3, <1>11, <1>12

\* A run at the head of the loop whose pc changes, and nothing else.
LEMMA RunTurnsTo ==
    ASSUME LoopInv, NEW t \in Threads, frames[t] # <<>>, Top(t).kind = "run",
           Top(t).pc \in {"asked", "ask", "finish"},
           NEW pc \in {"synthesize", "stream", "legacy", "delegated"},
           pc # "synthesize" => Top(t).by = "program"
    PROVE  LET g == [Top(t) EXCEPT !.pc = pc]
           IN  /\ g \in Fitting(t) /\ g.kind = "run" /\ g.pc = pc
               /\ pc \in {"legacy", "delegated"} => g \in Waiting(t)
  <1> DEFINE f == Top(t)
             g == [f EXCEPT !.pc = pc]
  <1>1. /\ f \in RunFrames /\ f.turn \in Nat /\ f.turn <= profiles[f.agent].turns
        /\ Unrepeated(f.acts) /\ Len(f.acts) \in Nat /\ Len(f.acts) <= f.turn + 1
        /\ f.by # "program" => f.pc \in {"finish", "synthesize"}
        /\ t = Main => (f.by = "substitute" => f.tool = NoSuchTool)
    BY RunFits
  <1> HIDE DEF f
  <1>2. /\ g \in RunFrames /\ g.turn = f.turn /\ g.acts = f.acts /\ g.agent = f.agent
        /\ g.by = f.by /\ g.pc = pc /\ g.tool = f.tool
    BY <1>1 DEF RunFrames
  <1> HIDE DEF g
  <1>3. pc = "synthesize" \/ g.by = "program"
    BY <1>2 DEF f
  <1>4. g \in Fitting(t) /\ g.kind = "run"
        /\ (pc \in {"legacy", "delegated"} => g \in Waiting(t))
    BY <1>1, <1>2, <1>3, RunGoesOn
  <1>5. QED
    BY <1>2, <1>4 DEF f, g

LEMMA Synthesizes ==
    ASSUME LoopInv, NEW t \in Threads, frames[t] # <<>>, Top(t).kind = "run",
           Top(t).pc = "asked",
           Continue(t, [Top(t) EXCEPT !.pc = Summary(Top(t))])
    PROVE  Moves(t)
  <1>1. Summary(Top(t)) \in {"synthesize", "stream"} /\ Top(t).by = "program"
    BY RunFits DEF Summary
  <1> DEFINE g == [Top(t) EXCEPT !.pc = Summary(Top(t))]
  <1>2. g \in Fitting(t) /\ g.kind = "run" /\ g.pc = Summary(Top(t))
    BY <1>1, RunTurnsTo
  <1>3. QED
    BY <1>1, <1>2, Replaced

LEMMA NoReplyMoves ==
    ASSUME LoopInv, NEW t \in Threads, frames[t] # <<>>, NoReply(t) PROVE Returns(t)
  <1>1. Top(t).kind = "run" /\ Top(t).pc = "asked"
    BY DEF NoReply
  <1>2. CASE Top(t).acts # <<>>
    BY <1>1, <1>2, Synthesizes DEF NoReply, Returns
  <1>3. CASE Top(t).acts = <<>>
    BY <1>1, <1>3, Left DEF NoReply, Texts
  <1>4. QED
    BY <1>2, <1>3

LEMMA Worded == ASSUME NEW reply \in Replies PROVE Words(reply) \in Texts
  <1>1. PICK text : text = reply.text
    OBVIOUS
  <1>2. text \in {<<"none">>, <<"says", "text">>, <<"says", "failure">>,
                  <<"says", "team done">>, <<"answers">>}
             \cup {<<"delegates to", who>> : who \in Agents \cup {Nobody}}
             \cup {<<"tool", name>> : name \in Tools \cup {NoSuchTool}}
    BY <1>1 DEF Replies
  <1>3. ASSUME NEW who, text = <<"delegates to", who>> PROVE text[1] = "delegates to"
    BY <1>3
  <1>4. ASSUME NEW name, text = <<"tool", name>> PROVE text[1] # "says"
    BY <1>4
  <1>5. ASSUME text \in {<<"none">>, <<"answers">>} PROVE text[1] # "says"
    BY <1>5
  <1>6. ASSUME NEW word, text = <<"says", word>> PROVE text[2] = word
    BY <1>6
  <1>7. text[1] = "says" => text[2] \in {"text", "failure", "team done"}
    BY <1>2, <1>3, <1>4, <1>5, <1>6
  <1>8. QED
    BY <1>1, <1>7 DEF Words, Texts

LEMMA ReplyMoves ==
    ASSUME LoopInv, NEW t \in Threads, frames[t] # <<>>, Reply(t) PROVE Moves(t)
  <1> DEFINE f == Top(t)
  <1>1. f.kind = "run" /\ f.pc = "asked"
    BY DEF Reply
  <1>2. /\ f \in RunFrames /\ f.turn <= profiles[f.agent].turns /\ Unrepeated(f.acts)
        /\ f.agent \in DOMAIN profiles
        /\ f.turn \in Nat /\ Len(f.acts) \in Nat /\ Len(f.acts) <= f.turn /\ f.by = "program"
        /\ t = Main => (f.by = "substitute" => f.tool = NoSuchTool)
    BY <1>1, RunFits
  <1>3. t = Main => flag = f.substitute
    BY <1>1 DEF LoopInv, FlagFits, Idle
  <1> PICK reply \in Replies :
         LET plain == reply.call = NoTool
             nothing == plain /\ reply.text = <<"none">>
             tool == IF plain THEN Parsed(f, reply) ELSE reply.call
         IN  \/ Continue(t, [f EXCEPT !.pc = Summary(f)])
             \/ \E m \in messages : Calls(t, [f EXCEPT !.pc = "legacy"], LegacyFrame(f.agent, m))
             \/ Delegates(t, [f EXCEPT !.pc = "delegated"], reply.text[2])
             \/ tool \in Tools /\ Continue(t, [f EXCEPT !.pc = "tool", !.tool = tool])
             \/ /\ ~(flag /\ plain)
                /\ Continue(t, [f EXCEPT !.pc = "finish", !.final = Words(reply),
                                 !.by = IF f.substitute THEN "substitute" ELSE "preferred",
                                 !.tool = IF plain THEN NoTool ELSE NoSuchTool])
    BY DEF Reply
  <1> DEFINE plain == reply.call = NoTool
             tool == IF plain THEN Parsed(f, reply) ELSE reply.call
  <1>4. CASE Continue(t, [f EXCEPT !.pc = Summary(f)])
    BY <1>1, <1>4, Synthesizes
  <1>5. CASE \E m \in messages : Calls(t, [f EXCEPT !.pc = "legacy"], LegacyFrame(f.agent, m))
    <2> DEFINE g == [f EXCEPT !.pc = "legacy"]
    <2>1. PICK m \in messages : Calls(t, g, LegacyFrame(f.agent, m))
      BY <1>5
    <2>2. g \in Waiting(t)
      BY <1>1, <1>2, RunTurnsTo
    <2>3. LegacyFrame(f.agent, m) \in Fitting(t) /\ Plain(LegacyFrame(f.agent, m))
      BY <1>2, FirstFrames
    <2> HIDE DEF g
    <2>4. QED
      BY <1>1, <2>1, <2>2, <2>3, Called DEF Plain
  <1>6. CASE Delegates(t, [f EXCEPT !.pc = "delegated"], reply.text[2])
    <2>1. [f EXCEPT !.pc = "delegated"] \in Waiting(t)
      BY <1>1, <1>2, RunTurnsTo
    <2>2. QED
      BY <1>1, <1>6, <2>1, Handed
  <1>7. CASE tool \in Tools /\ Continue(t, [f EXCEPT !.pc = "tool", !.tool = tool])
    <2> DEFINE g == [f EXCEPT !.pc = "tool", !.tool = tool]
    <2>1. tool \in ToolNames /\ Continue(t, g)
      BY <1>7 DEF ToolNames
    <2> HIDE DEF f, tool
    <2>2. /\ g \in RunFrames /\ g.turn = f.turn /\ g.acts = f.acts /\ g.agent = f.agent
          /\ g.by = f.by /\ g.pc = "tool"
      BY <1>2, <2>1 DEF RunFrames
    <2> HIDE DEF g
    <2>3. Len(g.acts) <= g.turn + IF g.pc \in {"asked", "tool"} THEN 0 ELSE 1
      BY <1>2, <2>2
    <2>4. g \in Fitting(t) /\ g.kind = "run"
      BY <1>2, <2>2, <2>3, RunGoesOn
    <2>5. QED
      BY <1>1, <2>1, <2>2, <2>4, Replaced DEF f
  <1>8. CASE /\ ~(flag /\ plain)
             /\ Continue(t, [f EXCEPT !.pc = "finish", !.final = Words(reply),
                                 !.by = IF f.substitute THEN "substitute" ELSE "preferred",
                                 !.tool = IF plain THEN NoTool ELSE NoSuchTool])
    <2> DEFINE by == IF f.substitute THEN "substitute" ELSE "preferred"
               new == IF plain THEN NoTool ELSE NoSuchTool
               g == [f EXCEPT !.pc = "finish", !.final = Words(reply), !.by = by, !.tool = new]
    <2>1. Continue(t, g)
      BY <1>8
    <2>2. Words(reply) \in Texts
      BY Worded
    <2>3. new \in ToolNames /\ by \in {"substitute", "preferred"}
      BY DEF ToolNames
    <2>4. t = Main => (by = "substitute" => new = NoSuchTool)
      BY <1>3, <1>8
    <2> HIDE DEF f, by, new
    <2>5. g \in RunFrames
      BY <1>2, <2>2, <2>3 DEF RunFrames
    <2>6. /\ g.turn = f.turn /\ g.acts = f.acts /\ g.agent = f.agent
          /\ g.by = by /\ g.pc = "finish" /\ g.tool = new
      BY <1>2 DEF RunFrames
    <2> HIDE DEF g
    <2>7. Len(g.acts) <= g.turn + IF g.pc \in {"asked", "tool"} THEN 0 ELSE 1
      BY <1>2, <2>6
    <2>8. g \in Fitting(t) /\ g.kind = "run"
      BY <1>2, <2>4, <2>5, <2>6, <2>7, RunGoesOn
    <2>9. QED
      BY <1>1, <2>1, <2>6, <2>8, Replaced DEF f
  <1>9. QED
    BY <1>4, <1>5, <1>6, <1>7, <1>8

LEMMA RunToolMoves ==
    ASSUME LoopInv, NEW t \in Threads, frames[t] # <<>>, RunTool(t) PROVE Returns(t)
  <1> DEFINE f == Top(t)
  <1>1. f.kind = "run" /\ f.pc = "tool"
    BY DEF RunTool
  <1>2. /\ f \in RunFrames /\ f.turn <= profiles[f.agent].turns /\ Unrepeated(f.acts)
        /\ f.acts \in RunActs
        /\ f.turn \in Nat /\ Len(f.acts) \in Nat /\ Len(f.acts) <= f.turn /\ f.by = "program"
    BY <1>1, RunFits
  <1> PICK reads \in BOOLEAN :
         LET g == [f EXCEPT !.acts = Append(@, [tool |-> f.tool, failed |-> reads]),
                            !.iterations = @ + 1, !.tool = NoTool]
         IN  \/ \E text \in Texts : Leave(t, text, status)
             \/ /\ ~(f.turn > 0 /\ RepeatedFailure(g.acts))
                /\ \E pc \in {"web", "ask"} : Continue(t, [g EXCEPT !.pc = pc])
    BY DEF RunTool, Texts, Told
  <1> DEFINE act == [tool |-> f.tool, failed |-> reads]
             g == [f EXCEPT !.acts = Append(@, act), !.iterations = @ + 1, !.tool = NoTool]
  <1>3. CASE \E text \in Texts : Leave(t, text, status)
    BY <1>1, <1>3, Left
  <1>4. ASSUME NEW pc \in {"web", "ask"}, ~(f.turn > 0 /\ RepeatedFailure(g.acts)),
               Continue(t, [g EXCEPT !.pc = pc])
        PROVE  Moves(t)
    <2> DEFINE h == [g EXCEPT !.pc = pc]
    <2>1. Continue(t, h)
      BY <1>4
    <2>2. f.tool \in ToolNames /\ f.iterations \in Nat
      BY <1>2 DEF RunFrames
    <2> HIDE DEF f
    <2>3. act \in [tool : ToolNames, failed : BOOLEAN]
      BY <2>2
    <2> HIDE DEF act
    <2>4. /\ Append(f.acts, act) \in RunActs /\ Len(Append(f.acts, act)) = Len(f.acts) + 1
      BY <1>2, <2>3, AppendProperties DEF RunActs
    <2>5. NoTool \in ToolNames /\ f.iterations + 1 \in Nat
      BY <2>2 DEF ToolNames
    <2>6. g \in RunFrames
      BY <1>2, <2>4, <2>5 DEF RunFrames
    <2>7. g.turn = f.turn /\ g.acts = Append(f.acts, act) /\ g.agent = f.agent /\ g.by = f.by
      BY <1>2 DEF RunFrames
    <2> HIDE DEF g
    <2>8. /\ h \in RunFrames /\ h.turn = f.turn /\ h.acts = Append(f.acts, act)
          /\ h.agent = f.agent /\ h.by = f.by /\ h.pc = pc
      BY <2>6, <2>7 DEF RunFrames
    <2> HIDE DEF h
    <2>9. Len(f.acts) > 0 => ~RepeatedFailure(Append(f.acts, act))
      BY <1>2, <1>4, <2>7
    <2>10. Unrepeated(Append(f.acts, act))
      BY <1>2, <2>3, <2>9, Unrepeating DEF RunActs
    <2>11. Len(h.acts) <= h.turn + IF h.pc \in {"asked", "tool"} THEN 0 ELSE 1
      BY <1>2, <2>4, <2>8
    <2>12. h \in Fitting(t) /\ h.kind = "run"
      BY <1>2, <2>8, <2>10, <2>11, RunGoesOn
    <2>13. QED
      BY <1>1, <2>1, <2>8, <2>12, Replaced DEF f
  <1>5. QED
    BY <1>3, <1>4 DEF Returns

\* The calls that make the answer.
LEMMA AnswerMoves ==
    ASSUME LoopInv, NEW t \in Threads, frames[t] # <<>>, Synthesize(t) \/ WriteUp(t) \/ Stream(t)
    PROVE  Returns(t)
  <1>1. Top(t).kind = "run"
    BY DEF Synthesize, WriteUp, Stream
  <1>2. \E text \in Texts : \E told0 \in {"llm_error", "completed", "fallback_response", status,
                                       Unless(status, "fallback_response")} :
            Leave(t, text, told0)
    BY DEF Synthesize, WriteUp, Stream, Texts, Said
  <1>3. QED
    BY <1>1, <1>2, Left

LEMMA FinishMoves ==
    ASSUME LoopInv, NEW t \in Threads, frames[t] # <<>>, Finish(t) PROVE Returns(t)
  <1> DEFINE f == Top(t)
  <1>1. f.kind = "run" /\ f.final \in Texts
    <2>1. f.kind = "run"
      BY DEF Finish
    <2>2. QED
      BY <2>1, RunFits
  <1>2. \/ \E text \in Texts : Leave(t, text, status)
        \/ f.pc \in {"ask", "finish"} /\ Continue(t, [f EXCEPT !.pc = "synthesize"])
    BY <1>1 DEF Finish, Texts
  <1>3. CASE \E text \in Texts : Leave(t, text, status)
    BY <1>1, <1>3, Left
  <1>4. CASE f.pc \in {"ask", "finish"} /\ Continue(t, [f EXCEPT !.pc = "synthesize"])
    <2>1. LET g == [f EXCEPT !.pc = "synthesize"]
          IN  g \in Fitting(t) /\ g.kind = "run" /\ g.pc = "synthesize"
      BY <1>1, <1>4, RunTurnsTo
    <2>2. QED
      BY <1>1, <1>4, <2>1, Replaced DEF Returns
  <1>5. QED
    BY <1>2, <1>3, <1>4

\* The top frame of a thread that is in the legacy loop.
LEMMA LegacyFits ==
    ASSUME LoopInv, NEW t \in Threads, frames[t] # <<>>, Top(t).kind = "legacy"
    PROVE  LET f == Top(t)
           IN  /\ f \in LegacyFrames /\ f.agent \in DOMAIN profiles /\ f.turn \in Nat
               /\ profiles[f.agent].turns \in Nat /\ f.turn <= profiles[f.agent].turns
               /\ f.message \in Messages /\ f.final \in Texts /\ f.action \in Actions
               /\ f.acts \in LegacyActs /\ Len(f.acts) \in Nat /\ Unrepeated(f.acts)
               /\ Len(f.acts) + (IF f.pc = "decide" THEN 0 ELSE 1) <= f.turn
  <1> DEFINE f == Top(t)
  <1>1. f \in Fitting(t) /\ Fits(f) /\ f \in LegacyFrames
    BY TopFits, Kinds
  <1> HIDE DEF f
  <1>2. /\ f.agent \in DOMAIN profiles /\ f.turn \in Nat /\ f.final \in Texts
        /\ f.acts \in LegacyActs /\ f.kind = "legacy" /\ f.message \in Messages
        /\ f.action \in Actions
    BY <1>1 DEF LegacyFrames
  <1>3. profiles[f.agent].turns \in Nat
    BY <1>2 DEF LoopInv, ProfilesFit, Profile
  <1>4. Len(f.acts) \in Nat
    BY <1>2, LenProperties DEF LegacyActs
  <1>5. QED
    BY <1>1, <1>2, <1>3, <1>4 DEF Fits, f

LEMMA LegacyGoesOn ==
    ASSUME NEW t, NEW g \in LegacyFrames,
           g.turn <= profiles[g.agent].turns, Unrepeated(g.acts),
           Len(g.acts) + (IF g.pc = "decide" THEN 0 ELSE 1) <= g.turn,
           g.pc = "route" => Routed(g)
    PROVE  /\ g \in Fitting(t) /\ g.kind = "legacy"
           /\ g.pc = "wait" => g \in Waiting(t)
  <1>1. g.kind = "legacy"
    BY DEF LegacyFrames
  <1>2. Fits(g)
    BY <1>1 DEF Fits
  <1>3. QED
    BY <1>1, <1>2 DEF Fitting, AllFrames, Waiting, Waits

LEMMA LegacyTurnMoves ==
    ASSUME LoopInv, NEW t \in Threads, frames[t] # <<>>, LegacyTurn(t) PROVE Moves(t)
  <1> DEFINE f == Top(t)
  <1>1. f.kind = "legacy" /\ f.pc = "decide" /\ f.turn < profiles[f.agent].turns
    BY DEF LegacyTurn
  <1>2. /\ f \in LegacyFrames /\ f.turn \in Nat /\ profiles[f.agent].turns \in Nat
        /\ f.message \in Messages /\ Unrepeated(f.acts) /\ Len(f.acts) \in Nat
        /\ Len(f.acts) <= f.turn
    <2>1. /\ f \in LegacyFrames /\ f.turn \in Nat /\ profiles[f.agent].turns \in Nat
          /\ f.message \in Messages /\ Unrepeated(f.acts) /\ Len(f.acts) \in Nat
          /\ Len(f.acts) + (IF f.pc = "decide" THEN 0 ELSE 1) <= f.turn
      BY <1>1, LegacyFits
    <2>2. QED
      BY <1>1, <2>1
  <1> PICK decided \in (IF f.acts = <<>> THEN Decided ELSE DecidedLater)[f.message] :
         \E tool \in (IF decided.action = "USE_TOOL" THEN ToldFor[f.message] ELSE {NoTool}) :
             Continue(t, [f EXCEPT !.turn = @ + 1, !.pc = "route", !.action = decided.action,
                                   !.meant = decided.tool, !.tool = tool])
    BY DEF LegacyTurn
  <1> PICK tool \in (IF decided.action = "USE_TOOL" THEN ToldFor[f.message] ELSE {NoTool}) :
             Continue(t, [f EXCEPT !.turn = @ + 1, !.pc = "route", !.action = decided.action,
                                   !.meant = decided.tool, !.tool = tool])
    OBVIOUS
  <1>3. decided \in Decisions
    BY <1>2 DEF Decisions
  <1>4. decided.action \in Actions /\ decided.tool \in Meanings
    BY <1>3 DEF Actions, Meanings
  <1>5. tool \in ToolsTold
    BY <1>2 DEF ToolsTold
  <1> DEFINE g == [f EXCEPT !.turn = @ + 1, !.pc = "route", !.action = decided.action,
                            !.meant = decided.tool, !.tool = tool]
  <1>6. Continue(t, g)
    OBVIOUS
  <1> HIDE DEF f
  <1>7. f.turn + 1 \in Nat
    BY <1>2
  <1>8. g \in LegacyFrames
    BY <1>2, <1>4, <1>5, <1>7 DEF LegacyFrames
  <1>9. /\ g.turn = f.turn + 1 /\ g.acts = f.acts /\ g.agent = f.agent /\ g.pc = "route"
        /\ g.action = decided.action /\ g.meant = decided.tool /\ g.tool = tool
        /\ g.message = f.message
    BY <1>2 DEF LegacyFrames
  <1> HIDE DEF g
  <1>10. Routed(g)
    <2> SUFFICES ASSUME decided.action = "USE_TOOL"
                 PROVE  Taken(f.message, decided.tool, tool)
      BY <1>9 DEF Routed
    <2>1. PICK n \in {f.message} \cup Enriched(f.message), intent \in Intents :
            decided = Decide(n, intent)
      <3> DEFINE m == f.message
      <3>1. m \in Messages
        BY <1>2
      <3> HIDE DEF m
      <3>2. /\ \A d \in Decided[m] : \E intent \in Intents : d = Decide(m, intent)
            /\ \A d \in DecidedLater[m] :
                 \E n \in Enriched(m), intent \in Intents : d = Decide(n, intent)
        <4>1. /\ Decided[m] = {Decide(m, intent) : intent \in Intents}
              /\ DecidedLater[m] = {Decide(n, intent) : n \in Enriched(m), intent \in Intents}
          BY <3>1 DEF Decided, DecidedLater
        <4>2. QED
          BY <4>1
      <3>3. decided \in Decided[m] \/ decided \in DecidedLater[m]
        <4>1. CASE f.acts = <<>>
          <5>1. decided \in Decided[f.message]
            BY <4>1
          <5>2. QED
            BY <5>1 DEF m
        <4>2. CASE f.acts # <<>>
          <5>1. decided \in DecidedLater[f.message]
            BY <4>2
          <5>2. QED
            BY <5>1 DEF m
        <4>3. QED
          BY <4>1, <4>2
      <3>4. CASE decided \in Decided[m]
        <4>1. PICK intent \in Intents : decided = Decide(m, intent)
          BY <3>2, <3>4
        <4>2. QED
          BY <4>1 DEF m
      <3>5. CASE decided \in DecidedLater[m]
        <4>1. PICK n \in Enriched(m), intent \in Intents : decided = Decide(n, intent)
          BY <3>2, <3>5
        <4>2. QED
          BY <4>1 DEF m
      <3>6. QED
        BY <3>3, <3>4, <3>5
    <2>2. PICK other : tool = ToolFor(f.message, other)
      BY <1>2 DEF ToldFor
    <2>3. IsMessage(f.message)
      BY <1>2, MessagesAssumption
    <2>4. QED
      BY <2>1, <2>2, <2>3, ToolTaken
  <1>11. g.turn <= profiles[g.agent].turns
         /\ Len(g.acts) + (IF g.pc = "decide" THEN 0 ELSE 1) <= g.turn
    BY <1>1, <1>2, <1>9
  <1>12. g \in Fitting(t) /\ g.kind = "legacy"
    BY <1>2, <1>8, <1>9, <1>10, <1>11, LegacyGoesOn
  <1>13. QED
    BY <1>1, <1>6, <1>12, Replaced DEF f

\* What is routed waits, or has its result.
LEMMA LegacyTurnsTo ==
    ASSUME LoopInv, NEW t \in Threads, frames[t] # <<>>, Top(t).kind = "legacy",
           Top(t).pc = "route", NEW text \in Texts
    PROVE  /\ [Top(t) EXCEPT !.pc = "judge", !.final = text] \in Fitting(t)
           /\ [Top(t) EXCEPT !.pc = "judge", !.final = text].kind = "legacy"
           /\ [Top(t) EXCEPT !.pc = "wait"] \in Waiting(t)
  <1> DEFINE f == Top(t)
             g == [f EXCEPT !.pc = "judge", !.final = text]
             h == [f EXCEPT !.pc = "wait"]
  <1>1. /\ f \in LegacyFrames /\ f.turn \in Nat /\ f.turn <= profiles[f.agent].turns
        /\ Unrepeated(f.acts) /\ Len(f.acts) \in Nat /\ Len(f.acts) + 1 <= f.turn
    BY LegacyFits
  <1> HIDE DEF f
  <1>2. /\ g \in LegacyFrames /\ g.turn = f.turn /\ g.acts = f.acts /\ g.agent = f.agent
        /\ g.pc = "judge"
    BY <1>1 DEF LegacyFrames
  <1>3. /\ h \in LegacyFrames /\ h.turn = f.turn /\ h.acts = f.acts /\ h.agent = f.agent
        /\ h.pc = "wait"
    BY <1>1 DEF LegacyFrames
  <1> HIDE DEF g, h
  <1>4. g \in Fitting(t) /\ g.kind = "legacy"
    <2>1. Len(g.acts) + (IF g.pc = "decide" THEN 0 ELSE 1) <= g.turn
      BY <1>1, <1>2
    <2>2. QED
      BY <1>1, <1>2, <2>1, LegacyGoesOn
  <1>5. h \in Waiting(t)
    <2>1. Len(h.acts) + (IF h.pc = "decide" THEN 0 ELSE 1) <= h.turn
      BY <1>1, <1>3
    <2>2. QED
      BY <1>1, <1>3, <2>1, LegacyGoesOn
  <1>6. QED
    BY <1>4, <1>5 DEF f, g, h

LEMMA JudgedMoves ==
    ASSUME LoopInv, NEW t \in Threads, frames[t] # <<>>, NEW action, Routes(t, action),
           NEW text \in Texts, Judged(t, text)
    PROVE  Moves(t)
  <1>1. Top(t).kind = "legacy" /\ Top(t).pc = "route"
    BY DEF Routes
  <1> DEFINE g == [Top(t) EXCEPT !.pc = "judge", !.final = text]
  <1>2. g \in Fitting(t) /\ g.kind = "legacy" /\ Continue(t, g)
    BY <1>1, LegacyTurnsTo DEF Judged
  <1> HIDE DEF g
  <1>3. QED
    BY <1>1, <1>2, Replaced

LEMMA AtOnceMoves ==
    ASSUME LoopInv, NEW t \in Threads, frames[t] # <<>>,
           \/ RouteChat(t) \/ RouteClear(t) \/ RouteForget(t) \/ RouteRemember(t)
           \/ RouteConfigure(t) \/ RouteSimple(t) \/ RouteTool(t)
    PROVE  Moves(t)
  <1>1. ASSUME NEW action, NEW text \in Texts, Routes(t, action) /\ Judged(t, text)
        PROVE  Moves(t)
    BY <1>1, JudgedMoves
  <1>2. Said \subseteq Texts /\ Told \subseteq Texts /\ "text" \in Texts
    BY DEF Said, Told, Texts
  <1>3. CASE RouteChat(t) \/ RouteTool(t)
    BY <1>1, <1>2, <1>3 DEF RouteChat, RouteTool
  <1>4. CASE RouteClear(t) \/ RouteForget(t) \/ RouteRemember(t)
    BY <1>1, <1>2, <1>4 DEF RouteClear, RouteForget, RouteRemember
  <1>5. CASE RouteConfigure(t) \/ RouteSimple(t)
    BY <1>1, <1>2, <1>5 DEF RouteConfigure, RouteSimple
  <1>6. QED
    BY <1>3, <1>4, <1>5

LEMMA RouteDelegateMoves ==
    ASSUME LoopInv, NEW t \in Threads, frames[t] # <<>>, RouteDelegate(t) PROVE Moves(t)
  <1>1. Top(t).kind = "legacy" /\ Top(t).pc = "route"
    BY DEF RouteDelegate, Routes
  <1>2. ASSUME NEW target, Delegates(t, [Top(t) EXCEPT !.pc = "wait"], target)
        PROVE  Moves(t)
    <2>1. [Top(t) EXCEPT !.pc = "wait"] \in Waiting(t)
      BY <1>1, LegacyTurnsTo DEF Texts
    <2>2. QED
      BY <1>1, <1>2, <2>1, Handed
  <1>3. CASE Judged(t, "text")
    <2>1. Routes(t, "DELEGATE") /\ "text" \in Texts
      BY DEF RouteDelegate, Texts
    <2>2. QED
      BY <1>3, <2>1, JudgedMoves
  <1>4. QED
    BY <1>2, <1>3 DEF RouteDelegate

LEMMA ListStarts ==
    ASSUME NEW t, NEW kind \in {"chain", "team", "parallel"}, NEW party \in Parties,
           kind = "parallel" => t = Main
    PROVE  LET g == ListFrame(kind, party)
           IN  g \in Fitting(t) /\ g.kind = kind /\ g.out = 0
  <1>1. ListFrame(kind, party) \in ListFrames
    BY DEF ListFrame, ListFrames, Texts
  <1>2. ListFrame(kind, party).kind = kind /\ ListFrame(kind, party).out = 0
    BY DEF ListFrame
  <1>3. QED
    BY <1>1, <1>2 DEF Fitting, AllFrames, Fits

LEMMA RouteOrchestrateMoves ==
    ASSUME LoopInv, NEW t \in Threads, frames[t] # <<>>, RouteOrchestrate(t) PROVE Moves(t)
  <1>1. Top(t).kind = "legacy" /\ Top(t).pc = "route" /\ Routes(t, "ORCHESTRATE")
    BY DEF RouteOrchestrate, Routes
  <1>2. CASE Judged(t, "text")
    BY <1>1, <1>2, JudgedMoves DEF Texts
  <1>3. ASSUME NEW kind \in {"chain", "team", "parallel"}, NEW party \in Parties,
               kind = "parallel" => t = Main,
               Calls(t, [Top(t) EXCEPT !.pc = "wait"], ListFrame(kind, party))
        PROVE  Moves(t)
    <2> DEFINE w == [Top(t) EXCEPT !.pc = "wait"]
               g == ListFrame(kind, party)
    <2>1. w \in Waiting(t)
      BY <1>1, LegacyTurnsTo DEF Texts
    <2>2. g \in Fitting(t) /\ g.kind = kind /\ g.out = 0
      BY <1>3, ListStarts
    <2>3. Calls(t, w, g)
      BY <1>3
    <2> HIDE DEF w, g
    <2>4. QED
      BY <1>1, <2>1, <2>2, <2>3, Called
  <1>4. QED
    BY <1>2, <1>3 DEF RouteOrchestrate

LEMMA JudgeMoves ==
    ASSUME LoopInv, NEW t \in Threads, frames[t] # <<>>, Judge(t) PROVE Returns(t)
  <1> DEFINE f == Top(t)
             act == [tool |-> f.action, failed |-> f.final = "failure"]
             g == [f EXCEPT !.acts = Append(f.acts, act), !.pc = "decide",
                            !.action = "none yet", !.meant = NoTool, !.tool = NoTool]
  <1>1. f.kind = "legacy" /\ f.pc = "judge"
    BY DEF Judge
  <1>2. /\ f \in LegacyFrames /\ f.turn \in Nat /\ f.turn <= profiles[f.agent].turns
        /\ Unrepeated(f.acts) /\ Len(f.acts) \in Nat /\ Len(f.acts) + 1 <= f.turn
        /\ f.acts \in LegacyActs /\ f.action \in Actions /\ f.final \in Texts
    BY <1>1, LegacyFits
  <1>3. CASE Leave(t, f.final, status)
    BY <1>1, <1>2, <1>3, Left
  <1>4. CASE ~RepeatedFailure(Append(f.acts, act)) /\ Continue(t, g)
    <2>1. ~RepeatedFailure(Append(f.acts, act)) /\ Continue(t, g)
      BY <1>4
    <2> HIDE DEF f
    <2>2. act \in [tool : Actions, failed : BOOLEAN]
      BY <1>2
    <2> HIDE DEF act
    <2>3. Append(f.acts, act) \in LegacyActs /\ Len(Append(f.acts, act)) = Len(f.acts) + 1
      BY <1>2, <2>2, AppendProperties DEF LegacyActs
    <2>4. Unrepeated(Append(f.acts, act))
      BY <1>2, <2>1, <2>2, Unrepeating DEF LegacyActs
    <2>5. "none yet" \in Actions /\ NoTool \in Meanings /\ NoTool \in ToolsTold
      BY DEF Actions, Meanings, ToolsTold
    <2>6. g \in LegacyFrames
      BY <1>2, <2>3, <2>5 DEF LegacyFrames
    <2>7. g.turn = f.turn /\ g.acts = Append(f.acts, act) /\ g.agent = f.agent /\ g.pc = "decide"
      BY <1>2 DEF LegacyFrames
    <2> HIDE DEF g
    <2>8. Len(g.acts) + (IF g.pc = "decide" THEN 0 ELSE 1) <= g.turn
      BY <1>2, <2>3, <2>7
    <2>9. g \in Fitting(t) /\ g.kind = "legacy"
      BY <1>2, <2>4, <2>6, <2>7, <2>8, LegacyGoesOn
    <2>10. QED
      BY <1>1, <2>1, <2>9, Replaced DEF f, Returns
  <1>5. QED
    BY <1>3, <1>4 DEF Judge

LEMMA LegacyEndsMoves ==
    ASSUME LoopInv, NEW t \in Threads, frames[t] # <<>>, LegacyEnds(t) PROVE Returns(t)
  <1>1. Top(t).kind = "legacy" /\ Leave(t, Top(t).final, status)
    BY DEF LegacyEnds
  <1>2. Top(t).final \in Texts
    BY <1>1, LegacyFits
  <1>3. QED
    BY <1>1, <1>2, Left

\* A list that goes on.
LEMMA ListGoesOn ==
    ASSUME NEW t, NEW g \in ListFrames, g.kind \in {"chain", "team"}
    PROVE  g \in Fitting(t) /\ g \in Waiting(t)
  BY DEF Fitting, AllFrames, Fits, Waiting, Waits

LEMMA TopList ==
    ASSUME LoopInv, NEW t \in Threads, frames[t] # <<>>, Top(t).kind \in {"chain", "team"}
    PROVE  Top(t) \in ListFrames /\ Top(t) \in Waiting(t)
           /\ Top(t).last \in Texts /\ Top(t).heard \subseteq Texts
  <1>1. Top(t) \in ListFrames
    BY TopFits, Kinds
  <1>2. Top(t) \in Waiting(t)
    BY <1>1, ListGoesOn
  <1>3. Top(t).last \in Texts /\ Top(t).heard \subseteq Texts
    BY <1>1 DEF ListFrames
  <1>4. QED
    BY <1>1, <1>2, <1>3

LEMMA ChainMoves ==
    ASSUME LoopInv, NEW t \in Threads, frames[t] # <<>>, ChainStep(t) PROVE Returns(t)
  <1> DEFINE f == Top(t)
  <1>1. f.kind = "chain"
    BY DEF ChainStep
  <1>2. f \in ListFrames /\ f \in Waiting(t) /\ f.last \in Texts
    BY <1>1, TopList
  <1>3. CASE Leave(t, f.last, status)
    BY <1>1, <1>2, <1>3, Left
  <1>4. CASE Continue(t, [f EXCEPT !.at = @ + 1, !.last = "none"])
    <2> DEFINE g == [f EXCEPT !.at = @ + 1, !.last = "none"]
    <2>1. Continue(t, g)
      BY <1>4
    <2> HIDE DEF f
    <2>2. f.at + 1 \in Nat /\ "none" \in Texts
      <3>1. f.at \in Nat
        BY <1>2 DEF ListFrames
      <3>2. QED
        BY <3>1 DEF Texts
    <2>3. g \in ListFrames /\ g.kind = "chain"
      BY <1>1, <1>2, <2>2 DEF ListFrames
    <2> HIDE DEF g
    <2>4. QED
      BY <1>1, <2>1, <2>3, ListGoesOn, Replaced DEF Returns, f
  <1>5. CASE f.agents[f.at] \in DOMAIN profiles /\ StartsRun(t, f, f.agents[f.at])
    <2>1. PICK a \in DOMAIN profiles : StartsRun(t, f, a)
      BY <1>5
    <2>2. QED
      BY <1>1, <1>2, <2>1, Ran DEF Returns
  <1>6. QED
    BY <1>3, <1>4, <1>5 DEF ChainStep

LEMMA TeamMoves ==
    ASSUME LoopInv, NEW t \in Threads, frames[t] # <<>>, TeamStep(t) PROVE Returns(t)
  <1> DEFINE f == Top(t)
  <1>1. f.kind = "team"
    BY DEF TeamStep
  <1>2. f \in ListFrames /\ f \in Waiting(t) /\ f.heard \subseteq Texts
    BY <1>1, TopList
  <1>3. CASE \E text \in (IF f.heard = {} THEN {"text"} ELSE f.heard) : Leave(t, text, status)
    <2>1. PICK text \in Texts : Leave(t, text, status)
      BY <1>2, <1>3 DEF Texts
    <2>2. QED
      BY <1>1, <2>1, Left
  <1>4. ASSUME NEW g, g \in {NextTurn(f), [f EXCEPT !.at = @ + 1]}, Continue(t, g)
        PROVE  Returns(t)
    <2> HIDE DEF f
    <2>1. f.at + 1 \in Nat /\ f.turn + 1 \in Nat
      BY <1>2 DEF ListFrames
    <2>2. NextTurn(f) \in ListFrames /\ NextTurn(f).kind = "team"
      BY <1>1, <1>2, <2>1 DEF ListFrames, NextTurn
    <2>3. [f EXCEPT !.at = @ + 1] \in ListFrames /\ [f EXCEPT !.at = @ + 1].kind = "team"
      BY <1>1, <1>2, <2>1 DEF ListFrames
    <2>4. g \in ListFrames /\ g.kind = "team"
      BY <1>4, <2>2, <2>3
    <2>5. QED
      BY <1>1, <1>4, <2>4, ListGoesOn, Replaced DEF Returns, f
  <1>5. CASE f.agents[f.at] \in DOMAIN profiles /\ StartsRun(t, f, f.agents[f.at])
    <2>1. PICK a \in DOMAIN profiles : StartsRun(t, f, a)
      BY <1>5
    <2>2. QED
      BY <1>1, <1>2, <2>1, Ran DEF Returns
  <1>6. QED
    BY <1>3, <1>4, <1>5 DEF TeamStep

\* Only the request's thread has a pool.
LEMMA PoolIsMains ==
    ASSUME LoopInv, NEW t \in Threads, frames[t] # <<>>, Top(t).kind = "parallel"
    PROVE  t = Main /\ ~Idle /\ Top(t) \in ListFrames
  <1>1. Top(t) \in Fitting(t) /\ Top(t) \in ListFrames
    BY TopFits, Kinds
  <1>2. QED
    BY <1>1 DEF Fitting, Idle

LEMMA PoolMoves ==
    ASSUME LoopInv, NEW t \in Threads, frames[t] # <<>>, PoolPasses(t) \/ PoolEnds(t)
    PROVE  Returns(t) \/ Passes
  <1> DEFINE f == Top(t)
  <1>1. f.kind = "parallel"
    BY DEF PoolPasses, PoolEnds
  <1>2. t = Main /\ ~Idle /\ f \in ListFrames
    BY <1>1, PoolIsMains
  <1>3. CASE PoolPasses(t)
    BY <1>1, <1>2, <1>3 DEF PoolPasses, Passes, Continue
  <1>4. CASE PoolEnds(t)
    <2>1. f.heard \subseteq Texts
      BY <1>2 DEF ListFrames
    <2>2. PICK text \in Texts : Leave(t, text, status)
      BY <1>4, <2>1 DEF PoolEnds, Texts
    <2>3. f.out = 0
      BY <1>4 DEF PoolEnds
    <2>4. QED
      BY <2>2, <2>3, Left
  <1>5. QED
    BY <1>3, <1>4

LEMMA PoolTakesMoves ==
    ASSUME LoopInv, NEW w \in Workers, PoolTakes(w) PROVE Takes(w)
  <1> DEFINE f == Top(Main)
  <1>1. /\ frames[w] = <<>> /\ ~Idle /\ f.kind = "parallel" /\ f.agents[f.at] \in DOMAIN profiles
    BY DEF PoolTakes
  <1>2. PICK run \in Activations(f.agents[f.at], FALSE, FALSE, NoTool) :
          frames' = [frames EXCEPT
              ![w] = run, ![Main] = Append(Front(@), [f EXCEPT !.at = @ + 1, !.out = @ + 1])]
    BY DEF PoolTakes
  <1>3. Pushed(w, run)
    <2>1. PICK a \in DOMAIN profiles : run \in Activations(a, FALSE, FALSE, NoTool)
      BY <1>1, <1>2
    <2>2. w \in Threads /\ NoTool \in Tools \cup {NoTool} /\ FALSE \in BOOLEAN
          /\ <<>> \in Seq(Waiting(w))
      BY EmptySeq DEF Threads
    <2>3. QED
      BY <2>1, <2>2, Activated
  <1>4. run \in Stacks(w) /\ run # <<>>
    BY <1>3, Stacked DEF Pushed
  <1>5. QED
    BY <1>1, <1>2, <1>4 DEF Takes

LEMMA LoopStepMoves ==
    ASSUME LoopInv, NEW t \in Threads, LoopStep(t) PROVE Returns(t) \/ Passes
  <1>1. frames[t] # <<>>
    BY DEF LoopStep
  <1>2. QED
    BY <1>1, AskMoves, NoReplyMoves, ReplyMoves, RunToolMoves, AnswerMoves, FinishMoves,
       LegacyTurnMoves, JudgeMoves, LegacyEndsMoves, ChainMoves, TeamMoves, PoolMoves,
       AtOnceMoves, RouteDelegateMoves, RouteOrchestrateMoves
       DEF LoopStep, Returns

LEMMA ReturnsFit ==
    ASSUME LoopInv, profiles' = profiles, NEW t \in Threads, Returns(t) \/ Passes
    PROVE  (FramesFit /\ PoolFits /\ FlagFits)'
  BY MovesFit, EmptiesFit, FreesFit, PassesFit DEF Returns

-----------------------------------------------------------------------------
(* The requests. *)

Allowance ==
    [kinds : SUBSET STRING, messages : SUBSET Messages, streams : SUBSET BOOLEAN,
     first : SUBSET (Tools \cup {NoTool}), calling : BOOLEAN,
     requests : Int, faults : Int, leaves : Int, crashes : Int]

Request == [stage : Stages, kind : {"none", "chat", "agent"}, stream : BOOLEAN, first : Tools \cup {NoTool}]

RequestsFit == left \in Allowance /\ request \in Request

\* How a step may change them.
LeftMoves ==
    \/ left' = left \/ Well \/ Badly
    \/ \E what \in {"faults", "leaves", "crashes"} : Spends(what)

RequestMoves ==
    \/ request' \in {request, NoRequest}
    \/ \E stage \in Stages :
         request' \in {[request EXCEPT !.stage = stage], [NoRequest EXCEPT !.stage = stage]}
    \/ \E kind \in {"chat", "agent"}, stream \in left.streams, first \in left.first \cup {NoTool} :
         request' = [stage |-> "begun", kind |-> kind, stream |-> stream, first |-> first]

LEMMA RequestsMove ==
    ASSUME [Next]_brainVars PROVE LeftMoves /\ RequestMoves
  <1>1. CASE UNCHANGED brainVars
    BY <1>1 DEF brainVars, servedVars, LeftMoves, RequestMoves
  <1>2. CASE Commands
    <2>1. CASE \/ StartNewSession \/ ResumeSession \/ DeleteSession \/ UseAgent \/ Show
               \/ UseSkill \/ DropSkill \/ ReloadSkills \/ ConfigCommand
      BY <2>1 DEF StartNewSession, ResumeSession, DeleteSession, UseAgent, Show, UseSkill, DropSkill,
         ReloadSkills, ConfigCommand, Command, LeftMoves, RequestMoves
    <2>2. CASE CreateAgent \/ SetAgentTools \/ SetAgentModel \/ SetAgentPersona
      <3>1. PICK new : ToSave(new)
        BY <2>2 DEF CreateAgent, SetAgentTools, SetAgentModel, SetAgentPersona
      <3>2. QED
        BY <3>1 DEF ToSave, LeftMoves, RequestMoves, Stages
    <2>3. CASE Receive
      BY <2>3 DEF Receive, LeftMoves, RequestMoves
    <2>4. CASE StartAgents
      BY <2>4 DEF StartAgents, LeftMoves, RequestMoves, Stages
    <2>5. QED
      BY <1>2, <2>1, <2>2, <2>3, <2>4 DEF Commands
  <1>3. CASE Serving
    <2>1. CASE ConfigSaved
      BY <2>1 DEF ConfigSaved, servedVars, LeftMoves, RequestMoves
    <2>2. CASE OpenAgentsFile
      BY <2>2 DEF OpenAgentsFile, LeftMoves, RequestMoves, Stages
    <2>3. CASE WriteAgentsFile
      BY <2>3 DEF WriteAgentsFile, LeftMoves, RequestMoves
    <2>4. CASE SaveUserRow
      BY <2>4 DEF SaveUserRow, Ends, LeftMoves, RequestMoves, Stages
    <2>5. CASE ChatAnswers \/ LoopAnswers \/ SaveAnswer \/ Count \/ Trim
      BY <2>5 DEF ChatAnswers, LoopAnswers, SaveAnswer, Count, Trim, LeftMoves, RequestMoves, Stages
    <2>6. CASE Learn \/ AgentsAnswer
      BY <2>6 DEF Learn, AgentsAnswer, Ends, LeftMoves, RequestMoves
    <2>7. QED
      BY <1>3, <2>1, <2>2, <2>3, <2>4, <2>5, <2>6 DEF Serving
  <1>4. ASSUME NEW t \in Threads, Looping(t) PROVE LeftMoves /\ RequestMoves
    <2>1. CASE RouteBreaks(t)
      BY <2>1 DEF RouteBreaks, Ends, LeftMoves, RequestMoves
    <2>2. CASE ~RouteBreaks(t)
      <3>1. UNCHANGED <<left, request>>
        BY <1>4, <2>2, ChatRests DEF Looping, LoopSteps, ClearInLoop, ForgetInLoop,
           RememberInLoop, ConfigureInLoop, RouteRest, servedVars
      <3>2. QED
        BY <3>1 DEF LeftMoves, RequestMoves
    <2>3. QED
      BY <2>1, <2>2
  <1>5. ASSUME NEW w \in Workers, PoolSteps(w) PROVE LeftMoves /\ RequestMoves
    BY <1>5 DEF PoolSteps, servedVars, LeftMoves, RequestMoves
  <1>6. CASE Background
    BY <1>6 DEF Background, Extract, Summarize, TaskRest, servedVars, LeftMoves, RequestMoves
  <1>7. CASE Leaves \/ FinalizeFails
    BY <1>7 DEF Leaves, FinalizeFails, Ends, LeftMoves, RequestMoves
  <1>8. CASE Restart
    BY <1>8 DEF Restart, LeftMoves, RequestMoves
  <1>9. QED
    BY <1>1, <1>2, <1>3, <1>4, <1>5, <1>6, <1>7, <1>8 DEF Next, Serves

LEMMA RequestsNext ==
    ASSUME RequestsFit, LeftMoves, RequestMoves PROVE RequestsFit'
  <1>1. left' \in Allowance
    <2>1. CASE left' = left
      BY <2>1 DEF RequestsFit
    <2>2. CASE Well
      BY <2>2 DEF RequestsFit, Well, Allowance
    <2>3. CASE Badly
      <3>1. left.requests - 1 \in Int /\ left.faults - 1 \in Int
        BY DEF RequestsFit, Allowance
      <3>2. QED
        BY <2>3, <3>1 DEF RequestsFit, Badly, Allowance
    <2>4. ASSUME NEW what \in {"faults", "leaves", "crashes"}, Spends(what)
          PROVE  left' \in Allowance
      BY <2>4 DEF RequestsFit, Spends, Allowance
    <2>5. QED
      BY <2>1, <2>2, <2>3, <2>4 DEF LeftMoves
  <1>2. NoRequest \in Request
    BY DEF NoRequest, Request, Stages
  <1>3. request' \in Request
    <2>1. ASSUME NEW stage \in Stages,
                 request' \in {[request EXCEPT !.stage = stage], [NoRequest EXCEPT !.stage = stage]}
          PROVE  request' \in Request
      BY <1>2, <2>1 DEF RequestsFit, Request
    <2>2. ASSUME NEW kind \in {"chat", "agent"}, NEW stream \in left.streams,
                 NEW first \in left.first \cup {NoTool},
                 request' = [stage |-> "begun", kind |-> kind, stream |-> stream, first |-> first]
          PROVE  request' \in Request
      <3>1. stream \in BOOLEAN /\ first \in Tools \cup {NoTool}
        BY DEF RequestsFit, Allowance
      <3>2. QED
        BY <2>2, <3>1 DEF Request, Stages
    <2>3. QED
      BY <1>2, <2>1, <2>2 DEF RequestMoves, RequestsFit
  <1>4. QED
    BY <1>1, <1>3 DEF RequestsFit

-----------------------------------------------------------------------------
(* The agents, and what is at work. *)

AgentsFit ==
    /\ ProfilesFit /\ DOMAIN profiles \subseteq Agents
    /\ DefaultAgent \in DOMAIN profiles /\ personas \subseteq DOMAIN profiles
    /\ current = [agent |-> current.agent, session |-> current.session]
    /\ current.agent \in DOMAIN profiles
    /\ agentsFile = [whole |-> agentsFile.whole, agents |-> agentsFile.agents]
    /\ agentsFile.agents \in [DOMAIN agentsFile.agents -> Profile]
    /\ DOMAIN agentsFile.agents \subseteq Agents

\* Frames are at work for a request only.
StagesFit == ~Idle => request.stage \in {"loop", "agents"}

WorkInv == RequestsFit /\ AgentsFit /\ LoopInv /\ StagesFit /\ RegistryFits

\* How a step may change the agents ...
Extends(new) ==
    /\ new \in [DOMAIN new -> Profile] /\ DOMAIN profiles \subseteq DOMAIN new
    /\ DOMAIN new \subseteq Agents

AgentsMove ==
    \/ /\ UNCHANGED registryVars /\ (request.stage = "to save" => request'.stage = "to save")
       /\ \/ current' = current
          \/ /\ current' = [agent |-> current'.agent, session |-> current'.session]
             /\ current'.agent \in DOMAIN profiles
    \/ /\ Extends(profiles') /\ personas' \subseteq DOMAIN profiles'
       /\ request'.stage = "to save" /\ UNCHANGED <<agentsFile, unsaved, current>>
    \/ OpenAgentsFile \/ WriteAgentsFile \/ Restart

\* ... and what is at work.
WorkMove ==
    \/ UNCHANGED <<frames, flag, profiles>> /\ (~Idle => request'.stage = request.stage)
    \/ Idle /\ UNCHANGED frames /\ Extends(profiles')
    \/ Begins /\ UNCHANGED profiles /\ request'.stage \in {"loop", "agents"}
    \/ /\ \/ \E t \in Threads : frames[t] # <<>> /\ (Returns(t) \/ Passes)
          \/ \E w \in Workers : Takes(w)
       /\ UNCHANGED <<profiles, request>>
    \/ Empties /\ UNCHANGED profiles
    \/ Restart

LEMMA Resting == ASSUME LoopInv, Idle PROVE \A t \in Threads : frames[t] = <<>>
  BY DEF LoopInv, PoolFits, Busy, Idle, Threads

LEMMA NothingWorks ==
    ASSUME frames' = [t \in Threads |-> <<>>] PROVE (FramesFit /\ PoolFits /\ FlagFits /\ Idle)'
  <1>1. \A t : <<>> \in Stacks(t)'
    BY DEF Stacks
  <1>2. Idle' /\ Busy' = {}
    BY DEF Idle, Busy, Threads
  <1>3. FramesFit'
    <2>1. frames' = [t \in Threads |-> frames'[t]] /\ \A t \in Threads : frames'[t] = <<>>
      OBVIOUS
    <2>2. QED
      BY <1>1, <2>1 DEF FramesFit
  <1>4. PoolFits'
    BY <1>2 DEF PoolFits
  <1>5. FlagFits'
    BY <1>2 DEF FlagFits
  <1>6. QED
    BY <1>2, <1>3, <1>4, <1>5

LEMMA NothingFits == <<>> \in [DOMAIN <<>> -> Profile] /\ DOMAIN <<>> = {}
  <1>1. DOMAIN <<>> = {}
    OBVIOUS
  <1>2. <<>> = [i \in {} |-> i]
    OBVIOUS
  <1>3. QED
    BY <1>1, <1>2

LEMMA Merged ==
    ASSUME NEW f, NEW g, f \in [DOMAIN f -> Profile], g \in [DOMAIN g -> Profile]
    PROVE  /\ DOMAIN (With(f, g)) = DOMAIN f \cup DOMAIN g
           /\ With(f, g) \in [DOMAIN (With(f, g)) -> Profile]
           /\ \A x \in DOMAIN f : (With(f, g))[x] = f[x]
           /\ DOMAIN g \subseteq DOMAIN f => With(f, g) = f
  BY DEF With

LEMMA LoadedFits ==
    ASSUME NEW file, NEW written, file.agents \in [DOMAIN file.agents -> Profile],
           DOMAIN file.agents \subseteq Agents, written \subseteq Agents
    PROVE  LET new == Loaded(file, written)
           IN  /\ new \in [DOMAIN new -> Profile] /\ DOMAIN new \subseteq Agents
               /\ DefaultAgent \in DOMAIN new /\ written \subseteq DOMAIN new
               /\ file.whole /\ DefaultAgent \in DOMAIN file.agents
                    /\ written \subseteq DOMAIN file.agents => new = file.agents
  <1> DEFINE own == [a \in {DefaultAgent} \cup (written \cap DOMAIN BuiltIn) |-> BuiltIn[a]]
             kept == IF file.whole THEN file.agents ELSE <<>>
             known == With(kept, own)
             more == [a \in written |-> NewProfile(NoModel, TRUE)]
  <1>1. Loaded(file, written) = With(known, more)
    BY DEF Loaded
  <1>2. own \in [DOMAIN own -> Profile] /\ DOMAIN own = {DefaultAgent} \cup (written \cap DOMAIN BuiltIn)
    BY BrainAssumption
  <1>3. NewProfile(NoModel, TRUE) \in Profile
    BY BrainAssumption DEF NewProfile, Profile
  <1>4. more \in [DOMAIN more -> Profile] /\ DOMAIN more = written
    BY <1>3
  <1>5. kept \in [DOMAIN kept -> Profile] /\ DOMAIN kept \subseteq Agents
        /\ (file.whole => kept = file.agents)
    BY NothingFits
  <1> HIDE DEF own, kept, more
  <1>6. /\ DOMAIN known = DOMAIN kept \cup DOMAIN own /\ known \in [DOMAIN known -> Profile]
        /\ DOMAIN own \subseteq DOMAIN kept => known = kept
    BY <1>2, <1>5, Merged
  <1> HIDE DEF known
  <1>7. /\ DOMAIN (With(known, more)) = DOMAIN known \cup DOMAIN more
        /\ With(known, more) \in [DOMAIN (With(known, more)) -> Profile]
        /\ DOMAIN more \subseteq DOMAIN known => With(known, more) = known
    BY <1>4, <1>6, Merged
  <1>8. DefaultAgent \in Agents
    BY BrainAssumption
  <1>9. QED
    BY <1>1, <1>2, <1>4, <1>5, <1>6, <1>7, <1>8

LEMMA AgentsNext ==
    ASSUME AgentsFit, RegistryFits, AgentsMove PROVE AgentsFit' /\ RegistryFits'
  <1>1. CASE /\ UNCHANGED registryVars /\ (request.stage = "to save" => request'.stage = "to save")
             /\ \/ current' = current
                \/ /\ current' = [agent |-> current'.agent, session |-> current'.session]
                   /\ current'.agent \in DOMAIN profiles
    <2>1. UNCHANGED <<profiles, agentsFile, unsaved, personas>>
      BY <1>1 DEF registryVars
    <2>2. Loaded(agentsFile, personas)' = Loaded(agentsFile, personas)
      BY <2>1
    <2>3. RegistryFits'
      BY <1>1, <2>1, <2>2 DEF RegistryFits
    <2>4. AgentsFit'
      BY <1>1, <2>1 DEF AgentsFit, ProfilesFit
    <2>5. QED
      BY <2>3, <2>4
  <1>2. CASE /\ Extends(profiles') /\ personas' \subseteq DOMAIN profiles'
             /\ request'.stage = "to save" /\ UNCHANGED <<agentsFile, unsaved, current>>
    BY <1>2 DEF AgentsFit, ProfilesFit, RegistryFits, Extends
  <1>3. CASE OpenAgentsFile
    <2>1. UNCHANGED <<profiles, personas, current>>
      BY <1>3 DEF OpenAgentsFile, SaveRest, placeVars
    <2>2. CASE agentsFile' = [whole |-> FALSE, agents |-> <<>>]
      BY <2>1, <2>2, NothingFits DEF AgentsFit, ProfilesFit, RegistryFits
    <2>3. CASE unsaved' = TRUE /\ UNCHANGED agentsFile
      BY <2>1, <2>3 DEF AgentsFit, ProfilesFit, RegistryFits
    <2>4. QED
      BY <1>3, <2>2, <2>3 DEF OpenAgentsFile
  <1>4. CASE WriteAgentsFile
    <2>1. UNCHANGED <<profiles, personas, current>>
      BY <1>4 DEF WriteAgentsFile, SaveRest, placeVars
    <2>2. CASE agentsFile' = [whole |-> TRUE, agents |-> Dumped]
      <3>1. agentsFile'.agents = profiles /\ agentsFile'.whole
        BY <2>2 DEF Dumped
      <3>2. Loaded(agentsFile', personas') = profiles
        BY <2>1, <3>1, LoadedFits DEF AgentsFit, ProfilesFit
      <3>3. QED
        BY <2>1, <2>2, <3>1, <3>2 DEF AgentsFit, ProfilesFit, RegistryFits, Dumped
    <2>3. CASE unsaved' = TRUE /\ UNCHANGED agentsFile
      BY <2>1, <2>3 DEF AgentsFit, ProfilesFit, RegistryFits
    <2>4. QED
      BY <1>4, <2>2, <2>3 DEF WriteAgentsFile
  <1>5. CASE Restart
    <2>1. UNCHANGED <<agentsFile, personas>> /\ profiles' = Loaded(agentsFile, personas)
          /\ current' = [agent |-> DefaultAgent, session |-> Len(Behind) + 1]
      BY <1>5 DEF Restart, Opens
    <2>2. LET new == Loaded(agentsFile, personas)
          IN  /\ new \in [DOMAIN new -> Profile] /\ DOMAIN new \subseteq Agents
              /\ DefaultAgent \in DOMAIN new /\ personas \subseteq DOMAIN new
      BY LoadedFits DEF AgentsFit
    <2>3. Loaded(agentsFile, personas)' = profiles'
      BY <2>1
    <2>4. RegistryFits'
      BY <2>3 DEF RegistryFits
    <2> HIDE DEF Loaded
    <2>5. AgentsFit'
      BY <2>1, <2>2 DEF AgentsFit, ProfilesFit
    <2>6. QED
      BY <2>4, <2>5
  <1>6. QED
    BY <1>1, <1>2, <1>3, <1>4, <1>5 DEF AgentsMove

-----------------------------------------------------------------------------
(* What the steps do to the agents, and to what is at work. *)

LEMMA InputsStay ==
    ASSUME [Next]_brainVars PROVE UNCHANGED inputs
  <1>1. CASE UNCHANGED brainVars
    BY <1>1 DEF brainVars
  <1>2. CASE Commands
    BY <1>2 DEF Commands, StartNewSession, ResumeSession, DeleteSession, UseAgent, Show, UseSkill,
       DropSkill, ReloadSkills, ConfigCommand, Command, CreateAgent, SetAgentTools, SetAgentModel,
       SetAgentPersona, ToSave, Receive, StartAgents, ServeRest
  <1>3. CASE Serving
    BY <1>3 DEF Serving, ConfigSaved, OpenAgentsFile, WriteAgentsFile, SaveRest, SaveUserRow,
       ChatAnswers, LoopAnswers, SaveAnswer, Count, Trim, Learn, AgentsAnswer, ServeRest
  <1>4. ASSUME NEW t \in Threads, Looping(t) PROVE UNCHANGED inputs
    BY <1>4, ChatRests DEF Looping, LoopSteps, LoopStep, ClearInLoop, ForgetInLoop, RememberInLoop,
       ConfigureInLoop, RouteBreaks, RouteRest
  <1>5. ASSUME NEW w \in Workers, PoolSteps(w) PROVE UNCHANGED inputs
    BY <1>5 DEF PoolSteps
  <1>6. CASE Background \/ Leaves \/ FinalizeFails \/ Restart
    BY <1>6 DEF Background, Extract, Summarize, TaskRest, Leaves, FinalizeFails, Restart, ServeRest
  <1>7. QED
    BY <1>1, <1>2, <1>3, <1>4, <1>5, <1>6 DEF Next, Serves

\* A command on something else.
LEMMA CommandWorks ==
    ASSUME WorkInv, Free, UNCHANGED <<frames, flag, request, registryVars>>,
           \/ current' = current
           \/ /\ current' = [agent |-> current'.agent, session |-> current'.session]
              /\ current'.agent \in DOMAIN profiles
    PROVE  AgentsMove /\ WorkMove
  BY DEF AgentsMove, WorkMove, registryVars

LEMMA ProfilesStand ==
    ASSUME AgentsFit PROVE Extends(profiles) /\ personas \subseteq DOMAIN profiles
                           /\ current.agent \in DOMAIN profiles
                           /\ current = [agent |-> current.agent, session |-> current.session]
  BY DEF AgentsFit, ProfilesFit, Extends

LEMMA ToSaveWorks ==
    ASSUME WorkInv, NEW new, ToSave(new), Extends(new), personas' \subseteq DOMAIN new
    PROVE  AgentsMove /\ WorkMove
  <1>1. /\ Idle /\ UNCHANGED <<frames, flag>> /\ profiles' = new
        /\ request'.stage = "to save" /\ UNCHANGED <<agentsFile, unsaved, current>>
    BY DEF ToSave, Arrives, Free, loopVars, placeVars, NoRequest
  <1>2. QED
    BY <1>1 DEF AgentsMove, WorkMove

\* One profile is set.
LEMMA OneSet ==
    ASSUME AgentsFit, NEW a \in DOMAIN profiles, NEW p \in Profile
    PROVE  Extends([profiles EXCEPT ![a] = p]) /\ DOMAIN [profiles EXCEPT ![a] = p] = DOMAIN profiles
  BY DEF AgentsFit, ProfilesFit, Extends

LEMMA AgentCommandsWork ==
    ASSUME WorkInv, CreateAgent \/ SetAgentTools \/ SetAgentModel \/ SetAgentPersona
    PROVE  AgentsMove /\ WorkMove
  <1>1. /\ AgentsFit /\ personas \subseteq DOMAIN profiles
        /\ \A a \in DOMAIN profiles : profiles[a] \in Profile
    BY DEF WorkInv, AgentsFit, ProfilesFit
  <1>2. CASE CreateAgent
    <2>1. PICK a \in Agents \ DOMAIN profiles, model \in {NoModel, OwnModel} :
            ToSave(With(profiles, [b \in {a} |-> NewProfile(model, FALSE)]))
      BY <1>2 DEF CreateAgent
    <2> DEFINE one == [b \in {a} |-> NewProfile(model, FALSE)]
               new == With(profiles, one)
    <2>2. NewProfile(model, FALSE) \in Profile
      BY BrainAssumption DEF NewProfile, Profile
    <2>3. one \in [DOMAIN one -> Profile] /\ DOMAIN one = {a}
      BY <2>2
    <2> HIDE DEF one
    <2>4. new \in [DOMAIN new -> Profile] /\ DOMAIN new = DOMAIN profiles \cup {a}
      BY <1>1, <2>3, Merged DEF AgentsFit, ProfilesFit
    <2> HIDE DEF new
    <2>5. Extends(new) /\ personas' \subseteq DOMAIN new
      BY <1>1, <1>2, <2>4 DEF Extends, AgentsFit, CreateAgent
    <2>6. QED
      BY <2>1, <2>5, ToSaveWorks DEF new, one
  <1>3. CASE SetAgentTools
    <2>1. PICK a \in DOMAIN profiles, tools \in ToolSets :
            ToSave([profiles EXCEPT ![a].tools = tools])
      BY <1>3 DEF SetAgentTools
    <2>2. [profiles[a] EXCEPT !.tools = tools] \in Profile
      BY <1>1, BrainAssumption DEF Profile
    <2>3. QED
      BY <1>1, <1>3, <2>1, <2>2, OneSet, ToSaveWorks DEF SetAgentTools
  <1>4. CASE SetAgentModel
    <2>1. PICK a \in DOMAIN profiles : ToSave([profiles EXCEPT ![a].model = OwnModel])
      BY <1>4 DEF SetAgentModel
    <2>2. [profiles[a] EXCEPT !.model = OwnModel] \in Profile
      BY <1>1 DEF Profile
    <2>3. QED
      BY <1>1, <1>4, <2>1, <2>2, OneSet, ToSaveWorks DEF SetAgentModel
  <1>5. CASE SetAgentPersona
    <2>1. PICK a \in DOMAIN profiles :
            personas' = personas \cup {a} /\ ToSave([profiles EXCEPT ![a].persona = TRUE])
      BY <1>5 DEF SetAgentPersona
    <2>2. [profiles[a] EXCEPT !.persona = TRUE] \in Profile
      BY <1>1 DEF Profile
    <2>3. QED
      BY <1>1, <2>1, <2>2, OneSet, ToSaveWorks
  <1>6. QED
    BY <1>2, <1>3, <1>4, <1>5

LEMMA CommandsWork ==
    ASSUME WorkInv, Commands PROVE AgentsMove /\ WorkMove
  <1>1. /\ Extends(profiles) /\ personas \subseteq DOMAIN profiles
        /\ current.agent \in DOMAIN profiles
        /\ current = [agent |-> current.agent, session |-> current.session]
    BY ProfilesStand DEF WorkInv
  <1>2. CASE StartNewSession
    <2>1. current' = current \/ current' = [agent |-> current.agent, session |-> Len(sessions) + 1]
      BY <1>2 DEF StartNewSession, Opens, placeVars
    <2>2. Free /\ UNCHANGED <<frames, flag, request, registryVars>>
      BY <1>2 DEF StartNewSession, Command, Arrives, loopVars
    <2>3. QED
      BY <1>1, <2>1, <2>2, CommandWorks
  <1>3. CASE ResumeSession
    <2>1. PICK s : current' = [current EXCEPT !.session = s]
      BY <1>3 DEF ResumeSession
    <2>2. Free /\ UNCHANGED <<frames, flag, request, registryVars>>
      BY <1>3 DEF ResumeSession, Command, Arrives, loopVars
    <2>3. current' = [agent |-> current.agent, session |-> s]
      BY <1>1, <2>1
    <2>4. QED
      BY <1>1, <2>2, <2>3, CommandWorks
  <1>4. CASE DeleteSession
    <2>1. current' = current
          \/ \E s : current' = [agent |-> current.agent, session |-> s]
      BY <1>4 DEF DeleteSession, Opens, placeVars
    <2>2. Free /\ UNCHANGED <<frames, flag, request, registryVars>>
      BY <1>4 DEF DeleteSession, Command, Arrives, loopVars
    <2>3. QED
      BY <1>1, <2>1, <2>2, CommandWorks
  <1>5. CASE UseAgent
    <2>1. PICK a \in DOMAIN profiles :
            \/ current' = [agent |-> a, session |-> Len(sessions) + 1]
            \/ current' = [current EXCEPT !.agent = a]
      BY <1>5 DEF UseAgent, Opens
    <2>2. current' = [agent |-> current'.agent, session |-> current'.session] /\ current'.agent = a
      BY <1>1, <2>1
    <2>3. Free /\ UNCHANGED <<frames, flag, request, registryVars>>
      BY <1>5 DEF UseAgent, Command, Arrives, loopVars
    <2>4. QED
      BY <2>2, <2>3, CommandWorks
  <1>6. CASE Show \/ UseSkill \/ DropSkill \/ ReloadSkills \/ ConfigCommand
    <2>1. Free /\ UNCHANGED <<frames, flag, request, registryVars>> /\ current' = current
      BY <1>6 DEF Show, UseSkill, DropSkill, ReloadSkills, ConfigCommand, Command, Arrives,
         loopVars, placeVars
    <2>2. QED
      BY <2>1, CommandWorks
  <1>7. CASE CreateAgent \/ SetAgentTools \/ SetAgentModel \/ SetAgentPersona
    BY <1>7, AgentCommandsWork
  <1>8. CASE Receive
    <2>1. Idle /\ request.stage = "none" /\ UNCHANGED <<frames, flag, registryVars, current>>
      BY <1>8 DEF Receive, Arrives, Free, loopVars, ServeRest, placeVars
    <2>2. QED
      BY <2>1 DEF AgentsMove, WorkMove, registryVars
  <1>9. CASE StartAgents
    <2>1. /\ Idle /\ request.stage = "none" /\ UNCHANGED <<registryVars, current, profiles>>
          /\ request'.stage = "agents"
      BY <1>9 DEF StartAgents, Arrives, Free, NoRequest, ServeRest, placeVars, registryVars
    <2>2. Begins
      <3>1. <<>> \in Seq(Waiting(Main)) /\ Main \in Threads
        BY EmptySeq DEF Threads
      <3>2. CASE \E a \in DOMAIN profiles : Started(a, FALSE, NoTool)
        <4>1. PICK a \in DOMAIN profiles : Started(a, FALSE, NoTool)
          BY <3>2
        <4>2. PICK hard \in BOOLEAN : \E run \in Activations(a, FALSE, hard, NoTool) :
                frames' = [frames EXCEPT ![Main] = run]
          BY <4>1 DEF Started
        <4>3. PICK run \in Activations(a, FALSE, hard, NoTool) :
                frames' = [frames EXCEPT ![Main] = run]
          BY <4>2
        <4>4. Pushed(Main, run)
          <5>1. NoTool \in Tools \cup {NoTool} /\ FALSE \in BOOLEAN
            OBVIOUS
          <5>2. QED
            BY <3>1, <5>1, Activated DEF WorkInv
        <4>5. QED
          BY <2>1, <4>3, <4>4 DEF Begins, Pushed, Plain
      <3>3. ASSUME NEW kind \in {"chain", "team"}, NEW party \in Parties,
                   frames' = [frames EXCEPT ![Main] = <<ListFrame(kind, party)>>]
            PROVE  Begins
        <4> DEFINE g == ListFrame(kind, party)
        <4>1. g \in Fitting(Main) /\ g.kind = kind
          BY ListStarts
        <4> HIDE DEF g
        <4>2. <<g>> = Append(<<>>, g)
          BY <4>1
        <4>3. frames' = [frames EXCEPT ![Main] = Append(<<>>, g)]
          BY <3>3, <4>2 DEF g
        <4>4. QED
          BY <2>1, <3>1, <4>1, <4>3 DEF Begins
      <3>4. QED
        BY <1>9, <3>2, <3>3 DEF StartAgents
    <2>3. QED
      BY <2>1, <2>2 DEF AgentsMove, WorkMove
  <1>10. QED
    BY <1>2, <1>3, <1>4, <1>5, <1>6, <1>7, <1>8, <1>9 DEF Commands

\* Frames are at work for a request.
LEMMA WorksForOne ==
    ASSUME LoopInv, NEW t \in Threads, frames[t] # <<>> PROVE ~Idle
  <1>1. CASE t = Main
    BY <1>1 DEF Idle
  <1>2. CASE t # Main
    BY <1>2 DEF LoopInv, PoolFits, Busy, Threads
  <1>3. QED
    BY <1>1, <1>2

LEMMA StandsStill ==
    ASSUME UNCHANGED <<frames, flag, request, current, registryVars>> PROVE AgentsMove /\ WorkMove
  BY DEF AgentsMove, WorkMove, registryVars

\* Steps of a request at whose stage nothing is at work.
LEMMA StagesWork ==
    ASSUME WorkInv, UNCHANGED <<frames, flag, current, registryVars>>,
           Idle, request.stage # "to save"
    PROVE  AgentsMove /\ WorkMove
  BY DEF AgentsMove, WorkMove, registryVars

LEMMA ServingWorks ==
    ASSUME WorkInv, Serving PROVE AgentsMove /\ WorkMove
  <1>1. request.stage \notin {"loop", "agents"} => Idle
    BY DEF WorkInv, StagesFit
  <1>2. CASE ConfigSaved
    BY <1>2, StandsStill DEF ConfigSaved, loopVars, placeVars, servedVars
  <1>3. CASE OpenAgentsFile \/ WriteAgentsFile
    <2>1. UNCHANGED <<frames, flag, profiles>> /\ Idle
      BY <1>1, <1>3 DEF OpenAgentsFile, WriteAgentsFile, SaveRest, loopVars
    <2>2. QED
      BY <1>3, <2>1 DEF AgentsMove, WorkMove
  <1>4. CASE SaveUserRow
    <2>1. /\ Idle /\ request.stage = "begun" /\ UNCHANGED <<registryVars, current, profiles>>
      BY <1>1, <1>4 DEF SaveUserRow, ServeRest, placeVars, registryVars
    <2>2. CASE UNCHANGED loopVars
      BY <2>1, <2>2, StagesWork DEF loopVars
    <2>3. CASE request' = [request EXCEPT !.stage = "loop"]
               /\ Started(current.agent, request.stream, request.first)
      <3>1. /\ <<>> \in Seq(Waiting(Main)) /\ Main \in Threads
            /\ current.agent \in DOMAIN profiles /\ request.stream \in BOOLEAN
            /\ request.first \in Tools \cup {NoTool} /\ request'.stage = "loop"
        BY <2>3, EmptySeq DEF Threads, WorkInv, AgentsFit, RequestsFit, Request
      <3>2. PICK hard \in BOOLEAN :
              \E run \in Activations(current.agent, request.stream, hard, request.first) :
                  frames' = [frames EXCEPT ![Main] = run]
        BY <2>3 DEF Started
      <3>3. PICK run \in Activations(current.agent, request.stream, hard, request.first) :
              frames' = [frames EXCEPT ![Main] = run]
        BY <3>2
      <3>4. Pushed(Main, run)
        BY <3>1, Activated DEF WorkInv
      <3>5. Begins
        BY <2>1, <3>3, <3>4 DEF Begins, Pushed, Plain
      <3>6. QED
        BY <2>1, <3>1, <3>5 DEF AgentsMove, WorkMove
    <2>4. QED
      BY <1>4, <2>2, <2>3 DEF SaveUserRow
  <1>5. CASE ChatAnswers \/ SaveAnswer \/ Count \/ Trim \/ Learn
    <2>1. /\ request.stage \in {"asked", "answer", "count", "trim", "learn"}
          /\ UNCHANGED <<frames, flag, current, registryVars>>
      BY <1>5 DEF ChatAnswers, SaveAnswer, Count, Trim, Learn, ServeRest, loopVars, placeVars
    <2>2. QED
      BY <1>1, <2>1, StagesWork
  <1>6. CASE LoopAnswers \/ AgentsAnswer
    <2>1. /\ request.stage \in {"loop", "agents"} /\ Idle
          /\ UNCHANGED <<frames, flag, current, registryVars>>
      BY <1>6 DEF LoopAnswers, AgentsAnswer, ServeRest, loopVars, placeVars
    <2>2. QED
      BY <2>1, StagesWork
  <1>7. QED
    BY <1>2, <1>3, <1>4, <1>5, <1>6 DEF Serving

LEMMA LoopingWorks ==
    ASSUME WorkInv, NEW t \in Threads, Looping(t) PROVE AgentsMove /\ WorkMove
  <1>1. LoopInv /\ ~Idle /\ frames[t] # <<>> /\ request.stage \in {"loop", "agents"}
    BY WorksForOne DEF WorkInv, StagesFit, Looping
  <1>2. CASE LoopSteps(t)
    <2>1. LoopStep(t) /\ UNCHANGED <<profiles, agentsFile, unsaved, personas, current, request>>
      BY <1>2 DEF LoopSteps, LoopStep, placeVars, servedVars
    <2>2. Returns(t) \/ Passes
      BY <1>1, <2>1, LoopStepMoves
    <2>3. QED
      BY <1>1, <2>1, <2>2 DEF AgentsMove, WorkMove, registryVars
  <1>3. ASSUME UNCHANGED <<profiles, agentsFile, unsaved, personas, current, request>>, Moves(t)
        PROVE  AgentsMove /\ WorkMove
    BY <1>1, <1>3 DEF AgentsMove, WorkMove, registryVars, Returns
  <1>4. CASE ClearInLoop(t) \/ ForgetInLoop(t) \/ RememberInLoop(t) \/ ConfigureInLoop(t)
    <2>1. UNCHANGED <<profiles, agentsFile, unsaved, personas, current, request>>
      BY <1>4 DEF ClearInLoop, ForgetInLoop, RememberInLoop, ConfigureInLoop, RouteRest,
         registryVars, placeVars, servedVars
    <2>2. Moves(t)
      BY <1>1, <1>4, AtOnceMoves DEF ClearInLoop, ForgetInLoop, RememberInLoop, ConfigureInLoop
    <2>3. QED
      BY <1>3, <2>1, <2>2
  <1>5. CASE ChatInLoop(t)
    <2>1. UNCHANGED <<profiles, agentsFile, unsaved, personas, current, request, registryVars>>
      BY <1>5, ChatRests DEF RouteRest, registryVars, placeVars, servedVars
    <2>2. CASE ChatAsks(t) \/ ChatReplies(t) \/ ChatCounts(t)
      <3>1. UNCHANGED <<frames, flag>>
        BY <2>2 DEF ChatAsks, ChatReplies, ChatCounts, loopVars
      <3>2. QED
        BY <2>1, <3>1, StandsStill
    <2>3. CASE ChatRefuses(t) \/ ChatTrims(t)
      <3>1. RouteChat(t) \/ (Routes(t, "CHAT") /\ Judged(t, "text") /\ "text" \in Texts)
        BY <2>3 DEF ChatRefuses, ChatTrims, Texts
      <3>2. Moves(t)
        BY <1>1, <3>1, AtOnceMoves, JudgedMoves
      <3>3. QED
        BY <1>3, <2>1, <3>2
    <2>4. QED
      BY <1>5, <2>2, <2>3 DEF ChatInLoop
  <1>6. CASE RouteBreaks(t)
    <2>1. UNCHANGED <<profiles, agentsFile, unsaved, personas, current>> /\ Top(t).kind = "legacy"
      BY <1>6 DEF RouteBreaks, registryVars, placeVars
    <2>2. CASE t = Main
      <3>1. Empties
        BY <1>1, <1>6, <2>1, <2>2 DEF RouteBreaks, Empties
      <3>2. QED
        BY <1>1, <2>1, <3>1 DEF AgentsMove, WorkMove, registryVars
    <2>3. CASE t # Main
      <3>1. t \in Workers /\ "failure" \in Texts
        BY <2>3 DEF Threads, Texts
      <3>2. Returns(t) /\ request' = request
        BY <1>1, <1>6, <2>3, <3>1 DEF RouteBreaks, Returns, Frees
      <3>3. QED
        BY <1>1, <2>1, <3>2 DEF AgentsMove, WorkMove, registryVars
    <2>4. QED
      BY <2>2, <2>3
  <1>7. QED
    BY <1>2, <1>4, <1>5, <1>6 DEF Looping

LEMMA LeavesWorks ==
    ASSUME WorkInv, Leaves PROVE AgentsMove /\ WorkMove
  <1>1. /\ UNCHANGED <<profiles, agentsFile, unsaved, personas, current>>
        /\ request.stage \in {"asked", "answer", "loop"}
    BY DEF Leaves, ServeRest, registryVars, placeVars
  <1>2. CASE UNCHANGED loopVars /\ request.stage \in {"asked", "answer"}
    BY <1>1, <1>2, StagesWork DEF WorkInv, StagesFit, loopVars, registryVars
  <1>3. ASSUME NEW text \in Texts, Len(frames[Main]) = 1, Leave(Main, text, status),
               Top(Main).kind = "run"
        PROVE  AgentsMove /\ WorkMove
    <2>1. frames[Main] # <<>> /\ Main \in Threads
      BY <1>3 DEF Threads
    <2>2. Front(frames[Main]) = <<>>
      <3>1. Front(frames[Main]) = SubSeq(frames[Main], 1, 0)
        BY <1>3 DEF Front
      <3>2. QED
        BY <3>1
    <2>3. frames' = [frames EXCEPT ![Main] = <<>>]
      BY <1>3, <2>2 DEF Leave
    <2>4. Empties
      BY <1>3, <2>1, <2>3 DEF Empties, Idle
    <2>5. QED
      BY <1>1, <2>4 DEF AgentsMove, WorkMove, registryVars
  <1>4. QED
    BY <1>2, <1>3 DEF Leaves

LEMMA WorkSteps ==
    ASSUME WorkInv, [Next]_brainVars PROVE AgentsMove /\ WorkMove
  <1>1. CASE UNCHANGED brainVars
    BY <1>1, StandsStill DEF brainVars, loopVars, placeVars, servedVars
  <1>2. CASE Commands
    BY <1>2, CommandsWork
  <1>3. CASE Serving
    BY <1>3, ServingWorks
  <1>4. ASSUME NEW t \in Threads, Looping(t) PROVE AgentsMove /\ WorkMove
    BY <1>4, LoopingWorks
  <1>5. ASSUME NEW w \in Workers, PoolSteps(w) PROVE AgentsMove /\ WorkMove
    <2>1. /\ UNCHANGED <<profiles, agentsFile, unsaved, personas, current, request>>
          /\ PoolTakes(w)
      BY <1>5 DEF PoolSteps, registryVars, placeVars, servedVars
    <2>2. Takes(w)
      BY <2>1, PoolTakesMoves DEF WorkInv
    <2>3. QED
      BY <2>1, <2>2 DEF AgentsMove, WorkMove, registryVars
  <1>6. CASE Background
    <2>1. UNCHANGED <<frames, flag, request, current, registryVars>>
      BY <1>6 DEF Background, Extract, Summarize, TaskRest, loopVars, placeVars, servedVars
    <2>2. QED
      BY <2>1, StandsStill
  <1>7. CASE Leaves
    BY <1>7, LeavesWorks
  <1>8. CASE FinalizeFails
    <2>1. /\ UNCHANGED <<frames, flag, current, registryVars>>
          /\ request.stage \in {"answer", "count", "trim"}
      BY <1>8 DEF FinalizeFails, ServeRest, loopVars, placeVars
    <2>2. QED
      BY <2>1, StagesWork DEF WorkInv, StagesFit
  <1>9. CASE Restart
    BY <1>9 DEF AgentsMove, WorkMove
  <1>10. QED
    BY <1>1, <1>2, <1>3, <1>4, <1>5, <1>6, <1>7, <1>8, <1>9 DEF Next, Serves

\* What they do keeps the frames in order.
LEMMA WorkNext ==
    ASSUME WorkInv, AgentsFit', UNCHANGED inputs, WorkMove PROVE LoopInv' /\ StagesFit'
  <1>1. LoopInv /\ AgentsFit /\ StagesFit
    BY DEF WorkInv
  <1>2. ProfilesFit' /\ (messages \subseteq Messages)' /\ (calling \in BOOLEAN)'
    BY <1>1 DEF AgentsFit, LoopInv, inputs
  <1>3. CASE UNCHANGED <<frames, flag, profiles>> /\ (~Idle => request'.stage = request.stage)
    <2>1. \A t : Stacks(t)' = Stacks(t)
      BY <1>3, StacksStay
    <2>2. /\ Idle' = Idle /\ Busy' = Busy /\ Top(Main)' = Top(Main)
      BY <1>3 DEF Idle, Busy, Top
    <2>3. FramesFit'
      BY <1>1, <1>3, <2>1 DEF LoopInv, FramesFit
    <2>4. PoolFits' /\ FlagFits'
      BY <1>1, <1>3, <2>2 DEF LoopInv, PoolFits, FlagFits
    <2>5. StagesFit'
      BY <1>1, <1>3, <2>2 DEF StagesFit
    <2>6. QED
      BY <1>2, <2>3, <2>4, <2>5 DEF LoopInv
  <1>4. CASE Idle /\ UNCHANGED frames
    <2>1. frames' = [t \in Threads |-> <<>>]
      BY <1>1, <1>4, Resting DEF LoopInv, FramesFit
    <2>2. QED
      BY <1>2, <2>1, NothingWorks DEF LoopInv, StagesFit
  <1>5. CASE Begins /\ UNCHANGED profiles /\ request'.stage \in {"loop", "agents"}
    BY <1>1, <1>2, <1>5, StartsFit DEF LoopInv, StagesFit
  <1>6. ASSUME NEW t \in Threads, frames[t] # <<>>, Returns(t) \/ Passes,
               UNCHANGED <<profiles, request>>
        PROVE  LoopInv' /\ StagesFit'
    <2>1. (FramesFit /\ PoolFits /\ FlagFits)'
      BY <1>1, <1>6, ReturnsFit
    <2>2. StagesFit'
      BY <1>1, <1>6, WorksForOne DEF StagesFit
    <2>3. QED
      BY <1>2, <2>1, <2>2 DEF LoopInv
  <1>7. ASSUME NEW w \in Workers, Takes(w), UNCHANGED <<profiles, request>>
        PROVE  LoopInv' /\ StagesFit'
    <2>1. (FramesFit /\ PoolFits /\ FlagFits)'
      BY <1>1, <1>7, TakesFit
    <2>2. ~Idle
      BY <1>7 DEF Takes
    <2>3. StagesFit'
      BY <1>1, <1>7, <2>2 DEF StagesFit
    <2>4. QED
      BY <1>2, <2>1, <2>3 DEF LoopInv
  <1>8. CASE Empties /\ UNCHANGED profiles
    <2>1. (FramesFit /\ PoolFits /\ FlagFits)'
      BY <1>1, <1>8, EmptiesFit
    <2>2. Idle'
      <3>1. Main \in Threads
        BY DEF Threads
      <3>2. QED
        BY <1>1, <1>8, <3>1 DEF Empties, Idle, LoopInv, FramesFit
    <2>3. QED
      BY <1>2, <2>1, <2>2 DEF LoopInv, StagesFit
  <1>9. CASE Restart
    <2>1. frames' = [t \in Threads |-> <<>>]
      BY <1>9 DEF Restart
    <2>2. QED
      BY <1>2, <2>1, NothingWorks DEF LoopInv, StagesFit
  <1>10. QED
    BY <1>3, <1>4, <1>5, <1>6, <1>7, <1>8, <1>9 DEF WorkMove

LEMMA WorkStart ==
    ASSUME Init PROVE WorkInv
  <1>1. /\ left \in Mixes /\ calling = left.calling /\ messages = left.messages
        /\ frames = [t \in Threads |-> <<>>]
        /\ personas \in {{}, DOMAIN BuiltIn}
        /\ agentsFile = [whole |-> TRUE, agents |-> <<>>]
        /\ profiles = Loaded(agentsFile, personas)
        /\ current = [agent |-> DefaultAgent, session |-> 1]
        /\ request = NoRequest
    BY DEF Init, LoopInit
  <1>2. RequestsFit
    <2>1. left \in Mix
      BY <1>1, BrainAssumption
    <2>2. left \in Allowance
      BY <2>1 DEF Mix, Allowance
    <2>3. NoRequest \in Request
      BY DEF NoRequest, Request, Stages
    <2>4. QED
      BY <1>1, <2>2, <2>3 DEF RequestsFit
  <1>3. AgentsFit
    <2>1. /\ agentsFile.agents = <<>> /\ agentsFile.whole = TRUE /\ personas \subseteq Agents
          /\ agentsFile.agents \in [DOMAIN agentsFile.agents -> Profile]
          /\ DOMAIN agentsFile.agents \subseteq Agents
      BY <1>1, NothingFits, BrainAssumption
    <2>2. LET new == Loaded(agentsFile, personas)
          IN  /\ new \in [DOMAIN new -> Profile] /\ DOMAIN new \subseteq Agents
              /\ DefaultAgent \in DOMAIN new /\ personas \subseteq DOMAIN new
      BY <2>1, LoadedFits
    <2> HIDE DEF Loaded
    <2>3. QED
      BY <1>1, <2>1, <2>2 DEF AgentsFit, ProfilesFit
  <1>4. LoopInv /\ StagesFit
    <2>1. Main \in Threads /\ Workers \subseteq Threads
      BY DEF Threads
    <2>2. Idle /\ Busy = {}
      BY <1>1, <2>1 DEF Idle, Busy
    <2>3. FramesFit
      <3>1. \A t \in Threads : frames[t] = <<>> /\ <<>> \in Stacks(t)
        BY <1>1 DEF Stacks
      <3>2. QED
        BY <1>1, <3>1 DEF FramesFit
    <2>4. messages \subseteq Messages /\ calling \in BOOLEAN
      BY <1>1, BrainAssumption DEF Mix
    <2>5. QED
      BY <1>3, <2>2, <2>3, <2>4 DEF LoopInv, PoolFits, FlagFits, StagesFit, AgentsFit
  <1>5. RegistryFits
    BY <1>1 DEF RegistryFits
  <1>6. QED
    BY <1>2, <1>3, <1>4, <1>5 DEF WorkInv

LEMMA WorkKept ==
    ASSUME WorkInv, [Next]_brainVars PROVE WorkInv'
  <1>1. RequestsFit'
    BY RequestsMove, RequestsNext DEF WorkInv
  <1>2. AgentsFit' /\ RegistryFits'
    BY WorkSteps, AgentsNext DEF WorkInv
  <1>3. LoopInv' /\ StagesFit'
    BY <1>2, WorkSteps, WorkNext, InputsStay
  <1>4. QED
    BY <1>1, <1>2, <1>3 DEF WorkInv

\* What the frames of a thread are.
LEMMA FramesOf ==
    ASSUME LoopInv, NEW t \in Threads, NEW i \in DOMAIN frames[t]
    PROVE  frames[t][i] \in Fitting(t)
  <1>1. frames[t] \in Stacks(t) /\ frames[t] # <<>>
    BY DEF LoopInv, FramesFit
  <1>2. frames[t] \in Seq(Fitting(t))
    BY <1>1, TopAndRest
  <1>3. QED
    BY <1>2, ElementOfSeq, LenProperties

LEMMA BoundedTools ==
    ASSUME LoopInv PROVE ToolsBounded
  <1> SUFFICES ASSUME NEW t \in Threads, NEW i \in DOMAIN frames[t],
                      frames[t][i].kind \in {"run", "legacy"}
               PROVE  /\ Len(frames[t][i].acts) <= profiles[frames[t][i].agent].turns + 1
                      /\ Unrepeated(frames[t][i].acts)
    BY DEF ToolsBounded, Unrepeated
  <1> DEFINE f == frames[t][i]
  <1>1. f \in AllFrames /\ Fits(f)
    BY FramesOf DEF Fitting
  <1> HIDE DEF f
  <1>2. Unrepeated(f.acts) /\ f.turn <= profiles[f.agent].turns
    <2>1. f.kind \in {"run", "legacy"}
      BY DEF f
    <2>2. QED
      BY <1>1, <2>1 DEF Fits
  <1>3. CASE f.kind = "run"
    <2>1. f \in RunFrames
      BY <1>1, <1>3, Kinds
    <2>2. Len(f.acts) \in Nat /\ f.turn \in Nat /\ f.agent \in DOMAIN profiles
      BY <2>1, LenProperties DEF RunFrames, RunActs
    <2>3. profiles[f.agent].turns \in Nat
      BY <2>2 DEF LoopInv, ProfilesFit, Profile
    <2>4. Len(f.acts) <= f.turn + IF f.pc \in {"asked", "tool"} THEN 0 ELSE 1
      BY <1>1, <1>3 DEF Fits
    <2>5. QED
      BY <1>2, <2>2, <2>3, <2>4 DEF f
  <1>4. CASE f.kind = "legacy"
    <2>1. f \in LegacyFrames
      BY <1>1, <1>4, Kinds
    <2>2. Len(f.acts) \in Nat /\ f.turn \in Nat /\ f.agent \in DOMAIN profiles
      BY <2>1, LenProperties DEF LegacyFrames, LegacyActs
    <2>3. profiles[f.agent].turns \in Nat
      BY <2>2 DEF LoopInv, ProfilesFit, Profile
    <2>4. Len(f.acts) + (IF f.pc = "decide" THEN 0 ELSE 1) <= f.turn
      BY <1>1, <1>4 DEF Fits
    <2>5. Len(f.acts) <= f.turn
      <3>1. CASE f.pc = "decide"
        <4>1. Len(f.acts) + 0 <= f.turn
          BY <2>4, <3>1
        <4>2. QED
          BY <2>2, <4>1
      <3>2. CASE f.pc # "decide"
        <4>1. Len(f.acts) + 1 <= f.turn
          BY <2>4, <3>2
        <4>2. QED
          BY <2>2, <4>1
      <3>3. QED
        BY <3>1, <3>2
    <2>6. Len(f.acts) <= profiles[f.agent].turns + 1
      BY <1>2, <2>2, <2>3, <2>5
    <2>7. QED
      BY <1>2, <2>6 DEF f
  <1>5. QED
    BY <1>3, <1>4 DEF f

\* The agents that the file, and the program, give a new process are those of
\* this one, and the frames of every thread are in order, whatever is asked,
\* fails, is left, or ends (agent_registry.py, agent_loop.py, orchestrator.py).
THEOREM WorkHolds == Spec => []WorkInv
  <1>1. Init => WorkInv
    BY WorkStart
  <1>2. WorkInv /\ [Next]_brainVars => WorkInv'
    BY WorkKept
  <1>3. QED
    BY <1>1, <1>2, PTL DEF Spec

\* The agents of a process that starts now would be those of this one, unless
\* the file could not be written or was cut short (agent_registry.py).
THEOREM RegistryKept == Spec => []RegistryFits
  <1>1. WorkInv => RegistryFits
    BY DEF WorkInv
  <1>2. QED
    BY <1>1, WorkHolds, PTL

\* A run, in any thread and at any depth, uses a tool in each of its turns at
\* most, and one before them, and none after it failed twice (agent_loop.py).
THEOREM ToolsAreBounded == Spec => []ToolsBounded
  <1>1. WorkInv => ToolsBounded
    BY BoundedTools DEF WorkInv
  <1>2. QED
    BY <1>1, WorkHolds, PTL

\* In the request's own thread, what a model says that was only asked to choose
\* a tool is no answer, but after the call of a tool that does not exist, though
\* the mark is shared by every run (agent_loop.py _last_call_used_tool_fallback).
THEOREM WordsAreOwn == Spec => []OwnWords
  <1>1. WorkInv => OwnWords
    <2> SUFFICES ASSUME WorkInv PROVE OwnWords
      OBVIOUS
    <2>1. Main \in Threads
      BY DEF Threads
    <2>2. \A i \in DOMAIN frames[Main] : frames[Main][i] \in Fitting(Main)
      BY <2>1, FramesOf DEF WorkInv
    <2>3. QED
      BY <2>2 DEF OwnWords, Fitting
  <1>2. QED
    BY <1>1, WorkHolds, PTL

\* The tool that the legacy loop takes, in any thread and at any depth, is the
\* one that was decided on, though the decision is made on the message with what
\* was done, and the tool is told from the message alone, by other tests in
\* another order (decision_engine.py, router.py); but for "find in", for a search
\* of the web, which may become another search, and for what was left to the
\* classifier, which may be any tool that has not to be asked for by name.
THEOREM RoutesAreDecided == Spec => []RoutedAsDecided
  <1>1. WorkInv => RoutedAsDecided
    <2> SUFFICES ASSUME WorkInv, NEW t \in Threads, NEW i \in DOMAIN frames[t],
                        frames[t][i].kind = "legacy", frames[t][i].pc = "route"
                 PROVE  Routed(frames[t][i])
      BY DEF RoutedAsDecided, Routed, Taken
    <2>1. Fits(frames[t][i])
      BY FramesOf DEF WorkInv, Fitting
    <2>2. QED
      BY <2>1 DEF Fits
  <1>2. QED
    BY <1>1, WorkHolds, PTL

-----------------------------------------------------------------------------
(* The sessions, and the skills active in them. *)

SessionRows ==
    [agent : Agents, count : Int, summary : BOOLEAN, state : {"live", "deleted", "lost"},
     behind : Int]

SessionsFit ==
    /\ sessions \in Seq(SessionRows)
    /\ current.session \in DOMAIN sessions /\ skills \subseteq DOMAIN sessions
    /\ PlaceFits

\* Where the prompt may have a skill in it.
Guided == request.stage = "asked" \/ (request.stage = "loop" /\ calling)

SkillsInv == WorkInv /\ SessionsFit /\ SkillsFit

\* How a step may change the sessions ...
SameStates ==
    /\ sessions' \in Seq(SessionRows) /\ DOMAIN sessions' = DOMAIN sessions
    /\ \A s \in DOMAIN sessions : sessions'[s].state = sessions[s].state
    /\ UNCHANGED placeVars

SessionsMove ==
    SameStates \/ StartNewSession \/ ResumeSession \/ DeleteSession \/ UseAgent \/ Restart

\* ... and the skills.
Drops == (skills' \subseteq skills /\ UNCHANGED loaded) \/ Rereads

SkillsMove ==
    Drops \/ UseSkill \/ Restart

GuideMove ==
    Guided' =>
        /\ UNCHANGED <<current, profiles>>
        /\ \/ Guided /\ Drops
           \/ skills' = StillFits(current.agent, current.session) /\ UNCHANGED loaded

LEMMA OneRowSet ==
    ASSUME NEW S, NEW q \in Seq(S), NEW s, NEW row, s \in DOMAIN q => row \in S
    PROVE  /\ [q EXCEPT ![s] = row] \in Seq(S)
           /\ DOMAIN [q EXCEPT ![s] = row] = DOMAIN q /\ Len([q EXCEPT ![s] = row]) = Len(q)
           /\ \A i \in DOMAIN q : [q EXCEPT ![s] = row][i] = IF i = s THEN row ELSE q[i]
  <1>1. DOMAIN q = 1..Len(q) /\ Len(q) \in Nat
    BY LenProperties
  <1>2. CASE s \in 1..Len(q)
    BY <1>1, <1>2, ExceptSeq
  <1>3. CASE s \notin 1..Len(q)
    <2>1. [q EXCEPT ![s] = row] = q
      BY <1>1, <1>3
    <2>2. QED
      BY <1>1, <1>3, <2>1
  <1>4. QED
    BY <1>2, <1>3

LEMMA RowsStand ==
    ASSUME sessions \in Seq(SessionRows), NEW s \in DOMAIN sessions
    PROVE  sessions[s] \in SessionRows
  BY ElementOfSeq, LenProperties

LEMMA RowChanged ==
    ASSUME sessions \in Seq(SessionRows), UNCHANGED placeVars, NEW s, NEW row,
           s \in DOMAIN sessions => row \in SessionRows /\ row.state = sessions[s].state,
           sessions' = [sessions EXCEPT ![s] = row]
    PROVE  SameStates
  BY OneRowSet DEF SameStates

LEMMA NoRowChanged ==
    ASSUME sessions \in Seq(SessionRows), UNCHANGED <<sessions, placeVars>> PROVE SameStates
  BY DEF SameStates

LEMMA CountedRow ==
    ASSUME sessions \in Seq(SessionRows), UNCHANGED placeVars, NEW s, sessions' = Counted(s)
    PROVE  SameStates
  <1> DEFINE row == [sessions[s] EXCEPT !.count = @ + 2]
  <1>1. ASSUME s \in DOMAIN sessions PROVE row \in SessionRows /\ row.state = sessions[s].state
    <2>1. sessions[s] \in SessionRows
      BY <1>1, RowsStand
    <2>2. sessions[s].count + 2 \in Int
      BY <2>1 DEF SessionRows
    <2>3. QED
      BY <2>1, <2>2 DEF SessionRows
  <1>2. sessions' = [sessions EXCEPT ![s] = row]
    BY DEF Counted
  <1> HIDE DEF row
  <1>3. QED
    BY <1>1, <1>2, RowChanged

\* The threads whose answer for the router is stored, and not counted.
Replied(c) == {t \in Threads : c[t] = "answer"}

LEMMA RepliedIs ==
    ASSUME NEW c PROVE IsFiniteSet(Replied(c)) /\ Cardinality(Replied(c)) \in Nat
  <1>1. IsFiniteSet(Workers)
    BY LoopAssumption
  <1>2. IsFiniteSet(Workers \cup {Main})
    BY <1>1, FS_AddElement
  <1>3. Replied(c) \subseteq Workers \cup {Main}
    BY DEF Replied, Threads
  <1>4. QED
    BY <1>2, <1>3, FS_Subset, FS_CardinalityType

LEMMA UncountedIs ==
    /\ \A s : Uncounted(s) = (IF request.stage = "count" /\ s = Place THEN 1 ELSE 0)
                                + IF s = chatSession THEN Cardinality(Replied(chats)) ELSE 0
    /\ \A s : Uncounted(s) \in Nat
  <1>1. Cardinality(Replied(chats)) \in Nat
    BY RepliedIs
  <1>2. \A s : Uncounted(s) = (IF request.stage = "count" /\ s = Place THEN 1 ELSE 0)
                                  + IF s = chatSession THEN Cardinality(Replied(chats)) ELSE 0
    BY DEF Uncounted, Replied
  <1> HIDE DEF Uncounted
  <1>3. \A s : Uncounted(s) \in Nat
    BY <1>1, <1>2
  <1>4. QED
    BY <1>2, <1>3

LEMMA BehindRow ==
    ASSUME NEW row \in SessionRows, NEW n \in Nat
    PROVE  /\ [row EXCEPT !.behind = @ + n] \in SessionRows
           /\ [row EXCEPT !.behind = @ + n].count = row.count
           /\ [row EXCEPT !.behind = @ + n].behind = row.behind + n
           /\ [row EXCEPT !.behind = @ + n].state = row.state
  <1>1. row.behind + n \in Int
    BY DEF SessionRows
  <1>2. [row EXCEPT !.behind = @ + n] \in SessionRows
    BY <1>1 DEF SessionRows
  <1>3. [row EXCEPT !.behind = @ + n].count = row.count
    BY DEF SessionRows
  <1>4. [row EXCEPT !.behind = @ + n].behind = row.behind + n
    BY DEF SessionRows
  <1>5. [row EXCEPT !.behind = @ + n].state = row.state
    BY DEF SessionRows
  <1>6. QED
    BY <1>2, <1>3, <1>4, <1>5

LEMMA BehindRows ==
    ASSUME sessions \in Seq(SessionRows)
    PROVE  /\ Behind \in Seq(SessionRows) /\ DOMAIN Behind = DOMAIN sessions
           /\ \A s \in DOMAIN sessions : Behind[s].state = sessions[s].state
  <1>1. DOMAIN sessions = 1..Len(sessions) /\ Len(sessions) \in Nat
    BY LenProperties
  <1>2. ASSUME NEW s \in DOMAIN sessions
        PROVE  Behind[s] \in SessionRows /\ Behind[s].state = sessions[s].state
    <2>1. sessions[s] \in SessionRows /\ Uncounted(s) \in Nat
      BY RowsStand, UncountedIs
    <2>2. Behind[s] = [sessions[s] EXCEPT !.behind = @ + Uncounted(s)]
      BY DEF Behind
    <2>3. QED
      BY <2>1, <2>2, BehindRow
  <1>3. DOMAIN Behind = 1..Len(sessions)
    BY <1>1 DEF Behind
  <1>4. Behind = [s \in 1..Len(sessions) |-> Behind[s]]
    BY <1>1 DEF Behind
  <1>5. Behind \in [1..Len(sessions) -> SessionRows]
    BY <1>1, <1>2, <1>4
  <1>6. Behind \in Seq(SessionRows)
    BY <1>1, <1>5, SeqDef
  <1>7. QED
    BY <1>1, <1>2, <1>3, <1>6

\* What an answer of the router's chat leaves behind.
LEMMA BehindOne ==
    ASSUME sessions \in Seq(SessionRows), UNCHANGED placeVars, NEW s,
           sessions' = [sessions EXCEPT ![s].behind = @ + 1]
    PROVE  SameStates
  <1> DEFINE row == [sessions[s] EXCEPT !.behind = @ + 1]
  <1>1. ASSUME s \in DOMAIN sessions PROVE row \in SessionRows /\ row.state = sessions[s].state
    BY <1>1, RowsStand, BehindRow
  <1>2. sessions' = [sessions EXCEPT ![s] = row]
    OBVIOUS
  <1> HIDE DEF row
  <1>3. QED
    BY <1>1, <1>2, RowChanged

LEMMA SummedRow ==
    ASSUME sessions \in Seq(SessionRows), UNCHANGED placeVars, NEW s,
           sessions' = [sessions EXCEPT ![s].summary = TRUE]
    PROVE  SameStates
  <1> DEFINE row == [sessions[s] EXCEPT !.summary = TRUE]
  <1>1. ASSUME s \in DOMAIN sessions PROVE row \in SessionRows /\ row.state = sessions[s].state
    <2>1. sessions[s] \in SessionRows
      BY <1>1, RowsStand
    <2>2. QED
      BY <2>1 DEF SessionRows
  <1>2. sessions' = [sessions EXCEPT ![s] = row]
    OBVIOUS
  <1> HIDE DEF row
  <1>3. QED
    BY <1>1, <1>2, RowChanged

LEMMA PlaceIsCurrent ==
    ASSUME SessionsFit PROVE Place = current.session /\ chatSession = current.session
  BY DEF SessionsFit, PlaceFits, Place

\* A step that leaves the sessions and the skills, or only drops some.
LEMMA DropsOnly ==
    ASSUME UNCHANGED <<current, profiles, request, inputs>>, SameStates, Drops
    PROVE  SessionsMove /\ SkillsMove /\ GuideMove
  BY DEF SessionsMove, SkillsMove, GuideMove, Guided, inputs

\* A step at the end of which no prompt is being answered.
LEMMA NoneGuided ==
    ASSUME request'.stage \notin {"asked", "loop"}, SessionsMove, SkillsMove
    PROVE  SessionsMove /\ SkillsMove /\ GuideMove
  BY DEF GuideMove, Guided

LEMMA CommandsGuide ==
    ASSUME SkillsInv, Commands PROVE SessionsMove /\ SkillsMove /\ GuideMove
  <1>1. sessions \in Seq(SessionRows)
    BY DEF SkillsInv, SessionsFit
  <1>2. CASE \/ StartNewSession \/ ResumeSession \/ DeleteSession \/ UseAgent
    <2>1. request'.stage = "none"
      BY <1>2 DEF StartNewSession, ResumeSession, DeleteSession, UseAgent, Command, Arrives, Free
    <2>2. skills' \subseteq skills /\ UNCHANGED loaded
      BY <1>2 DEF StartNewSession, ResumeSession, DeleteSession, UseAgent, Deactivated, skillVars
    <2>3. QED
      BY <1>2, <2>1, <2>2, NoneGuided DEF SessionsMove, SkillsMove, Drops
  <1>3. CASE Show \/ UseSkill \/ DropSkill \/ ReloadSkills
    <2>1. request'.stage = "none" /\ UNCHANGED <<sessions, placeVars>>
      BY <1>3 DEF Show, UseSkill, DropSkill, ReloadSkills, Command, Arrives, Free, storeVars
    <2>2. SkillsMove
      BY <1>3 DEF Show, StillFits, DropSkill, ReloadSkills, Deactivated, SkillsMove, Drops
    <2>3. QED
      BY <1>1, <2>1, <2>2, NoRowChanged, NoneGuided DEF SessionsMove
  <1>4. CASE ConfigCommand
    <2>1. request'.stage = "none" /\ UNCHANGED <<sessions, placeVars>>
      BY <1>4 DEF ConfigCommand, Command, Arrives, Free, storeVars
    <2>2. SkillsMove
      BY <1>4 DEF ConfigCommand, Configure, skillVars, SkillsMove, Drops
    <2>3. QED
      BY <1>1, <2>1, <2>2, NoRowChanged, NoneGuided DEF SessionsMove
  <1>5. ASSUME UNCHANGED <<sessions, placeVars, skillVars>>,
               request'.stage \in {"none", "begun", "agents", "to save"}
        PROVE  SessionsMove /\ SkillsMove /\ GuideMove
    <2>1. SkillsMove
      BY <1>5 DEF skillVars, SkillsMove, Drops
    <2>2. QED
      BY <1>1, <1>5, <2>1, NoRowChanged, NoneGuided DEF SessionsMove
  <1>6. CASE CreateAgent \/ SetAgentTools \/ SetAgentModel \/ SetAgentPersona
    <2>1. PICK new : ToSave(new)
      BY <1>6 DEF CreateAgent, SetAgentTools, SetAgentModel, SetAgentPersona
    <2>2. QED
      BY <1>5, <2>1 DEF ToSave, NoRequest, storeVars
  <1>7. CASE Receive
    <2>1. UNCHANGED <<sessions, placeVars, skillVars>>
      BY <1>7 DEF Receive, ServeRest, storeVars
    <2>2. request'.stage \in {"none", "begun"}
      BY <1>7 DEF Receive, Arrives, Free
    <2>3. QED
      BY <1>5, <2>1, <2>2
  <1>8. CASE StartAgents
    BY <1>5, <1>8 DEF StartAgents, NoRequest, ServeRest, storeVars
  <1>9. QED
    BY <1>2, <1>3, <1>4, <1>6, <1>7, <1>8 DEF Commands

LEMMA ServingGuides ==
    ASSUME SkillsInv, Serving PROVE SessionsMove /\ SkillsMove /\ GuideMove
  <1>1. sessions \in Seq(SessionRows) /\ SessionsFit
    BY DEF SkillsInv, SessionsFit
  <1>2. CASE ConfigSaved
    <2>1. UNCHANGED <<current, profiles, request, inputs, sessions, placeVars, skills, loaded>>
      BY <1>2 DEF ConfigSaved, registryVars, placeVars, storeVars, skillVars, servedVars
    <2>2. QED
      BY <1>1, <2>1, NoRowChanged, DropsOnly DEF Drops
  <1>3. CASE OpenAgentsFile \/ WriteAgentsFile \/ ChatAnswers \/ LoopAnswers \/ SaveAnswer \/ Trim
             \/ Learn \/ AgentsAnswer
    <2>1. UNCHANGED <<sessions, placeVars, skills, loaded>>
      BY <1>3 DEF OpenAgentsFile, WriteAgentsFile, ChatAnswers, LoopAnswers, SaveAnswer, Trim,
         Learn, AgentsAnswer, SaveRest, ServeRest, storeVars, skillVars
    <2>2. request'.stage \in {"none", "saving", "answer", "count", "learn"}
      <3>1. request \in Request
        BY DEF SkillsInv, WorkInv, RequestsFit
      <3>2. \A stage \in Stages : [request EXCEPT !.stage = stage].stage = stage
        BY <3>1 DEF Request
      <3>3. NoRequest.stage = "none"
        BY DEF NoRequest
      <3>4. \/ request' = NoRequest
            \/ \E stage \in {"saving", "answer", "count", "learn"} :
                  request' = [request EXCEPT !.stage = stage]
        <4>1. CASE OpenAgentsFile \/ WriteAgentsFile \/ Learn \/ AgentsAnswer
          BY <4>1 DEF OpenAgentsFile, WriteAgentsFile, Learn, AgentsAnswer, Ends
        <4>2. CASE ChatAnswers \/ LoopAnswers \/ SaveAnswer \/ Trim
          BY <4>2 DEF ChatAnswers, LoopAnswers, SaveAnswer, Trim
        <4>3. QED
          BY <1>3, <4>1, <4>2
      <3>5. QED
        <4>1. {"saving", "answer", "count", "learn"} \subseteq Stages
          BY DEF Stages
        <4>2. QED
          BY <3>2, <3>3, <3>4, <4>1
    <2>3. QED
      BY <1>1, <2>1, <2>2, NoRowChanged, NoneGuided DEF SessionsMove, SkillsMove, Drops
  <1>4. CASE SaveUserRow
    <2>1. UNCHANGED <<sessions, placeVars, loaded, current, profiles, inputs>>
      BY <1>4 DEF SaveUserRow, ServeRest, placeVars, registryVars
    <2>2. CASE request' = NoRequest /\ UNCHANGED skills
      <3>1. request'.stage = "none"
        BY <2>2 DEF NoRequest
      <3>2. QED
        BY <1>1, <2>1, <2>2, <3>1, NoRowChanged, NoneGuided DEF SessionsMove, SkillsMove, Drops
    <2>3. CASE /\ skills' = IF request.kind = "chat" \/ calling
                            THEN StillFits(current.agent, Place) ELSE skills
               /\ request.kind = "chat" \/ request' = [request EXCEPT !.stage = "loop"]
      <3>1. Place = current.session
        BY <1>1, PlaceIsCurrent
      <3>2. request \in Request
        BY DEF SkillsInv, WorkInv, RequestsFit
      <3>3. Guided' => skills' = StillFits(current.agent, current.session)
        BY <2>1, <2>3, <3>1, <3>2 DEF Guided, Request, inputs
      <3>4. skills' \subseteq skills
        BY <2>3 DEF StillFits
      <3>5. QED
        BY <1>1, <2>1, <3>3, <3>4, NoRowChanged DEF SessionsMove, SkillsMove, GuideMove, Drops
    <2>4. QED
      BY <1>4, <2>2, <2>3 DEF SaveUserRow, Ends
  <1>5. CASE Count
    <2>1. UNCHANGED <<placeVars, skills, loaded>> /\ sessions' = Counted(Place)
          /\ request'.stage = "trim"
      <3>1. request \in Request
        BY DEF SkillsInv, WorkInv, RequestsFit
      <3>2. QED
        BY <1>5, <3>1 DEF Count, ServeRest, skillVars, Request
    <2>2. QED
      BY <1>1, <2>1, CountedRow, NoneGuided DEF SessionsMove, SkillsMove, Drops
  <1>6. QED
    BY <1>2, <1>3, <1>4, <1>5 DEF Serving

LEMMA LoopingGuides ==
    ASSUME SkillsInv, NEW t \in Threads, Looping(t) PROVE SessionsMove /\ SkillsMove /\ GuideMove
  <1>1. sessions \in Seq(SessionRows)
    BY DEF SkillsInv, SessionsFit
  <1>2. CASE LoopSteps(t)
    <2>1. UNCHANGED <<current, profiles, request, inputs, sessions, placeVars, skills, loaded>>
      BY <1>2 DEF LoopSteps, LoopStep, placeVars, storeVars, skillVars, servedVars
    <2>2. QED
      BY <1>1, <2>1, NoRowChanged, DropsOnly DEF Drops
  <1>3. CASE ChatInLoop(t)
    <2>1. UNCHANGED <<current, profiles, request, inputs, placeVars>>
      BY <1>3, ChatRests DEF RouteRest, registryVars, placeVars, servedVars
    <2>2. Drops /\ sessions' \in {sessions, Counted(chatSession)}
      BY <1>3 DEF ChatInLoop, ChatAsks, ChatRefuses, ChatReplies, ChatCounts, ChatTrims, StillFits,
         Drops, skillVars, storeVars
    <2>3. SameStates
      BY <1>1, <2>1, <2>2, CountedRow, NoRowChanged
    <2>4. QED
      BY <2>1, <2>2, <2>3, DropsOnly
  <1>4. CASE ClearInLoop(t) \/ ForgetInLoop(t) \/ RememberInLoop(t) \/ ConfigureInLoop(t)
    <2>1. UNCHANGED <<current, profiles, request, inputs, placeVars, sessions>>
      BY <1>4 DEF ClearInLoop, ForgetInLoop, RememberInLoop, ConfigureInLoop, RouteRest,
         registryVars, placeVars, servedVars, storeVars
    <2>2. Drops
      BY <1>4 DEF ClearInLoop, ForgetInLoop, RememberInLoop, ConfigureInLoop, Configure, skillVars,
         Drops
    <2>3. QED
      BY <1>1, <2>1, <2>2, NoRowChanged, DropsOnly
  <1>5. CASE RouteBreaks(t)
    <2>1. UNCHANGED <<current, profiles, inputs, placeVars, skills, loaded>>
      BY <1>5 DEF RouteBreaks, registryVars, placeVars, skillVars
    <2>2. request' = request \/ request'.stage = "none"
      BY <1>5 DEF RouteBreaks, Ends, NoRequest
    <2>3. SameStates
      <3>1. sessions' = sessions \/ sessions' = [sessions EXCEPT ![chatSession].behind = @ + 1]
        BY <1>5 DEF RouteBreaks
      <3>2. QED
        BY <1>1, <2>1, <3>1, NoRowChanged, BehindOne
    <2>4. QED
      BY <2>1, <2>2, <2>3, DropsOnly, NoneGuided DEF Drops, SessionsMove, SkillsMove
  <1>6. QED
    BY <1>2, <1>3, <1>4, <1>5 DEF Looping

LEMMA OthersGuide ==
    ASSUME SkillsInv, [Next]_brainVars PROVE SessionsMove /\ SkillsMove /\ GuideMove
  <1>1. sessions \in Seq(SessionRows)
    BY DEF SkillsInv, SessionsFit
  <1>2. CASE UNCHANGED brainVars
    <2>1. UNCHANGED <<current, profiles, request, inputs, sessions, placeVars, skills, loaded>>
      BY <1>2 DEF brainVars, registryVars, placeVars, storeVars, skillVars, servedVars
    <2>2. QED
      BY <1>1, <2>1, NoRowChanged, DropsOnly DEF Drops
  <1>3. CASE Commands
    BY <1>3, CommandsGuide
  <1>4. CASE Serving
    BY <1>4, ServingGuides
  <1>5. ASSUME NEW t \in Threads, Looping(t) PROVE SessionsMove /\ SkillsMove /\ GuideMove
    BY <1>5, LoopingGuides
  <1>6. ASSUME NEW w \in Workers, PoolSteps(w) PROVE SessionsMove /\ SkillsMove /\ GuideMove
    <2>1. UNCHANGED <<current, profiles, request, inputs, sessions, placeVars, skills, loaded>>
      BY <1>6 DEF PoolSteps, registryVars, placeVars, storeVars, skillVars, servedVars
    <2>2. QED
      BY <1>1, <2>1, NoRowChanged, DropsOnly DEF Drops
  <1>7. CASE Background
    <2>1. UNCHANGED <<current, profiles, request, inputs, placeVars, skills, loaded>>
      BY <1>7 DEF Background, Extract, Summarize, TaskRest, registryVars, placeVars, skillVars, servedVars
    <2>2. SameStates
      <3>1. \/ sessions' = sessions
            \/ \E s : sessions' = [sessions EXCEPT ![s].summary = TRUE]
        BY <1>7 DEF Background, Extract, Summarize
      <3>2. QED
        BY <1>1, <2>1, <3>1, NoRowChanged, SummedRow
    <2>3. QED
      BY <2>1, <2>2, DropsOnly DEF Drops
  <1>8. CASE Leaves \/ FinalizeFails
    <2>1. UNCHANGED <<placeVars, skills, loaded>> /\ request'.stage = "none"
      BY <1>8 DEF Leaves, FinalizeFails, Ends, ServeRest, NoRequest, skillVars
    <2>2. sessions' \in {sessions, Behind}
      BY <1>8 DEF Leaves, FinalizeFails, storeVars
    <2>3. SameStates
      BY <1>1, <2>1, <2>2, BehindRows, NoRowChanged DEF SameStates
    <2>4. QED
      BY <2>1, <2>3, NoneGuided DEF SessionsMove, SkillsMove, Drops
  <1>9. CASE Restart
    <2>1. request'.stage = "none"
      BY <1>9 DEF Restart, NoRequest
    <2>2. QED
      BY <1>9, <2>1, NoneGuided DEF SessionsMove, SkillsMove
  <1>10. QED
    BY <1>2, <1>3, <1>4, <1>5, <1>6, <1>7, <1>8, <1>9 DEF Next, Serves

\* A session is made, at the end of others.
LEMMA OpenedFits ==
    ASSUME NEW all \in Seq(SessionRows), NEW a \in Agents, Opens(a, all)
    PROVE  /\ sessions' \in Seq(SessionRows)
           /\ DOMAIN all \subseteq DOMAIN sessions' /\ \A s \in DOMAIN all : sessions'[s] = all[s]
           /\ current'.session \in DOMAIN sessions' /\ chatSession' = current'.session
           /\ sessions'[current'.session].state = "live"
  <1> DEFINE row == NewSession(a)
  <1>1. row \in SessionRows /\ row.state = "live"
    BY DEF NewSession, SessionRows
  <1>2. /\ sessions' = Append(all, row) /\ current' = [agent |-> a, session |-> Len(all) + 1]
        /\ chatSession' = Len(all) + 1
    BY DEF Opens
  <1> HIDE DEF row
  <1>3. /\ sessions' \in Seq(SessionRows) /\ Len(sessions') = Len(all) + 1
        /\ \A s \in 1..Len(all) : sessions'[s] = all[s]
        /\ sessions'[Len(all) + 1] = row
    BY <1>1, <1>2, AppendProperties
  <1>4. DOMAIN all = 1..Len(all) /\ Len(all) \in Nat /\ DOMAIN sessions' = 1..Len(sessions')
    BY <1>3, LenProperties
  <1>5. current'.session = Len(all) + 1
    BY <1>2
  <1>6. QED
    BY <1>1, <1>2, <1>3, <1>4, <1>5

LEMMA ActiveNext ==
    ASSUME SkillsInv, SessionsMove, SkillsMove
    PROVE  SessionsFit' /\ (\A s \in skills : sessions[s].state # "deleted")'
  <1>1. /\ SessionsFit /\ AgentsFit /\ sessions \in Seq(SessionRows)
        /\ current.session \in DOMAIN sessions /\ skills \subseteq DOMAIN sessions
        /\ chatSession = current.session /\ sessions[current.session].state # "deleted"
        /\ current = [agent |-> current.agent, session |-> current.session]
        /\ current.agent \in DOMAIN profiles /\ DOMAIN profiles \subseteq Agents
        /\ \A s \in skills : sessions[s].state # "deleted"
    BY DEF SkillsInv, WorkInv, SessionsFit, PlaceFits, AgentsFit, SkillsFit
  <1> DEFINE Good ==
        /\ sessions' \in Seq(SessionRows)
        /\ current'.session \in DOMAIN sessions' /\ skills' \subseteq DOMAIN sessions'
        /\ chatSession' = current'.session /\ sessions'[current'.session].state # "deleted"
        /\ \A s \in skills' : sessions'[s].state # "deleted"
  <1>2. SUFFICES Good
    BY DEF SessionsFit, PlaceFits
  <1>3. CASE SameStates
    <2>1. /\ sessions' \in Seq(SessionRows) /\ DOMAIN sessions' = DOMAIN sessions
          /\ current' = current /\ chatSession' = chatSession
          /\ \A s \in DOMAIN sessions : sessions'[s].state = sessions[s].state
      BY <1>3 DEF SameStates, placeVars
    <2>2. skills' \subseteq skills \cup {current.session}
      BY DEF SkillsMove, Drops, Rereads, UseSkill, Restart
    <2>3. QED
      BY <1>1, <2>1, <2>2
  <1>4. CASE ResumeSession
    <2>1. PICK s \in Live : current' = [current EXCEPT !.session = s] /\ chatSession' = s
      BY <1>4 DEF ResumeSession
    <2>2. current'.session = s /\ s \in DOMAIN sessions /\ sessions[s].state = "live"
      BY <1>1, <2>1 DEF Live
    <2>3. sessions' = sessions /\ skills' = skills
      BY <1>4 DEF ResumeSession, storeVars, skillVars
    <2>4. QED
      BY <1>1, <2>1, <2>2, <2>3
  <1>5. CASE StartNewSession
    <2>1. skills' = skills
      BY <1>5 DEF StartNewSession, skillVars
    <2>2. CASE Opens(current.agent, sessions)
      BY <1>1, <2>1, <2>2, OpenedFits
    <2>3. CASE UNCHANGED <<sessions, placeVars>>
      BY <1>1, <2>1, <2>3 DEF placeVars
    <2>4. QED
      BY <1>5, <2>2, <2>3 DEF StartNewSession
  <1>6. CASE UseAgent
    <2>1. skills' = skills
      BY <1>6 DEF UseAgent, skillVars
    <2>2. PICK a \in DOMAIN profiles :
            \/ Opens(a, sessions)
            \/ current' = [current EXCEPT !.agent = a] /\ UNCHANGED <<sessions, chatSession>>
      BY <1>6 DEF UseAgent
    <2>3. CASE Opens(a, sessions)
      BY <1>1, <2>1, <2>3, OpenedFits
    <2>4. CASE current' = [current EXCEPT !.agent = a] /\ UNCHANGED <<sessions, chatSession>>
      <3>1. current'.session = current.session
        BY <1>1, <2>4
      <3>2. QED
        BY <1>1, <2>1, <2>4, <3>1
    <2>5. QED
      BY <2>2, <2>3, <2>4
  <1>7. CASE DeleteSession
    <2>1. PICK s \in Live :
            /\ skills' = skills \ {s}
            /\ \/ s = current.session /\ Opens(current.agent, [sessions EXCEPT ![s].state = "deleted"])
               \/ sessions' = [sessions EXCEPT ![s].state = "lost"] /\ UNCHANGED placeVars
               \/ s # current.session /\ sessions' = [sessions EXCEPT ![s].state = "deleted"]
                  /\ UNCHANGED placeVars
               \/ UNCHANGED <<sessions, placeVars>>
      BY <1>7 DEF DeleteSession, Deactivated, storeVars
    <2>2. s \in DOMAIN sessions
      BY DEF Live
    <2>3. ASSUME NEW state \in {"deleted", "lost"}
          PROVE  LET becomes == [sessions EXCEPT ![s].state = state]
                 IN  /\ becomes \in Seq(SessionRows) /\ DOMAIN becomes = DOMAIN sessions
                     /\ becomes[s].state = state
                     /\ \A i \in DOMAIN sessions \ {s} : becomes[i] = sessions[i]
      <3> DEFINE row == [sessions[s] EXCEPT !.state = state]
      <3>1. row \in SessionRows /\ row.state = state
        BY <1>1, <2>2, RowsStand DEF SessionRows
      <3>2. [sessions EXCEPT ![s].state = state] = [sessions EXCEPT ![s] = row]
        OBVIOUS
      <3> HIDE DEF row
      <3>3. QED
        BY <1>1, <2>2, <3>1, <3>2, OneRowSet
    <2>4. CASE s = current.session /\ Opens(current.agent, [sessions EXCEPT ![s].state = "deleted"])
      <3> DEFINE all == [sessions EXCEPT ![s].state = "deleted"]
      <3>1. /\ all \in Seq(SessionRows) /\ DOMAIN all = DOMAIN sessions
            /\ \A i \in DOMAIN sessions \ {s} : all[i] = sessions[i]
        BY <2>3
      <3>2. Opens(current.agent, all)
        BY <2>4
      <3> HIDE DEF all
      <3>3. QED
        BY <1>1, <2>1, <3>1, <3>2, OpenedFits
    <2>5. CASE sessions' = [sessions EXCEPT ![s].state = "lost"] /\ UNCHANGED placeVars
      <3>1. /\ sessions' \in Seq(SessionRows) /\ DOMAIN sessions' = DOMAIN sessions
            /\ sessions'[s].state = "lost"
            /\ \A i \in DOMAIN sessions \ {s} : sessions'[i] = sessions[i]
        BY <2>3, <2>5
      <3>2. QED
        BY <1>1, <2>1, <2>5, <3>1 DEF placeVars
    <2>6. CASE /\ s # current.session /\ sessions' = [sessions EXCEPT ![s].state = "deleted"]
               /\ UNCHANGED placeVars
      <3>1. /\ sessions' \in Seq(SessionRows) /\ DOMAIN sessions' = DOMAIN sessions
            /\ \A i \in DOMAIN sessions \ {s} : sessions'[i] = sessions[i]
        BY <2>3, <2>6
      <3>2. QED
        BY <1>1, <2>1, <2>6, <3>1 DEF placeVars
    <2>7. CASE UNCHANGED <<sessions, placeVars>>
      BY <1>1, <2>1, <2>7 DEF placeVars
    <2>8. QED
      BY <2>1, <2>4, <2>5, <2>6, <2>7
  <1>8. CASE Restart
    <2>1. skills' = {} /\ Opens(DefaultAgent, Behind)
      BY <1>8 DEF Restart
    <2>2. Behind \in Seq(SessionRows) /\ DefaultAgent \in Agents
      BY <1>1, BehindRows, BrainAssumption
    <2>3. QED
      BY <2>1, <2>2, OpenedFits
  <1>9. QED
    BY <1>3, <1>4, <1>5, <1>6, <1>7, <1>8 DEF SessionsMove

LEMMA GuidedNext ==
    ASSUME SkillsInv, GuideMove, SessionsMove, SkillsMove
    PROVE  (Guided => (current.session \in skills => Available(current.agent)))'
  <1> SUFFICES ASSUME Guided', current'.session \in skills' PROVE Available(current.agent)'
    OBVIOUS
  <1>1. current' = current /\ profiles' = profiles
    BY DEF GuideMove
  <1>2. ToolsOf(current.agent)' = ToolsOf(current.agent)
    BY <1>1 DEF ToolsOf
  <1>3. CASE Guided /\ Drops
    <2>1. current.session \in skills /\ (loaded' = loaded \/ loaded' = TRUE)
      BY <1>1, <1>3 DEF Drops, Rereads
    <2>2. Available(current.agent)
      BY <1>3, <2>1 DEF SkillsInv, SkillsFit, Guided
    <2>3. QED
      BY <1>1, <1>2, <2>1, <2>2 DEF Available
  <1>4. CASE skills' = StillFits(current.agent, current.session) /\ UNCHANGED loaded
    <2>1. Available(current.agent)
      BY <1>1, <1>4 DEF StillFits
    <2>2. QED
      BY <1>1, <1>2, <1>4, <2>1 DEF Available
  <1>5. QED
    BY <1>3, <1>4 DEF GuideMove

LEMMA SkillsStart ==
    ASSUME Init PROVE SkillsInv
  <1> DEFINE row == NewSession(DefaultAgent)
  <1>1. /\ sessions = <<row>> /\ current = [agent |-> DefaultAgent, session |-> 1]
        /\ chatSession = 1 /\ skills = {} /\ request = NoRequest
    BY DEF Init
  <1>2. row \in SessionRows /\ row.state = "live"
    BY BrainAssumption DEF NewSession, SessionRows
  <1> HIDE DEF row
  <1>3. sessions \in Seq(SessionRows) /\ DOMAIN sessions = {1} /\ sessions[1] = row
    BY <1>1, <1>2
  <1>4. SessionsFit
    BY <1>1, <1>2, <1>3 DEF SessionsFit, PlaceFits
  <1>5. SkillsFit
    BY <1>1 DEF SkillsFit
  <1>6. QED
    BY <1>4, <1>5, WorkStart DEF SkillsInv

LEMMA SkillsKept ==
    ASSUME SkillsInv, [Next]_brainVars PROVE SkillsInv'
  <1>1. SessionsMove /\ SkillsMove /\ GuideMove
    BY OthersGuide
  <1>2. WorkInv'
    BY WorkKept DEF SkillsInv
  <1>3. SessionsFit' /\ (\A s \in skills : sessions[s].state # "deleted")'
    BY <1>1, ActiveNext
  <1>4. SkillsFit'
    BY <1>1, <1>3, GuidedNext DEF SkillsFit, Guided
  <1>5. QED
    BY <1>2, <1>3, <1>4 DEF SkillsInv

\* A skill is active in no session that was deleted, and guides no answer of an
\* agent that may not have it, whoever activated it and whatever became of the
\* agent's tools since (skills/manager.py).
THEOREM SkillsAreFit == Spec => []SkillsFit
  <1>1. Init => SkillsInv
    BY SkillsStart
  <1>2. SkillsInv /\ [Next]_brainVars => SkillsInv'
    BY SkillsKept
  <1>3. SkillsInv => SkillsFit
    BY DEF SkillsInv
  <1>4. QED
    BY <1>1, <1>2, <1>3, PTL DEF Spec

-----------------------------------------------------------------------------
(* Tables of rows. *)

IsTable(all) ==
    /\ all = [i \in DOMAIN all |-> all[i]]
    /\ \E n \in Nat : DOMAIN all \subseteq 1..n

\* A table of rows no later than a turn, of the sessions there are, the older
\* ones first.
TableFits(all, upto, places) ==
    /\ IsTable(all)
    /\ \A i \in DOMAIN all :
         /\ all[i] \in [turn : Int, role : Roles, by : {"brain", "router"}, agent : Agents,
                        session : places]
         /\ all[i].turn <= upto
    /\ \A i, j \in DOMAIN all : i < j => all[i].turn <= all[j].turn

\* A table some rows are gone from.
Subtable(part, all) ==
    /\ IsTable(part) /\ DOMAIN part \subseteq DOMAIN all
    /\ \A i \in DOMAIN part : part[i] = all[i]

\* Of no agent a newer one.
Newest(part, all) ==
    \A j \in DOMAIN all \ DOMAIN part, k \in DOMAIN part : all[k].agent = all[j].agent => j < k

LEMMA MaxIs ==
    ASSUME NEW n \in Nat, NEW S, S \subseteq 0..n, S # {}
    PROVE  Max(S) \in S /\ \A j \in S : j <= Max(S)
  <1> DEFINE R == {ss \in Nat \X Nat : ss[1] < ss[2]}
             D == {n - i : i \in S}
  <1>1. IsWellFoundedOn(R, Nat)
    BY NatLessThanWellFounded DEF OpToRel
  <1>2. D \subseteq Nat /\ D # {}
    <2>1. \A i \in S : n - i \in Nat
      OBVIOUS
    <2>2. QED
      BY <2>1
  <1>3. PICK d \in D : \A j \in D : ~ (<<j, d>> \in R)
    <2> HIDE DEF R, D
    <2>1. QED
      BY <1>1, <1>2, WFMin
  <1>4. PICK m \in S : d = n - m
    BY <1>3
  <1>5. ASSUME NEW j \in S PROVE j <= m
    <2>1. j \in Int /\ m \in Int /\ n - j \in D /\ n - j \in Nat /\ d \in Nat
      BY <1>2, <1>3
    <2>2. ~ (n - j < d)
      BY <1>3, <2>1
    <2>3. QED
      BY <1>4, <2>1, <2>2
  <1>6. \E x \in S : \A y \in S : x >= y
    <2>1. \A y \in S : m >= y
      BY <1>5
    <2>2. QED
      BY <2>1
  <1>7. Max(S) \in S /\ \A y \in S : Max(S) >= y
    BY <1>6 DEF Max
  <1>8. QED
    BY <1>7

LEMMA IdsAre ==
    ASSUME NEW all, IsTable(all)
    PROVE  DOMAIN all \subseteq Nat \ {0} /\ IsFiniteSet(DOMAIN all)
  <1>1. PICK n \in Nat : DOMAIN all \subseteq 1..n
    BY DEF IsTable
  <1>2. IsFiniteSet(1..n)
    BY FS_Interval
  <1>3. QED
    BY <1>1, <1>2, FS_Subset

LEMMA MaxOfIds ==
    ASSUME NEW all, IsTable(all), NEW S, S \subseteq DOMAIN all \cup {0}, S # {}
    PROVE  Max(S) \in S /\ \A j \in S : j <= Max(S)
  <1>1. PICK n \in Nat : DOMAIN all \subseteq 1..n
    BY DEF IsTable
  <1>2. S \subseteq 0..n
    BY <1>1
  <1>3. QED
    BY <1>2, MaxIs

LEMMA NextIdIs ==
    ASSUME NEW all, IsTable(all)
    PROVE  NextId(all) \in Nat \ {0} /\ \A i \in DOMAIN all : i < NextId(all)
  <1> DEFINE S == DOMAIN all \cup {0}
  <1>1. S \subseteq Nat
    BY IdsAre
  <1>2. Max(S) \in S /\ \A j \in S : j <= Max(S)
    BY MaxOfIds
  <1> HIDE DEF S
  <1>3. NextId(all) = Max(S) + 1
    BY DEF NextId, S
  <1>4. QED
    BY <1>1, <1>2, <1>3 DEF S

\* ConversationRepository.create: a row is stored after the others.
LEMMA StoredIs ==
    ASSUME NEW all, IsTable(all), NEW row
    PROVE  LET new == Stored(all, row)
               k == NextId(all)
           IN  /\ IsTable(new) /\ DOMAIN new = DOMAIN all \cup {k} /\ new[k] = row
               /\ k \in Nat \ {0} /\ k \notin DOMAIN all
               /\ \A i \in DOMAIN all : new[i] = all[i] /\ i < k
  <1> DEFINE new == Stored(all, row)
             k == NextId(all)
  <1>1. k \in Nat \ {0} /\ \A i \in DOMAIN all : i < k
    BY NextIdIs
  <1>2. DOMAIN all \subseteq Nat \ {0}
    BY IdsAre
  <1>3. k \notin DOMAIN all
    BY <1>1, <1>2
  <1>4. new = [i \in DOMAIN all \cup {k} |-> IF i \in DOMAIN all THEN all[i] ELSE row]
    BY DEF Stored
  <1> HIDE DEF new, k
  <1>5. /\ DOMAIN new = DOMAIN all \cup {k} /\ new[k] = row
        /\ \A i \in DOMAIN all : new[i] = all[i]
        /\ new = [i \in DOMAIN new |-> new[i]]
    BY <1>3, <1>4
  <1>6. DOMAIN new \subseteq 1..k
    BY <1>1, <1>2, <1>5
  <1>7. QED
    BY <1>1, <1>3, <1>5, <1>6 DEF IsTable, new, k

LEMMA RestrictIs ==
    ASSUME NEW all, IsTable(all), NEW S, S \subseteq DOMAIN all
    PROVE  Subtable(Restrict(all, S), all) /\ DOMAIN Restrict(all, S) = S
  <1> DEFINE part == Restrict(all, S)
  <1>1. part = [i \in S |-> all[i]]
    BY DEF Restrict
  <1> HIDE DEF part
  <1>2. DOMAIN part = S /\ part = [i \in DOMAIN part |-> part[i]] /\ \A i \in DOMAIN part : part[i] = all[i]
    BY <1>1
  <1>3. QED
    BY <1>2 DEF Subtable, IsTable, part

LEMMA NothingKept ==
    ASSUME NEW all
    PROVE  Subtable(<<>>, all) /\ Newest(<<>>, all) /\ DOMAIN <<>> = {}
  <1>1. DOMAIN <<>> = {} /\ <<>> = [i \in {} |-> <<>>[i]]
    OBVIOUS
  <1>2. QED
    BY <1>1 DEF Subtable, IsTable, Newest

\* ConversationRepository.trim: the newest rows of an agent are kept, as many
\* as may be, and all the others'.
LEMMA TrimmedIs ==
    ASSUME NEW all, IsTable(all), NEW agent
    PROVE  LET part == Trimmed(agent, all)
           IN  /\ Subtable(part, all) /\ Newest(part, all)
               /\ \A i \in DOMAIN all : all[i].agent # agent => i \in DOMAIN part
               /\ \A i \in RowsOf(agent, all) :
                    (\A j \in RowsOf(agent, all) : j <= i) => i \in DOMAIN part
               /\ Cardinality(RowsOf(agent, part)) \in 0..MaxRows
  <1> DEFINE newer(i) == {j \in RowsOf(agent, all) : j > i}
             S == {i \in DOMAIN all : all[i].agent = agent => Cardinality(newer(i)) < MaxRows}
             part == Restrict(all, S)
             own == RowsOf(agent, part)
  <1>1. Trimmed(agent, all) = part
    BY DEF Trimmed
  <1>2. Subtable(part, all) /\ DOMAIN part = S
    BY RestrictIs
  <1>3. /\ RowsOf(agent, all) \subseteq DOMAIN all /\ DOMAIN all \subseteq Nat
        /\ IsFiniteSet(RowsOf(agent, all))
    BY IdsAre, FS_Subset DEF RowsOf
  <1>4. MaxRows \in Nat \ {0}
    BY BrainAssumption
  <1>5. \A i : IsFiniteSet(newer(i)) /\ Cardinality(newer(i)) \in Nat
    BY <1>3, FS_Subset, FS_CardinalityType
  <1>6. ASSUME NEW i \in RowsOf(agent, all), i \in S, NEW k \in RowsOf(agent, all), i < k
        PROVE  k \in S
    <2>1. newer(k) \subseteq newer(i)
      BY <1>3, <1>6
    <2>2. Cardinality(newer(k)) <= Cardinality(newer(i))
      BY <1>5, <2>1, FS_Subset
    <2>3. Cardinality(newer(i)) < MaxRows
      BY <1>6 DEF RowsOf
    <2>4. Cardinality(newer(k)) < MaxRows
      <3> HIDE DEF newer
      <3>1. QED
        BY <1>4, <1>5, <2>2, <2>3
    <2>5. QED
      BY <2>4 DEF RowsOf
  <1>7. Newest(part, all)
    <2> SUFFICES ASSUME NEW j \in DOMAIN all \ S, NEW k \in S, all[k].agent = all[j].agent
                 PROVE  j < k
      BY <1>2 DEF Newest
    <2>1. all[j].agent = agent /\ j \in RowsOf(agent, all) /\ k \in RowsOf(agent, all)
      BY DEF RowsOf
    <2>2. ~ (k < j) /\ k # j
      BY <1>6, <2>1
    <2>3. QED
      BY <1>3, <2>1, <2>2
  <1>8. ASSUME NEW i \in RowsOf(agent, all), \A j \in RowsOf(agent, all) : j <= i
        PROVE  i \in S
    <2>1. newer(i) = {}
      BY <1>3, <1>8
    <2>2. Cardinality(newer(i)) = 0
      BY <2>1, FS_EmptySet
    <2>3. i \in DOMAIN all /\ Cardinality(newer(i)) < MaxRows
      BY <1>4, <2>2 DEF RowsOf
    <2>4. QED
      BY <2>3
  <1>9. Cardinality(own) \in 0..MaxRows
    <2>1. own \subseteq S /\ own \subseteq RowsOf(agent, all)
      <3> HIDE DEF part
      <3>1. QED
        BY <1>2 DEF RowsOf, Subtable
    <2> HIDE DEF own
    <2>2. IsFiniteSet(own)
      BY <1>3, <2>1, FS_Subset
    <2>3. CASE own = {}
      BY <1>4, <2>3, FS_EmptySet
    <2>4. CASE own # {}
      <3>1. PICK m \in own : \A j \in own : m <= j
        <4> DEFINE R == {ss \in Nat \X Nat : ss[1] < ss[2]}
        <4>1. own \subseteq Nat
          BY <1>3, <2>1
        <4>2. IsWellFoundedOn(R, Nat)
          BY NatLessThanWellFounded DEF OpToRel
        <4>3. PICK m \in own : \A j \in own : ~ (<<j, m>> \in R)
          <5> HIDE DEF R
          <5>1. QED
            BY <2>4, <4>1, <4>2, WFMin
        <4>4. ASSUME NEW j \in own PROVE m <= j
          <5>1. j \in Nat /\ m \in Nat /\ ~ (j < m)
            BY <4>1, <4>3
          <5>2. QED
            BY <5>1
        <4>5. QED
          BY <4>4
      <3>2. Cardinality(newer(m)) < MaxRows
        BY <2>1, <3>1 DEF RowsOf
      <3>3. own \subseteq newer(m) \cup {m}
        <4>1. \A j \in own : j \in RowsOf(agent, all) /\ j \in Nat /\ m \in Nat /\ m <= j
          BY <1>3, <2>1, <3>1
        <4>2. QED
          BY <4>1
      <3> HIDE DEF newer
      <3>4. /\ IsFiniteSet(newer(m) \cup {m})
            /\ Cardinality(newer(m) \cup {m}) <= Cardinality(newer(m)) + 1
            /\ Cardinality(newer(m) \cup {m}) \in Nat
        <4>1. IsFiniteSet(newer(m)) /\ Cardinality(newer(m)) \in Nat
          BY <1>5
        <4>2. /\ IsFiniteSet(newer(m) \cup {m})
              /\ \/ Cardinality(newer(m) \cup {m}) = Cardinality(newer(m))
                 \/ Cardinality(newer(m) \cup {m}) = Cardinality(newer(m)) + 1
          BY <4>1, FS_AddElement
        <4>3. QED
          BY <4>1, <4>2
      <3>5. Cardinality(own) <= Cardinality(newer(m) \cup {m}) /\ Cardinality(own) \in Nat
        BY <2>2, <3>3, <3>4, FS_Subset, FS_CardinalityType
      <3>6. QED
        BY <1>4, <1>5, <3>2, <3>4, <3>5
    <2>5. QED
      BY <2>3, <2>4
  <1> HIDE DEF S, part, own
  <1>10. \A i \in DOMAIN all : all[i].agent # agent => i \in S
    BY DEF S
  <1>11. QED
    BY <1>1, <1>2, <1>7, <1>8, <1>9, <1>10 DEF own

-----------------------------------------------------------------------------
(* Turns are kept whole. *)

LEMMA TableGrows ==
    ASSUME NEW all, NEW upto \in Int, NEW later \in Int, NEW places, NEW more,
           TableFits(all, upto, places), upto <= later, places \subseteq more
    PROVE  TableFits(all, later, more)
  BY DEF TableFits

LEMMA PartFits ==
    ASSUME NEW all, NEW upto \in Int, NEW places, TableFits(all, upto, places),
           NEW part, Subtable(part, all)
    PROVE  TableFits(part, upto, places)
  BY DEF TableFits, Subtable

LEMMA StoredFits ==
    ASSUME NEW all, NEW upto \in Int, NEW places, TableFits(all, upto, places),
           NEW row \in [turn : Int, role : Roles, by : {"brain", "router"}, agent : Agents,
                        session : places],
           upto <= row.turn
    PROVE  TableFits(Stored(all, row), row.turn, places)
  <1> DEFINE new == Stored(all, row)
             k == NextId(all)
  <1>1. /\ IsTable(new) /\ DOMAIN new = DOMAIN all \cup {k} /\ new[k] = row
        /\ k \in Nat \ {0} /\ k \notin DOMAIN all
        /\ \A i \in DOMAIN all : new[i] = all[i] /\ i < k
    <2>1. IsTable(all)
      BY DEF TableFits
    <2>2. QED
      BY <2>1, StoredIs
  <1>2. DOMAIN all \subseteq Nat \ {0}
    BY IdsAre DEF TableFits
  <1> HIDE DEF new, k
  <1>3. row.turn \in Int
    OBVIOUS
  <1>4. \A i \in DOMAIN all : all[i].turn \in Int /\ all[i].turn <= row.turn
    BY <1>3 DEF TableFits
  <1>5. ASSUME NEW i \in DOMAIN new
        PROVE  /\ new[i] \in [turn : Int, role : Roles, by : {"brain", "router"}, agent : Agents,
                              session : places]
               /\ new[i].turn <= row.turn
    BY <1>1, <1>3, <1>4 DEF TableFits
  <1>6. ASSUME NEW i \in DOMAIN new, NEW j \in DOMAIN new, i < j PROVE new[i].turn <= new[j].turn
    <2>1. CASE i \in DOMAIN all /\ j \in DOMAIN all
      BY <1>1, <1>6, <2>1 DEF TableFits
    <2>2. CASE j = k
      BY <1>1, <1>5, <2>2
    <2>3. CASE i = k /\ j \in DOMAIN all
      BY <1>1, <1>2, <1>6, <2>3
    <2>4. QED
      BY <1>1, <2>1, <2>2, <2>3
  <1>7. QED
    BY <1>1, <1>5, <1>6 DEF TableFits, new

\* An answer with its question before it, or nothing of the agent before that
\* turn.
Asks(all, i, row) ==
    \/ \E j \in {n \in DOMAIN all : n < i} : all[j] = [row EXCEPT !.role = "user"]
    \/ \A j \in {n \in DOMAIN all : n < i} : all[j].agent = row.agent => all[j].turn = row.turn

Follows(all) == \A i \in {n \in DOMAIN all : all[n].role = "assistant"} : Asks(all, i, all[i])

LEMMA FollowsIs == AnswersFollow <=> Follows(rows)
  BY DEF AnswersFollow, Follows, Asks

\* What is trimmed or cleared of the agent's is older than what is kept.
LEMMA NewestAsks ==
    ASSUME NEW all, NEW upto, NEW places, TableFits(all, upto, places),
           NEW part, Subtable(part, all), Newest(part, all),
           NEW i \in Int, NEW row, Asks(all, i, row),
           \A j \in DOMAIN all : j < i => all[j].turn <= row.turn, row.turn \in Int,
           [row EXCEPT !.role = "user"].agent = row.agent,
           [row EXCEPT !.role = "user"].turn = row.turn
    PROVE  Asks(part, i, row)
  <1>1. DOMAIN all \subseteq Nat
    BY IdsAre DEF TableFits
  <1>2. CASE \A j \in {n \in DOMAIN all : n < i} : all[j].agent = row.agent => all[j].turn = row.turn
    BY <1>2 DEF Asks, Subtable
  <1>3. ASSUME NEW j \in DOMAIN all, j < i, all[j] = [row EXCEPT !.role = "user"]
        PROVE  Asks(part, i, row)
    <2>1. CASE j \in DOMAIN part
      BY <1>3, <2>1 DEF Asks, Subtable
    <2>2. CASE j \notin DOMAIN part
      <3> SUFFICES ASSUME NEW k \in DOMAIN part, k < i, part[k].agent = row.agent
                   PROVE  part[k].turn = row.turn
        BY DEF Asks
      <3>1. k \in DOMAIN all /\ part[k] = all[k] /\ all[j].agent = row.agent /\ all[j].turn = row.turn
        BY <1>3 DEF Subtable
      <3>2. j < k
        BY <2>2, <3>1 DEF Newest
      <3>3. all[j].turn <= all[k].turn /\ all[k].turn <= row.turn /\ all[k].turn \in Int
        BY <3>1, <3>2 DEF TableFits
      <3>4. QED
        BY <3>1, <3>3
    <2>3. QED
      BY <2>1, <2>2
  <1>4. QED
    BY <1>2, <1>3 DEF Asks

LEMMA AskedOf ==
    ASSUME NEW all, NEW upto, NEW places, TableFits(all, upto, places), NEW i \in DOMAIN all
    PROVE  /\ [all[i] EXCEPT !.role = "user"].agent = all[i].agent
           /\ [all[i] EXCEPT !.role = "user"].turn = all[i].turn
           /\ [all[i] EXCEPT !.role = "user"].session = all[i].session
           /\ all[i].turn \in Int /\ i \in Int
           /\ \A j \in DOMAIN all : j < i => all[j].turn <= all[i].turn
  <1>1. i \in Int
    BY IdsAre DEF TableFits
  <1>2. QED
    BY <1>1 DEF TableFits

LEMMA NewestFollows ==
    ASSUME NEW all, NEW upto, NEW places, TableFits(all, upto, places), Follows(all),
           NEW part, Subtable(part, all), Newest(part, all)
    PROVE  Follows(part)
  <1> SUFFICES ASSUME NEW i \in DOMAIN part, part[i].role = "assistant" PROVE Asks(part, i, part[i])
    BY DEF Follows
  <1>1. i \in DOMAIN all /\ part[i] = all[i]
    BY DEF Subtable
  <1>2. Asks(all, i, all[i])
    BY <1>1 DEF Follows
  <1>3. QED
    BY <1>1, <1>2, NewestAsks, AskedOf

\* With a session go all its rows.
LEMMA DeletedFollows ==
    ASSUME NEW all, NEW upto, NEW places, TableFits(all, upto, places), Follows(all),
           NEW part, Subtable(part, all), NEW s,
           DOMAIN part = {i \in DOMAIN all : all[i].session # s}
    PROVE  Follows(part)
  <1> SUFFICES ASSUME NEW i \in DOMAIN part, part[i].role = "assistant" PROVE Asks(part, i, part[i])
    BY DEF Follows
  <1>1. i \in DOMAIN all /\ part[i] = all[i] /\ all[i].session # s
    BY DEF Subtable
  <1>2. Asks(all, i, all[i])
    BY <1>1 DEF Follows
  <1>3. CASE \E j \in {n \in DOMAIN all : n < i} : all[j] = [all[i] EXCEPT !.role = "user"]
    <2>1. PICK j \in DOMAIN all : j < i /\ all[j] = [all[i] EXCEPT !.role = "user"]
      BY <1>3
    <2>2. all[j].session = all[i].session
      BY <1>1, <2>1, AskedOf
    <2>3. j \in DOMAIN part /\ part[j] = all[j]
      BY <1>1, <2>2 DEF Subtable
    <2>4. QED
      BY <1>1, <2>1, <2>3 DEF Asks
  <1>4. CASE \A j \in {n \in DOMAIN all : n < i} : all[j].agent = all[i].agent => all[j].turn = all[i].turn
    BY <1>1, <1>4 DEF Asks, Subtable
  <1>5. QED
    BY <1>2, <1>3, <1>4 DEF Asks

LEMMA StoredFollows ==
    ASSUME NEW all, NEW upto, NEW places, TableFits(all, upto, places), Follows(all), NEW row,
           row.role = "assistant" => Asks(all, NextId(all), row)
    PROVE  Follows(Stored(all, row))
  <1> DEFINE new == Stored(all, row)
             k == NextId(all)
  <1>1. /\ DOMAIN new = DOMAIN all \cup {k} /\ new[k] = row
        /\ k \in Nat \ {0} /\ k \notin DOMAIN all
        /\ \A i \in DOMAIN all : new[i] = all[i] /\ i < k
    BY StoredIs DEF TableFits
  <1>2. DOMAIN all \subseteq Nat
    BY IdsAre DEF TableFits
  <1>3. row.role = "assistant" => Asks(all, k, row)
    OBVIOUS
  <1> HIDE DEF new, k
  <1>4. \A i \in DOMAIN new : {n \in DOMAIN new : n < i} = {n \in DOMAIN all : n < i}
    BY <1>1, <1>2
  <1>5. ASSUME NEW i \in DOMAIN new, new[i].role = "assistant" PROVE Asks(new, i, new[i])
    <2>1. Asks(all, i, new[i])
      BY <1>1, <1>3, <1>5 DEF Follows
    <2>2. QED
      BY <1>1, <1>4, <2>1 DEF Asks
  <1>6. QED
    BY <1>5 DEF Follows, new

-----------------------------------------------------------------------------
(* What is stored of the chats for the router. *)

Chatting(t) ==
    frames[t] # <<>> /\ Top(t).kind = "legacy" /\ Top(t).pc = "route" /\ Top(t).action = "CHAT"

\* Something is stored only while the router waits for the chat.
ChatsFit ==
    /\ chats \in [Threads -> {"nothing", "question", "answer", "counted"}]
    /\ \A t \in Threads : chats[t] # "nothing" => Chatting(t)

LEMMA Silent ==
    ASSUME LoopInv, ChatsFit, Idle PROVE \A t \in Threads : chats[t] = "nothing"
  BY Resting DEF ChatsFit, Chatting

\* A chat goes on where it was, or asks.
ChatsMove ==
    \A u \in Threads : chats'[u] # "nothing" =>
        /\ frames'[u] = frames[u]
        /\ chats'[u] = "question" => chats[u] = "question" \/ (frames[u] # <<>> /\ ChatAsks(u))

LEMMA ChatsStand ==
    ASSUME ChatsFit, UNCHANGED <<frames, chats>> PROVE ChatsFit' /\ ChatsMove
  BY DEF ChatsFit, ChatsMove, Chatting, Top

\* The pool's threads work for a list, which is no chat.
LEMMA PoolIsNoChat ==
    ASSUME LoopInv, NEW t \in Threads, t # Main, frames[t] # <<>> PROVE ~Chatting(Main)
  BY DEF LoopInv, PoolFits, Busy, Threads, Chatting

\* A step of a thread with nothing stored at its end.
LEMMA ChatsGoOn ==
    ASSUME LoopInv, ChatsFit, NEW t \in Threads, frames[t] # <<>>, Returns(t) \/ Passes,
           chats' = [chats EXCEPT ![t] = "nothing"]
    PROVE  ChatsFit' /\ ChatsMove
  <1>1. \A u \in Threads : chats'[u] = IF u = t THEN "nothing" ELSE chats[u]
    BY DEF ChatsFit
  <1>2. chats' \in [Threads -> {"nothing", "question", "answer", "counted"}]
    BY DEF ChatsFit
  <1>3. DOMAIN frames = Threads
    BY DEF LoopInv, FramesFit
  <1>4. ASSUME NEW u \in Threads, chats'[u] # "nothing" PROVE Chatting(u) /\ frames'[u] = frames[u]
    <2>1. u # t /\ Chatting(u)
      BY <1>1, <1>4 DEF ChatsFit
    <2>2. t # Main => u # Main
      BY <2>1, PoolIsNoChat
    <2>3. CASE Moves(t) \/ (t = Main /\ Empties)
      <3>1. \E stack : frames' = [frames EXCEPT ![t] = stack]
        BY <2>3 DEF Moves, Empties
      <3>2. QED
        BY <1>3, <2>1, <3>1
    <2>4. CASE t \in Workers /\ Frees(t)
      <3>1. u # Main
        BY <2>2, <2>4, LoopAssumption
      <3>2. \E one, all : frames' = [frames EXCEPT ![t] = one, ![Main] = all]
        BY <2>4 DEF Frees
      <3>3. QED
        BY <1>3, <2>1, <3>1, <3>2
    <2>5. CASE Passes
      <3>1. u # Main
        BY <2>1, <2>5 DEF Passes, Chatting
      <3>2. QED
        BY <2>1, <2>5, <3>1 DEF Passes
    <2>6. QED
      BY <2>1, <2>3, <2>4, <2>5 DEF Returns
  <1>5. ChatsFit'
    BY <1>2, <1>4 DEF ChatsFit, Chatting, Top
  <1>6. ChatsMove
    BY <1>1, <1>4 DEF ChatsMove
  <1>7. QED
    BY <1>5, <1>6

\* No step but a chat's own is taken where one is stored.
LEMMA OtherStepsChatNothing ==
    ASSUME LoopInv, ChatsFit, NEW t \in Threads, frames[t] # <<>>,
           \/ LoopStep(t) \/ ClearInLoop(t) \/ ForgetInLoop(t) \/ RememberInLoop(t)
           \/ ConfigureInLoop(t)
    PROVE  chats[t] = "nothing"
  <1> SUFFICES ~Chatting(t)
    BY DEF ChatsFit
  <1>1. ASSUME NEW action, Routes(t, action), action # "CHAT" PROVE ~Chatting(t)
    BY <1>1 DEF Routes, Chatting
  <1>2. CASE ClearInLoop(t) \/ ForgetInLoop(t) \/ RememberInLoop(t) \/ ConfigureInLoop(t)
    BY <1>1, <1>2 DEF ClearInLoop, ForgetInLoop, RememberInLoop, ConfigureInLoop, RouteClear,
       RouteForget, RouteRemember, RouteConfigure
  <1>3. CASE RouteSimple(t) \/ RouteTool(t) \/ RouteDelegate(t) \/ RouteOrchestrate(t)
    BY <1>1, <1>3 DEF RouteSimple, RouteTool, RouteDelegate, RouteOrchestrate
  <1>4. CASE Ask(t) \/ NoReply(t) \/ Reply(t) \/ RunTool(t) \/ Synthesize(t) \/ WriteUp(t)
             \/ Stream(t) \/ Finish(t)
    BY <1>4 DEF Chatting, Ask, NoReply, Reply, RunTool, Synthesize, WriteUp, Stream, Finish
  <1>5. CASE LegacyTurn(t) \/ Judge(t) \/ LegacyEnds(t)
    BY <1>5 DEF Chatting, LegacyTurn, Judge, LegacyEnds
  <1>6. CASE ChainStep(t) \/ TeamStep(t) \/ PoolPasses(t) \/ PoolEnds(t)
    <2>1. Top(t).kind # "legacy"
      BY <1>6, PoolIsMains DEF ChainStep, TeamStep, PoolPasses, PoolEnds
    <2>2. QED
      BY <2>1 DEF Chatting
  <1>7. QED
    BY <1>2, <1>3, <1>4, <1>5, <1>6 DEF LoopStep

LEMMA LoopingChats ==
    ASSUME WorkInv, ChatsFit, NEW t \in Threads, Looping(t) PROVE ChatsFit' /\ ChatsMove
  <1>1. LoopInv /\ frames[t] # <<>>
    BY DEF WorkInv, Looping
  <1>2. chats = [chats EXCEPT ![t] = chats[t]]
    BY DEF ChatsFit
  <1>3. CASE \/ LoopSteps(t) \/ ClearInLoop(t) \/ ForgetInLoop(t) \/ RememberInLoop(t)
             \/ ConfigureInLoop(t)
    <2>1. chats[t] = "nothing" /\ chats' = chats
      BY <1>1, <1>3, OtherStepsChatNothing DEF LoopSteps, ClearInLoop, ForgetInLoop,
         RememberInLoop, ConfigureInLoop
    <2>2. Returns(t) \/ Passes
      BY <1>1, <1>3, LoopStepMoves, AtOnceMoves DEF LoopSteps, ClearInLoop, ForgetInLoop,
         RememberInLoop, ConfigureInLoop, Returns
    <2>3. QED
      BY <1>1, <1>2, <2>1, <2>2, ChatsGoOn
  <1>4. CASE ChatAsks(t) \/ ChatReplies(t) \/ ChatCounts(t)
    <2>1. UNCHANGED frames /\ Chatting(t)
      BY <1>1, <1>4 DEF ChatAsks, ChatReplies, ChatCounts, Stores, Routes, Chatting, loopVars
    <2>2. PICK v \in {"question", "answer", "counted"} :
            chats' = [chats EXCEPT ![t] = v] /\ (v = "question" => ChatAsks(t))
      <3>1. CASE ChatAsks(t)
        BY <3>1 DEF ChatAsks, Stores
      <3>2. CASE ChatReplies(t) \/ ChatCounts(t)
        BY <3>2 DEF ChatReplies, ChatCounts, Stores
      <3>3. QED
        BY <1>4, <3>1, <3>2
    <2>3. \A u \in Threads : chats'[u] = IF u = t THEN v ELSE chats[u]
      BY <2>2 DEF ChatsFit
    <2>4. chats' \in [Threads -> {"nothing", "question", "answer", "counted"}]
      BY <2>2 DEF ChatsFit
    <2>5. ChatsFit'
      BY <2>1, <2>3, <2>4 DEF ChatsFit, Chatting, Top
    <2>6. ChatsMove
      BY <1>1, <2>1, <2>2, <2>3 DEF ChatsMove
    <2>7. QED
      BY <2>5, <2>6
  <1>5. CASE ChatRefuses(t) \/ ChatTrims(t)
    <2>1. chats' = [chats EXCEPT ![t] = "nothing"]
      BY <1>2, <1>5 DEF ChatRefuses, ChatTrims, Stores
    <2>2. RouteChat(t) \/ (Routes(t, "CHAT") /\ Judged(t, "text") /\ "text" \in Texts)
      BY <1>5 DEF ChatRefuses, ChatTrims, Texts
    <2>3. Returns(t)
      BY <1>1, <2>2, AtOnceMoves, JudgedMoves DEF Returns
    <2>4. QED
      BY <1>1, <2>1, <2>3, ChatsGoOn
  <1>6. CASE RouteBreaks(t)
    <2>1. chats' = [chats EXCEPT ![t] = "nothing"]
      BY <1>6 DEF RouteBreaks
    <2>2. CASE t = Main
      <3>1. Empties
        BY <1>1, <1>6, <2>2 DEF RouteBreaks, Empties, Idle
      <3>2. QED
        BY <1>1, <2>1, <2>2, <3>1, ChatsGoOn DEF Returns
    <2>3. CASE t # Main
      <3>1. t \in Workers /\ "failure" \in Texts
        BY <2>3 DEF Threads, Texts
      <3>2. Returns(t)
        BY <1>1, <1>6, <2>3, <3>1 DEF RouteBreaks, Returns, Frees
      <3>3. QED
        BY <1>1, <2>1, <3>2, ChatsGoOn
    <2>4. QED
      BY <2>2, <2>3
  <1>7. QED
    BY <1>3, <1>4, <1>5, <1>6 DEF Looping, ChatInLoop

LEMMA ChatsNext ==
    ASSUME WorkInv, ChatsFit, [Next]_brainVars PROVE ChatsFit' /\ ChatsMove
  <1>1. LoopInv /\ (request.stage \notin {"loop", "agents"} => Idle)
    BY DEF WorkInv, StagesFit
  <1>2. ASSUME Idle, chats' = chats PROVE ChatsFit' /\ ChatsMove
    BY <1>1, <1>2, Silent DEF ChatsFit, ChatsMove
  <1>3. CASE UNCHANGED brainVars \/ Background \/ FinalizeFails
    BY <1>3, ChatsStand DEF brainVars, loopVars, Background, Extract, Summarize, TaskRest,
       FinalizeFails, ServeRest
  <1>4. CASE Commands
    <2>1. Idle /\ chats' = chats
      BY <1>4 DEF Commands, StartNewSession, ResumeSession, DeleteSession, UseAgent, Show, UseSkill,
         DropSkill, ReloadSkills, ConfigCommand, Command, Arrives, Free, CreateAgent, SetAgentTools,
         SetAgentModel, SetAgentPersona, ToSave, Receive, StartAgents, ServeRest
    <2>2. QED
      BY <1>2, <2>1
  <1>5. CASE Serving
    <2>1. chats' = chats
      BY <1>5 DEF Serving, ConfigSaved, OpenAgentsFile, WriteAgentsFile, SaveRest, SaveUserRow,
         ChatAnswers, LoopAnswers, SaveAnswer, Count, Trim, Learn, AgentsAnswer, ServeRest
    <2>2. CASE SaveUserRow
      BY <1>1, <1>2, <2>1, <2>2 DEF SaveUserRow
    <2>3. CASE ~SaveUserRow
      <3>1. UNCHANGED frames
        BY <1>5, <2>3 DEF Serving, ConfigSaved, OpenAgentsFile, WriteAgentsFile, SaveRest,
           ChatAnswers, LoopAnswers, SaveAnswer, Count, Trim, Learn, AgentsAnswer, loopVars
      <3>2. QED
        BY <2>1, <3>1, ChatsStand
    <2>4. QED
      BY <2>2, <2>3
  <1>6. ASSUME NEW w \in Workers, PoolSteps(w) PROVE ChatsFit' /\ ChatsMove
    <2>1. Takes(w) /\ chats' = chats
      BY <1>1, <1>6, PoolTakesMoves DEF PoolSteps
    <2>2. ASSUME NEW u \in Threads, chats[u] # "nothing" PROVE Chatting(u) /\ frames'[u] = frames[u]
      <3>1. Chatting(u)
        BY <2>2 DEF ChatsFit
      <3>2. u # Main /\ u # w
        BY <2>1, <3>1 DEF Takes, Chatting
      <3>3. \E one, all : frames' = [frames EXCEPT ![w] = one, ![Main] = all]
        BY <2>1 DEF Takes
      <3>4. DOMAIN frames = Threads
        BY <1>1 DEF LoopInv, FramesFit
      <3>5. QED
        BY <3>1, <3>2, <3>3, <3>4
    <2>3. ChatsFit'
      BY <2>1, <2>2 DEF ChatsFit, Chatting, Top
    <2>4. ChatsMove
      BY <2>1, <2>2 DEF ChatsMove
    <2>5. QED
      BY <2>3, <2>4
  <1>7. CASE Leaves
    <2>1. chats' = chats
      BY <1>7 DEF Leaves, ServeRest
    <2>2. CASE UNCHANGED loopVars
      BY <2>1, <2>2, ChatsStand DEF loopVars
    <2>3. ASSUME NEW text, Leave(Main, text, status), Top(Main).kind = "run", Len(frames[Main]) = 1
          PROVE  ChatsFit' /\ ChatsMove
      <3>1. chats[Main] = "nothing"
        BY <2>3 DEF ChatsFit, Chatting, Threads
      <3>2. \A u \in Threads \ {Main} : frames'[u] = frames[u]
        BY <2>3 DEF Leave
      <3>3. ChatsFit'
        BY <2>1, <3>1, <3>2 DEF ChatsFit, Chatting, Top
      <3>4. ChatsMove
        BY <2>1, <3>1, <3>2 DEF ChatsMove
      <3>5. QED
        BY <3>3, <3>4
    <2>4. QED
      BY <1>7, <2>2, <2>3 DEF Leaves
  <1>8. CASE Restart
    BY <1>8 DEF Restart, ChatsFit, ChatsMove
  <1>9. QED
    BY <1>3, <1>4, <1>5, <1>6, <1>7, <1>8, LoopingChats DEF Next, Serves

-----------------------------------------------------------------------------
(* The store. *)

\* The last turn that may have left something.
Past == IF request.stage = "begun" THEN turn - 1 ELSE turn

RowsFit ==
    /\ turn \in Int
    /\ TableFits(rows, Past, DOMAIN sessions) /\ Follows(rows)

TheAnswer == Row("assistant", "brain", current.agent, Place)

\* An answer that could be stored now would have its question before it.
Wanted(all, row) ==
    \/ \E j \in DOMAIN all : all[j] = [row EXCEPT !.role = "user"]
    \/ \A j \in DOMAIN all : all[j].agent = row.agent => all[j].turn = row.turn

AskedFits == request.stage \in {"asked", "loop", "answer"} => Wanted(rows, TheAnswer)

\* The answer that was stored is the agent's last row.
LastFits ==
    /\ request.stage \in {"count", "trim", "learn"} =>
         \E i \in RowsOf(current.agent, rows) :
            rows[i] = TheAnswer /\ \A j \in RowsOf(current.agent, rows) : j <= i
    /\ request.stage = "learn" => Cardinality(RowsOf(current.agent, rows)) \in 0..MaxRows

\* The rows that a memory of turn n comes from are of this agent.
Names(all, n, agent) == \A i \in DOMAIN all : IsSource(all[i], n) => all[i].agent = agent

Memory == [turn : Int, how : {"told", "extracted"}, agent : Agents, source : Int]

Linked(all, kept, upto) ==
    /\ kept \subseteq Memory
    /\ \A m \in kept : m.source # 0 =>
         m.source <= upto /\ Sourced(m.source, all) /\ Names(all, m.source, m.agent)

BackgroundTask == [kind : {"summary", "extraction"}, session : Int, turn : Int, agent : Agents]

Named(task) == task.kind = "extraction" => task.turn <= Past /\ Names(rows, task.turn, task.agent)

TasksFit ==
    /\ tasks \in Seq(BackgroundTask) /\ Len(tasks) <= MaxTasks
    /\ \A n \in DOMAIN tasks : Named(tasks[n])

Asking == {"asked", "loop", "answer", "count", "trim", "learn"}

NamedFits == request.stage \in Asking => Names(rows, turn, current.agent)

MemoriesLinked == Linked(rows, memories, Past)

StoreFits ==
    /\ RowsFit /\ AskedFits /\ LastFits /\ AnswersCounted
    /\ MemoriesLinked /\ TasksFit /\ NamedFits

\* ... nor one of the router's chats.
RoutersAsked ==
    \A t \in Threads : chats[t] = "question" => Wanted(rows, RouterRow(t, "assistant"))

StoreInv == SkillsInv /\ ChatsFit /\ RoutersAsked /\ StoreFits

\* What the session's count has to be.
Owing(row, n) == row.count + 2 * row.behind + 2 * n

Due(s) == Owing(sessions[s], Uncounted(s))

Answered(all, s) == {i \in DOMAIN all : all[i].role = "assistant" /\ all[i].session = s}

LEMMA OwingIs ==
    ASSUME NEW row \in SessionRows, NEW n \in Nat
    PROVE  /\ Owing(row, n) \in Int /\ row.count \in Int /\ row.behind \in Int
           /\ Owing(row, n) = row.count + 2 * row.behind + 2 * n
           /\ LET other == [row EXCEPT !.behind = @ + n]
              IN  Owing(row, n) = other.count + 2 * other.behind
  <1>1. row.count \in Int /\ row.behind \in Int
    BY DEF SessionRows
  <1> DEFINE other == [row EXCEPT !.behind = @ + n]
  <1>2. other.count = row.count /\ other.behind = row.behind + n
    BY BehindRow
  <1> HIDE DEF other
  <1>3. \A c, b, u \in Int : c + 2 * b + 2 * u = c + 2 * (b + u)
    OBVIOUS
  <1>4. Owing(row, n) = other.count + 2 * other.behind
    BY <1>1, <1>2, <1>3 DEF Owing
  <1>5. QED
    BY <1>1, <1>4 DEF Owing, other

LEMMA UncountedNext ==
    /\ \A s : Uncounted(s)' = (IF request'.stage = "count" /\ s = Place' THEN 1 ELSE 0)
                                 + IF s = chatSession' THEN Cardinality(Replied(chats')) ELSE 0
    /\ \A s : Uncounted(s)' \in Nat
  <1>1. Cardinality(Replied(chats')) \in Nat
    BY RepliedIs
  <1>2. \A s : Uncounted(s)' = (IF request'.stage = "count" /\ s = Place' THEN 1 ELSE 0)
                                   + IF s = chatSession' THEN Cardinality(Replied(chats')) ELSE 0
    BY DEF Uncounted, Replied
  <1>3. ASSUME NEW s PROVE Uncounted(s)' \in Nat
    <2> DEFINE n == Uncounted(s)'
               a == IF request'.stage = "count" /\ s = Place' THEN 1 ELSE 0
               c == Cardinality(Replied(chats'))
    <2>1. n = a + IF s = chatSession' THEN c ELSE 0
      BY <1>2
    <2>2. a \in Nat /\ c \in Nat
      BY <1>1
    <2> HIDE DEF n, a, c
    <2>3. n \in Nat
      BY <2>1, <2>2
    <2>4. QED
      BY <2>3 DEF n
  <1>4. QED
    BY <1>2, <1>3

LEMMA CountedIs ==
    ASSUME sessions \in Seq(SessionRows)
    PROVE  AnswersCounted <=>
             \A s \in DOMAIN sessions : 2 * Cardinality(Answered(rows, s)) <= Due(s)
  <1>1. ASSUME NEW s \in DOMAIN sessions PROVE Behind[s].count + 2 * Behind[s].behind = Due(s)
    <2>1. sessions[s] \in SessionRows /\ Uncounted(s) \in Nat
      BY RowsStand, UncountedIs
    <2>2. Behind[s] = [sessions[s] EXCEPT !.behind = @ + Uncounted(s)]
      BY DEF Behind
    <2>3. QED
      BY <2>1, <2>2, OwingIs DEF Due
  <1>2. QED
    BY <1>1 DEF AnswersCounted, Answered

\* What a session is owed before a step and after it.
LEMMA DuesAre ==
    ASSUME sessions \in Seq(SessionRows), sessions' \in Seq(SessionRows),
           NEW s \in DOMAIN sessions, s \in DOMAIN sessions'
    PROVE  /\ sessions[s].count \in Int /\ sessions[s].behind \in Int /\ Uncounted(s) \in Nat
           /\ sessions'[s].count \in Int /\ sessions'[s].behind \in Int /\ Uncounted(s)' \in Nat
           /\ Due(s) = sessions[s].count + 2 * sessions[s].behind + 2 * Uncounted(s)
           /\ Due(s)' = sessions'[s].count + 2 * sessions'[s].behind + 2 * Uncounted(s)'
  <1>1. sessions[s] \in SessionRows /\ sessions'[s] \in SessionRows
    BY ElementOfSeq, LenProperties
  <1>2. Uncounted(s) \in Nat /\ Uncounted(s)' \in Nat
    BY UncountedIs, UncountedNext
  <1>3. Due(s) = Owing(sessions[s], Uncounted(s)) /\ Due(s)' = Owing(sessions'[s], Uncounted(s)')
    BY DEF Due
  <1> HIDE DEF Due, Uncounted
  <1>4. QED
    BY <1>1, <1>2, <1>3, OwingIs

\* Sessions and rows change, and what is counted keeps up.
KeepsUp(s) ==
    IF s \in DOMAIN sessions
    THEN \/ Answered(rows', s) \subseteq Answered(rows, s) /\ Due(s) <= Due(s)'
         \/ /\ \E k : Answered(rows', s) \subseteq Answered(rows, s) \cup {k}
            /\ Due(s) + 2 <= Due(s)'
    ELSE Answered(rows', s) = {} /\ 0 <= Due(s)'

LEMMA CountsKept ==
    ASSUME AnswersCounted, sessions \in Seq(SessionRows), sessions' \in Seq(SessionRows),
           IsTable(rows), \A s \in DOMAIN sessions' : KeepsUp(s)
    PROVE  AnswersCounted'
  <1>0. ASSUME NEW s \in DOMAIN sessions'
        PROVE  Due(s)' \in Int /\ (Behind[s].count + 2 * Behind[s].behind)' = Due(s)'
    <2>1. sessions'[s] \in SessionRows /\ Uncounted(s)' \in Nat
      BY UncountedNext, ElementOfSeq, LenProperties
    <2>2. Behind'[s] = [sessions'[s] EXCEPT !.behind = @ + Uncounted(s)']
      BY DEF Behind
    <2>3. Due(s)' = Owing(sessions'[s], Uncounted(s)')
      BY DEF Due
    <2> HIDE DEF Due, Uncounted, Behind
    <2>4. QED
      BY <2>1, <2>2, <2>3, OwingIs
  <1> SUFFICES ASSUME NEW s \in DOMAIN sessions' PROVE 2 * Cardinality(Answered(rows', s)) <= Due(s)'
    <2>1. AnswersCounted' <=> \A s \in DOMAIN sessions' :
             2 * Cardinality(Answered(rows', s)) <= (Behind[s].count + 2 * Behind[s].behind)'
      BY DEF AnswersCounted, Answered
    <2>2. QED
      BY <1>0, <2>1
  <1>1. KeepsUp(s) /\ Due(s)' \in Int
    BY <1>0
  <1>2. CASE s \in DOMAIN sessions
    <2>1. /\ Due(s) \in Int /\ IsFiniteSet(Answered(rows, s)) /\ Cardinality(Answered(rows, s)) \in Nat
          /\ 2 * Cardinality(Answered(rows, s)) <= Due(s)
      <3>1. IsFiniteSet(Answered(rows, s))
        BY IdsAre, FS_Subset DEF Answered
      <3>2. QED
        BY <1>2, <3>1, CountedIs, RowsStand, UncountedIs, OwingIs, FS_CardinalityType DEF Due
    <2>2. CASE Answered(rows', s) \subseteq Answered(rows, s) /\ Due(s) <= Due(s)'
      <3>1. Cardinality(Answered(rows', s)) <= Cardinality(Answered(rows, s))
            /\ Cardinality(Answered(rows', s)) \in Nat
        BY <2>1, <2>2, FS_Subset, FS_CardinalityType
      <3>2. QED
        BY <1>1, <2>1, <2>2, <3>1
    <2>3. ASSUME NEW k, Answered(rows', s) \subseteq Answered(rows, s) \cup {k}, Due(s) + 2 <= Due(s)'
          PROVE  2 * Cardinality(Answered(rows', s)) <= Due(s)'
      <3> DEFINE more == Answered(rows, s) \cup {k}
      <3>1. IsFiniteSet(more) /\ (\/ Cardinality(more) = Cardinality(Answered(rows, s))
                                  \/ Cardinality(more) = Cardinality(Answered(rows, s)) + 1)
        BY <2>1, FS_AddElement
      <3>2. Answered(rows', s) \subseteq more
        BY <2>3
      <3> HIDE DEF more
      <3>3. Cardinality(Answered(rows', s)) <= Cardinality(more) /\ Cardinality(Answered(rows', s)) \in Nat
        BY <3>1, <3>2, FS_Subset, FS_CardinalityType
      <3>4. QED
        BY <1>1, <2>1, <2>3, <3>1, <3>3
    <2>4. QED
      BY <1>1, <1>2, <2>2, <2>3 DEF KeepsUp
  <1>3. CASE s \notin DOMAIN sessions
    <2>1. Answered(rows', s) = {} /\ 0 <= Due(s)'
      BY <1>1, <1>3 DEF KeepsUp
    <2>2. Cardinality(Answered(rows', s)) = 0
      BY <2>1, FS_EmptySet
    <2>3. QED
      BY <2>1, <2>2
  <1>4. QED
    BY <1>2, <1>3

\* How a step may move the request on: to none that is answered, to one that
\* begins, or the same one.
Quits == request'.stage \notin Asking \cup {"begun"} /\ turn' \in {turn, turn + 1}
Comes == request.stage = "none" /\ request'.stage = "begun" /\ turn' = turn + 1
GoesOn ==
    /\ UNCHANGED <<turn, current, chatSession>> /\ request'.kind = request.kind
    /\ \/ request'.stage = request.stage
       \/ request.stage \in {"asked", "loop"} /\ request'.stage = "answer"
       \/ request.stage = "count" /\ request'.stage = "trim"

\* The tasks are those of before, but for what has no source.
Passing ==
    /\ tasks' \in Seq(BackgroundTask) /\ Len(tasks') <= MaxTasks
    /\ \A n \in DOMAIN tasks' :
         tasks'[n].kind = "extraction" => \E k \in DOMAIN tasks : tasks'[n] = tasks[k]

\* The sessions are those of before, or new ones, and are owed no less.
Growing ==
    /\ DOMAIN sessions \subseteq DOMAIN sessions'
    /\ \A s \in DOMAIN sessions' :
         IF s \in DOMAIN sessions THEN Due(s) <= Due(s)' ELSE 0 <= Due(s)'

TimePasses == turn' \in Int /\ Past \in Int /\ Past' \in Int /\ Past <= Past'

LEMMA PastIs ==
    ASSUME turn \in Int, Quits \/ Comes \/ GoesOn
    PROVE  TimePasses
  <1> USE DEF TimePasses
  <1>1. CASE Quits
    <2>1. turn' \in Int /\ turn <= turn' /\ Past' = turn'
      <3>1. turn' \in {turn, turn + 1} /\ request'.stage # "begun"
        BY <1>1 DEF Quits
      <3>2. Past' = turn'
        BY <3>1 DEF Past
      <3>3. QED
        BY <3>1, <3>2
    <2>2. Past \in Int /\ Past <= turn
      BY DEF Past
    <2>3. QED
      BY <2>1, <2>2
  <1>2. CASE Comes
    BY <1>2 DEF Comes, Past
  <1>3. CASE GoesOn
    BY <1>3 DEF GoesOn, Past
  <1>4. QED
    BY <1>1, <1>2, <1>3

\* The sources among some rows are rows of others.
Within(part, all) ==
    \A i \in DOMAIN part : part[i].role = "user" /\ part[i].by = "brain" =>
        i \in DOMAIN all /\ part[i] = all[i]

LEMMA StillNames ==
    ASSUME NEW part, NEW all, Within(part, all), NEW n, NEW agent, Names(all, n, agent)
    PROVE  Names(part, n, agent)
  BY DEF Within, Names, IsSource

LEMMA PartWithin ==
    ASSUME NEW part, NEW all, Subtable(part, all) PROVE Within(part, all)
  BY DEF Subtable, Within

\* Memories of the same rows, or of more.
LEMMA StillLinked ==
    ASSUME NEW all, NEW more, NEW kept, NEW upto \in Int, NEW later \in Int, upto <= later,
           Linked(all, kept, upto),
           \A i \in DOMAIN all : i \in DOMAIN more /\ more[i] = all[i],
           \A i \in DOMAIN more \ DOMAIN all : ~ IsSource(more[i], more[i].turn) \/ upto < more[i].turn,
           \A i \in DOMAIN more : more[i].turn \in Int
    PROVE  Linked(more, kept, later)
  <1> SUFFICES ASSUME NEW m \in kept, m.source # 0
               PROVE  m.source <= later /\ Sourced(m.source, more) /\ Names(more, m.source, m.agent)
    BY DEF Linked
  <1>1. /\ m.source \in Int /\ m.source <= upto
        /\ Sourced(m.source, all) /\ Names(all, m.source, m.agent)
    BY DEF Linked, Memory
  <1>2. m.source <= later
    BY <1>1
  <1>3. Sourced(m.source, more)
    BY <1>1 DEF Sourced
  <1>4. Names(more, m.source, m.agent)
    <2> SUFFICES ASSUME NEW i \in DOMAIN more, IsSource(more[i], m.source)
                 PROVE  more[i].agent = m.agent
      BY DEF Names
    <2>1. more[i].turn = m.source /\ IsSource(more[i], more[i].turn)
      BY DEF IsSource
    <2>2. i \in DOMAIN all /\ more[i] = all[i]
      BY <1>1, <2>1
    <2>3. QED
      BY <1>1, <2>2 DEF Names
  <1>5. QED
    BY <1>2, <1>3, <1>4

\* What Unlinked is, and keeps.
LEMMA UnlinkedLinked ==
    ASSUME NEW all, NEW part, NEW upto \in Int, NEW later \in Int, upto <= later,
           Linked(all, memories, upto), Within(part, all)
    PROVE  Linked(part, Unlinked(part), later)
  <1> SUFFICES ASSUME NEW m \in Unlinked(part)
               PROVE  /\ m \in Memory
                      /\ m.source # 0 => /\ m.source <= later /\ Sourced(m.source, part)
                                         /\ Names(part, m.source, m.agent)
    BY DEF Linked
  <1>1. PICK o \in memories :
          m = [o EXCEPT !.source = IF Sourced(o.source, part) THEN o.source ELSE 0]
    BY DEF Unlinked
  <1>2. o \in Memory /\ (o.source # 0 => o.source <= upto /\ Names(all, o.source, o.agent))
    BY DEF Linked
  <1>3. CASE Sourced(o.source, part)
    <2>1. m = o
      BY <1>1, <1>2, <1>3 DEF Memory
    <2>2. o.source # 0 => Names(part, o.source, o.agent)
      BY <1>2, StillNames
    <2>3. o.source \in Int
      BY <1>2 DEF Memory
    <2>4. QED
      BY <1>2, <1>3, <2>1, <2>2, <2>3
  <1>4. CASE ~Sourced(o.source, part)
    BY <1>1, <1>2, <1>4 DEF Memory
  <1>5. QED
    BY <1>3, <1>4

\* Tasks that were there already.
LEMMA TasksPass ==
    ASSUME TasksFit, TimePasses, Passing, Within(rows', rows)
    PROVE  TasksFit'
  <1>1. Past \in Int /\ Past' \in Int /\ Past <= Past'
    BY DEF TimePasses
  <1> SUFFICES ASSUME NEW n \in DOMAIN tasks', tasks'[n].kind = "extraction"
               PROVE  tasks'[n].turn <= Past' /\ Names(rows', tasks'[n].turn, tasks'[n].agent)
    BY DEF TasksFit, Passing, Named
  <1>2. PICK k \in DOMAIN tasks : tasks'[n] = tasks[k]
    BY DEF Passing
  <1>3. tasks[k] \in BackgroundTask /\ tasks[k].turn <= Past /\ Names(rows, tasks[k].turn, tasks[k].agent)
    <2>1. tasks[k] \in BackgroundTask
      BY ElementOfSeq, LenProperties DEF TasksFit
    <2>2. QED
      BY <1>2, <2>1 DEF TasksFit, Named
  <1>4. tasks[k].turn \in Int
    BY <1>3 DEF BackgroundTask
  <1>5. Names(rows', tasks[k].turn, tasks[k].agent)
    BY <1>3, StillNames
  <1>6. QED
    BY <1>1, <1>2, <1>3, <1>4, <1>5

LEMMA RowsLess ==
    ASSUME RowsFit, TimePasses, DOMAIN sessions \subseteq DOMAIN sessions',
           Subtable(rows', rows),
           \/ Newest(rows', rows)
           \/ \E s : DOMAIN rows' = {i \in DOMAIN rows : rows[i].session # s}
    PROVE  RowsFit'
  <1>1. turn \in Int /\ TableFits(rows, Past, DOMAIN sessions) /\ Follows(rows)
    BY DEF RowsFit
  <1>2. turn' \in Int /\ Past \in Int /\ Past' \in Int /\ Past <= Past'
    BY <1>1 DEF TimePasses
  <1>3. TableFits(rows', Past, DOMAIN sessions)
    BY <1>1, <1>2, PartFits
  <1>4. TableFits(rows', Past', DOMAIN sessions')
    BY <1>2, <1>3, TableGrows
  <1>5. Follows(rows')
    BY <1>1, NewestFollows, DeletedFollows
  <1>6. QED
    BY <1>2, <1>4, <1>5 DEF RowsFit

LEMMA SameRows ==
    ASSUME RowsFit, rows' = rows
    PROVE  Subtable(rows', rows) /\ Newest(rows', rows) /\ Within(rows', rows) /\ IsTable(rows)
  BY DEF RowsFit, TableFits, Subtable, Newest, Within

\* What is trimmed is older than what an answer follows.
LEMMA WantedOfPart ==
    ASSUME NEW all, NEW upto, NEW places, TableFits(all, upto, places),
           NEW part, Subtable(part, all), Newest(part, all), NEW row, Wanted(all, row),
           \A j \in DOMAIN all : all[j].turn <= row.turn, row.turn \in Int,
           [row EXCEPT !.role = "user"].agent = row.agent,
           [row EXCEPT !.role = "user"].turn = row.turn
    PROVE  Wanted(part, row)
  <1> DEFINE n == NextId(all)
  <1>1. n \in Int /\ \A i \in DOMAIN all : i < n
    BY NextIdIs DEF TableFits
  <1> HIDE DEF n
  <1>2. Asks(all, n, row)
    BY <1>1 DEF Asks, Wanted
  <1>3. Asks(part, n, row)
    BY <1>1, <1>2, NewestAsks
  <1>4. QED
    BY <1>1, <1>3 DEF Asks, Wanted, Subtable

LEMMA AnswerIs ==
    /\ TheAnswer.turn = turn /\ TheAnswer.agent = current.agent /\ TheAnswer.session = Place
    /\ TheAnswer.role = "assistant" /\ TheAnswer.by = "brain"
    /\ [TheAnswer EXCEPT !.role = "user"].agent = current.agent
    /\ [TheAnswer EXCEPT !.role = "user"].turn = turn
    /\ [TheAnswer EXCEPT !.role = "user"] = Row("user", "brain", current.agent, Place)
  BY DEF TheAnswer, Row

\* Steps at which no row is stored.
LEMMA LessFits ==
    ASSUME StoreInv, SessionsFit', TasksFit', MemoriesLinked', Growing,
           Quits \/ Comes \/ GoesOn, Subtable(rows', rows),
           \/ Newest(rows', rows)
           \/ Quits /\ \E s : DOMAIN rows' = {i \in DOMAIN rows : rows[i].session # s},
           rows' = rows \/ request'.stage \notin {"count", "trim", "learn"}
    PROVE  StoreFits'
  <1>1. /\ RowsFit /\ AskedFits /\ LastFits /\ AnswersCounted /\ NamedFits
        /\ sessions \in Seq(SessionRows) /\ sessions' \in Seq(SessionRows)
        /\ turn \in Int /\ TableFits(rows, Past, DOMAIN sessions) /\ IsTable(rows)
    BY DEF StoreInv, StoreFits, SkillsInv, SessionsFit, RowsFit, TableFits
  <1>2. TimePasses
    BY <1>1, PastIs
  <1>3. RowsFit'
    BY <1>1, <1>2, RowsLess DEF Growing
  <1>4. ASSUME request'.stage \in Asking
        PROVE  GoesOn /\ Place' = Place /\ TheAnswer' = TheAnswer /\ ~Quits
    <2>1. GoesOn /\ ~Quits
      BY <1>4 DEF Quits, Comes, Asking
    <2>2. Place' = Place
      BY <2>1 DEF GoesOn, Place
    <2>3. QED
      BY <2>1, <2>2 DEF GoesOn, TheAnswer, Row
  <1>5. AskedFits'
    <2> SUFFICES ASSUME request'.stage \in {"asked", "loop", "answer"}
                 PROVE  Wanted(rows', TheAnswer')
      BY DEF AskedFits, Wanted
    <2>1. GoesOn /\ TheAnswer' = TheAnswer /\ Newest(rows', rows)
      BY <1>4 DEF Asking
    <2>2. Wanted(rows, TheAnswer) /\ request.stage # "begun"
      BY <1>1, <2>1 DEF GoesOn, AskedFits
    <2>3. \A j \in DOMAIN rows : rows[j].turn <= TheAnswer.turn
      BY <1>1, <2>2, AnswerIs DEF TableFits, Past
    <2>4. TheAnswer.turn \in Int
      BY <1>1, AnswerIs
    <2>5. Wanted(rows', TheAnswer)
      BY <1>1, <2>1, <2>2, <2>3, <2>4, AnswerIs, WantedOfPart
    <2>6. QED
      BY <2>1, <2>5
  <1>6. LastFits'
    <2> SUFFICES ASSUME request'.stage \in {"count", "trim", "learn"} PROVE LastFits'
      BY DEF LastFits
    <2>1. GoesOn /\ TheAnswer' = TheAnswer /\ rows' = rows /\ current' = current
          /\ request.stage \in {"count", "trim", "learn"}
          /\ (request'.stage = "learn" => request.stage = "learn")
      BY <1>4 DEF Asking, GoesOn
    <2>2. QED
      BY <1>1, <2>1 DEF LastFits, RowsOf
  <1>7. AnswersCounted'
    <2> SUFFICES ASSUME NEW s \in DOMAIN sessions' PROVE KeepsUp(s)
      BY <1>1, CountsKept
    <2>1. Answered(rows', s) \subseteq Answered(rows, s)
      BY DEF Answered, Subtable
    <2>2. CASE s \in DOMAIN sessions
      BY <2>1, <2>2 DEF KeepsUp, Growing
    <2>3. CASE s \notin DOMAIN sessions
      <3>1. \A i \in DOMAIN rows : rows[i].session \in DOMAIN sessions
        BY <1>1 DEF TableFits
      <3>2. Answered(rows', s) = {}
        BY <2>1, <2>3, <3>1 DEF Answered
      <3>3. QED
        BY <2>3, <3>2 DEF KeepsUp, Growing
    <2>4. QED
      BY <2>2, <2>3
  <1>8. NamedFits'
    <2> SUFFICES ASSUME request'.stage \in Asking PROVE Names(rows', turn', current.agent')
      BY DEF NamedFits, Names, IsSource
    <2>1. UNCHANGED <<turn, current>> /\ Names(rows, turn, current.agent)
      BY <1>1, <1>4 DEF NamedFits, GoesOn, Asking
    <2>2. QED
      BY <2>1, StillNames, PartWithin
  <1>9. QED
    BY <1>3, <1>5, <1>6, <1>7, <1>8 DEF StoreFits

StoreParts ==
    /\ RowsFit /\ AskedFits /\ LastFits /\ AnswersCounted /\ MemoriesLinked /\ TasksFit /\ NamedFits
    /\ SessionsFit /\ sessions \in Seq(SessionRows) /\ turn \in Int /\ Past \in Int
    /\ TableFits(rows, Past, DOMAIN sessions) /\ IsTable(rows) /\ Follows(rows)
    /\ Linked(rows, memories, Past)
    /\ request \in Request /\ current.agent \in Agents /\ current.session \in DOMAIN sessions
    /\ Place = current.session /\ chatSession = current.session
    /\ ChatsFit /\ RoutersAsked
    /\ request.stage \notin {"loop", "agents"} => Replied(chats) = {}
    /\ request.stage \notin {"loop", "agents", "count"} => \A s : Uncounted(s) = 0

LEMMA PartsOf ==
    ASSUME StoreInv PROVE StoreParts
  <1>1. /\ StoreFits /\ SessionsFit /\ RequestsFit /\ AgentsFit
    BY DEF StoreInv, SkillsInv, WorkInv
  <1>2. turn \in Int /\ TableFits(rows, Past, DOMAIN sessions) /\ Follows(rows)
    BY <1>1 DEF StoreFits, RowsFit
  <1>3. Past \in Int
    BY <1>2 DEF Past
  <1>4. Place = current.session /\ chatSession = current.session
    BY <1>1, PlaceIsCurrent
  <1>5. ASSUME request.stage \notin {"loop", "agents"} PROVE Replied(chats) = {}
    <2>1. \A t \in Threads : chats[t] = "nothing"
      BY <1>5, Silent DEF StoreInv, SkillsInv, WorkInv, StagesFit
    <2>2. QED
      BY <2>1 DEF Replied
  <1>6. ASSUME request.stage \notin {"loop", "agents", "count"}, NEW s PROVE Uncounted(s) = 0
    <2>1. Cardinality(Replied(chats)) = 0
      BY <1>5, <1>6, FS_EmptySet
    <2>2. QED
      BY <1>6, <2>1, UncountedIs
  <1>7. ChatsFit /\ RoutersAsked
    BY DEF StoreInv
  <1>8. QED
    BY <1>1, <1>2, <1>3, <1>4, <1>5, <1>6, <1>7
       DEF StoreParts, StoreFits, MemoriesLinked, SessionsFit, RequestsFit, AgentsFit, TableFits

\* Steps that leave the rows and the memories alone.
LEMMA QuietFits ==
    ASSUME StoreInv, SessionsFit', UNCHANGED <<rows, memories>>, Passing, Growing,
           Quits \/ Comes \/ GoesOn
    PROVE  StoreFits'
  <1>1. StoreParts
    BY PartsOf
  <1>2. TimePasses
    BY <1>1, PastIs DEF StoreParts
  <1>3. Subtable(rows', rows) /\ Newest(rows', rows) /\ Within(rows', rows)
    BY <1>1, SameRows DEF StoreParts
  <1>4. TasksFit'
    BY <1>1, <1>2, <1>3, TasksPass DEF StoreParts
  <1>5. MemoriesLinked'
    <2>1. \A i \in DOMAIN rows : rows[i].turn \in Int
      BY <1>1 DEF StoreParts, TableFits
    <2>2. Linked(rows, memories, Past')
      BY <1>1, <1>2, <2>1, StillLinked DEF StoreParts, TimePasses
    <2>3. QED
      BY <2>2 DEF MemoriesLinked
  <1>6. QED
    BY <1>3, <1>4, <1>5, LessFits

\* The same sessions are owed the same.
LEMMA SameDues ==
    ASSUME StoreParts, sessions' = sessions,
           request.stage # "count" \/ (request'.stage = "count" /\ Place' = Place),
           \/ request.stage \notin {"loop", "agents"}
           \/ Replied(chats') = Replied(chats) /\ UNCHANGED chatSession
    PROVE  Growing
  <1> SUFFICES ASSUME NEW s \in DOMAIN sessions PROVE Due(s) <= Due(s)'
    BY DEF Growing
  <1>1. /\ sessions[s].count \in Int /\ sessions[s].behind \in Int
        /\ Uncounted(s) \in Nat /\ Uncounted(s)' \in Nat
        /\ Due(s) = sessions[s].count + 2 * sessions[s].behind + 2 * Uncounted(s)
        /\ Due(s)' = sessions[s].count + 2 * sessions[s].behind + 2 * Uncounted(s)'
    BY DuesAre DEF StoreParts
  <1>2. Uncounted(s) <= Uncounted(s)'
    <2> DEFINE a == IF request.stage = "count" /\ s = Place THEN 1 ELSE 0
               b == IF request'.stage = "count" /\ s = Place' THEN 1 ELSE 0
               c == IF s = chatSession THEN Cardinality(Replied(chats)) ELSE 0
               d == IF s = chatSession' THEN Cardinality(Replied(chats')) ELSE 0
    <2>1. Uncounted(s) = a + c /\ Uncounted(s)' = b + d
      BY UncountedIs, UncountedNext
    <2>2. a \in Nat /\ b \in Nat /\ a <= b
      OBVIOUS
    <2>3. c \in Nat /\ d \in Nat
      BY RepliedIs
    <2>4. c <= d
      <3>1. CASE request.stage \notin {"loop", "agents"}
        <4>1. c = 0
          BY <3>1, FS_EmptySet DEF StoreParts
        <4> HIDE DEF c, d
        <4>2. QED
          BY <2>3, <4>1
      <3>2. CASE Replied(chats') = Replied(chats) /\ UNCHANGED chatSession
        <4>1. c = d
          BY <3>2
        <4> HIDE DEF c, d
        <4>2. QED
          BY <2>3, <4>1
      <3>3. QED
        BY <3>1, <3>2
    <2> HIDE DEF a, b, c, d
    <2>5. QED
      BY <2>1, <2>2, <2>3, <2>4
  <1> HIDE DEF Due, Uncounted
  <1>3. QED
    BY <1>1, <1>2

StillRows(all) ==
    /\ all \in Seq(SessionRows) /\ DOMAIN all = DOMAIN sessions
    /\ \A s \in DOMAIN sessions :
         all[s].count = sessions[s].count /\ all[s].behind = sessions[s].behind

LEMMA StillOwed ==
    ASSUME StoreParts, NEW all, StillRows(all), request.stage = "none", NEW s \in DOMAIN sessions
    PROVE  Due(s) <= Owing(all[s], 0)
  <1>1. sessions[s] \in SessionRows /\ all[s] \in SessionRows
    BY RowsStand, ElementOfSeq, LenProperties DEF StoreParts, StillRows
  <1>2. Due(s) = Owing(sessions[s], 0)
    BY DEF Due, StoreParts
  <1>3. Owing(all[s], 0) = Owing(sessions[s], 0)
    BY DEF Owing, StillRows
  <1>4. Owing(sessions[s], 0) \in Int
    BY <1>1, OwingIs
  <1>5. QED
    BY <1>2, <1>3, <1>4

\* What is to be counted yet is not owed less.
LEMMA LeastOwed ==
    ASSUME NEW row \in SessionRows, NEW n \in Nat PROVE Owing(row, 0) <= Owing(row, n)
  <1>1. row.count \in Int /\ row.behind \in Int
    BY DEF SessionRows
  <1>2. QED
    BY <1>1 DEF Owing

LEMMA RowsOwed ==
    ASSUME sessions \in Seq(SessionRows), sessions' \in Seq(SessionRows),
           DOMAIN sessions = DOMAIN sessions',
           \A s \in DOMAIN sessions : Due(s) <= Owing(sessions'[s], 0)
    PROVE  Growing
  <1> SUFFICES ASSUME NEW s \in DOMAIN sessions PROVE Due(s) <= Due(s)'
    BY DEF Growing
  <1>1. sessions[s] \in SessionRows /\ sessions'[s] \in SessionRows
    BY RowsStand, ElementOfSeq, LenProperties
  <1>2. Uncounted(s) \in Nat /\ Uncounted(s)' \in Nat
    BY UncountedIs, UncountedNext
  <1>3. Due(s) = Owing(sessions[s], Uncounted(s)) /\ Due(s)' = Owing(sessions'[s], Uncounted(s)')
    BY DEF Due
  <1>4. Due(s) <= Owing(sessions'[s], 0)
    OBVIOUS
  <1> HIDE DEF Due, Uncounted
  <1>5. /\ Due(s) \in Int /\ Due(s)' \in Int /\ Owing(sessions'[s], 0) \in Int
        /\ Owing(sessions'[s], 0) <= Due(s)'
    <2>1. 0 \in Nat /\ Owing(sessions'[s], 0) \in Int
      BY <1>1, OwingIs
    <2>2. Due(s) \in Int
      BY <1>1, <1>2, <1>3, OwingIs
    <2>3. Due(s)' \in Int /\ Owing(sessions'[s], 0) <= Due(s)'
      BY <1>1, <1>2, <1>3, OwingIs, LeastOwed
    <2>4. QED
      BY <2>1, <2>2, <2>3
  <1>6. QED
    BY <1>4, <1>5

LEMMA StillDues ==
    ASSUME StoreParts, StillRows(sessions'), request.stage = "none"
    PROVE  Growing
  BY StillOwed, RowsOwed DEF StillRows, StoreParts

\* A session is made after some that are owed enough.
LEMMA OpenedDues ==
    ASSUME NEW all \in Seq(SessionRows), NEW a \in Agents, Opens(a, all),
           sessions \in Seq(SessionRows), DOMAIN all = DOMAIN sessions,
           \A s \in DOMAIN sessions : Due(s) <= Owing(all[s], 0)
    PROVE  Growing
  <1> DEFINE row == NewSession(a)
  <1>1. row \in SessionRows /\ row.count = 0 /\ row.behind = 0
    BY DEF NewSession, SessionRows
  <1>2. sessions' = Append(all, row)
    BY DEF Opens
  <1> HIDE DEF row
  <1>3. /\ sessions' \in Seq(SessionRows) /\ Len(sessions') = Len(all) + 1
        /\ \A s \in 1..Len(all) : sessions'[s] = all[s]
        /\ sessions'[Len(all) + 1] = row
    BY <1>1, <1>2, AppendProperties
  <1>4. DOMAIN all = 1..Len(all) /\ Len(all) \in Nat /\ DOMAIN sessions' = 1..Len(sessions')
    BY <1>3, LenProperties
  <1>5. DOMAIN sessions \subseteq DOMAIN sessions'
    BY <1>3, <1>4
  <1>6. ASSUME NEW s \in DOMAIN sessions'
        PROVE  /\ s \in DOMAIN sessions => Due(s) <= Due(s)'
               /\ s \notin DOMAIN sessions => 0 <= Due(s)'
    <2>1. Due(s)' = Owing(sessions'[s], Uncounted(s)') /\ Uncounted(s)' \in Nat
      BY UncountedNext DEF Due
    <2>2. sessions'[s] \in SessionRows
      BY <1>3, ElementOfSeq, LenProperties
    <2>3. /\ Owing(sessions'[s], 0) <= Due(s)' /\ Due(s)' \in Int
          /\ Owing(sessions'[s], 0) = sessions'[s].count + 2 * sessions'[s].behind
          /\ Owing(sessions'[s], 0) \in Int /\ sessions'[s].count \in Int /\ sessions'[s].behind \in Int
      <3> HIDE DEF Due, Uncounted
      <3>1. Due(s)' \in Int /\ Owing(sessions'[s], 0) <= Due(s)'
        BY <2>1, <2>2, LeastOwed, OwingIs
      <3>2. sessions'[s].count \in Int /\ sessions'[s].behind \in Int
        BY <2>2 DEF SessionRows
      <3>3. /\ Owing(sessions'[s], 0) = sessions'[s].count + 2 * sessions'[s].behind
            /\ Owing(sessions'[s], 0) \in Int
        BY <3>2 DEF Owing
      <3>4. QED
        BY <3>1, <3>2, <3>3
    <2>4. CASE s \in DOMAIN sessions
      <3>1. sessions'[s] = all[s]
        BY <1>3, <1>4, <2>4
      <3>2. Due(s) <= Owing(all[s], 0) /\ Due(s) \in Int
        <4>1. sessions[s] \in SessionRows /\ Uncounted(s) \in Nat
          BY <2>4, RowsStand, UncountedIs
        <4>2. QED
          BY <2>4, <4>1, OwingIs DEF Due
      <3> HIDE DEF Due
      <3>3. QED
        BY <2>3, <2>4, <3>1, <3>2
    <2>5. CASE s \notin DOMAIN sessions
      <3>1. sessions'[s] = row
        BY <1>3, <1>4, <2>5
      <3> HIDE DEF Due
      <3>2. QED
        BY <1>1, <2>3, <2>5, <3>1
    <2>6. QED
      BY <2>4, <2>5
  <1>7. QED
    BY <1>5, <1>6 DEF Growing

LEMMA SameTasks ==
    ASSUME StoreParts, tasks' = tasks \/ tasks' = <<>> PROVE Passing
  <1>1. tasks \in Seq(BackgroundTask) /\ Len(tasks) <= MaxTasks
    BY DEF StoreParts, TasksFit
  <1>2. MaxTasks \in Nat
    BY BrainAssumption
  <1>3. CASE tasks' = tasks
    BY <1>1, <1>3 DEF Passing
  <1>4. CASE tasks' = <<>>
    <2>1. tasks' \in Seq(BackgroundTask) /\ Len(tasks') = 0 /\ DOMAIN tasks' = {}
      BY <1>4
    <2>2. QED
      BY <1>2, <2>1 DEF Passing
  <1>5. QED
    BY <1>3, <1>4

LEMMA TasksLess ==
    ASSUME StoreParts, tasks # <<>>, tasks' = Tail(tasks)
    PROVE  Passing /\ Task \in BackgroundTask /\ Named(Task)
  <1>1. tasks \in Seq(BackgroundTask) /\ Len(tasks) <= MaxTasks /\ \A n \in DOMAIN tasks : Named(tasks[n])
    BY DEF StoreParts, TasksFit
  <1>2. MaxTasks \in Nat /\ Len(tasks) \in Nat /\ DOMAIN tasks = 1..Len(tasks)
    BY <1>1, BrainAssumption, LenProperties
  <1>3. Task = tasks[1] /\ 1 \in DOMAIN tasks
    BY <1>1, <1>2 DEF Task
  <1>4. /\ tasks' \in Seq(BackgroundTask) /\ Len(tasks') = Len(tasks) - 1
        /\ \A n \in 1..Len(tasks') : tasks'[n] = tasks[n + 1]
    BY <1>1
  <1>5. DOMAIN tasks' = 1..Len(tasks')
    BY <1>4
  <1>6. ASSUME NEW n \in DOMAIN tasks' PROVE \E k \in DOMAIN tasks : tasks'[n] = tasks[k]
    <2>1. n + 1 \in DOMAIN tasks
      BY <1>2, <1>4, <1>5
    <2>2. QED
      BY <1>4, <1>5, <2>1
  <1>7. tasks[1] \in BackgroundTask
    BY <1>1, <1>3
  <1>8. QED
    BY <1>1, <1>2, <1>3, <1>4, <1>6, <1>7 DEF Passing

LEMMA TaskAdded ==
    ASSUME StoreParts, NEW task \in BackgroundTask, Submits(task)
    PROVE  /\ tasks' \in Seq(BackgroundTask) /\ Len(tasks') <= MaxTasks
           /\ \A n \in DOMAIN tasks' : tasks'[n] = task \/ \E k \in DOMAIN tasks : tasks'[n] = tasks[k]
  <1>1. tasks \in Seq(BackgroundTask) /\ Len(tasks) <= MaxTasks
    BY DEF StoreParts, TasksFit
  <1>2. MaxTasks \in Nat /\ Len(tasks) \in Nat /\ DOMAIN tasks = 1..Len(tasks)
    BY <1>1, BrainAssumption, LenProperties
  <1>3. CASE tasks' = tasks
    BY <1>1, <1>3
  <1>4. CASE tasks' = Append(tasks, task) /\ Len(tasks) < MaxTasks
    <2>1. /\ tasks' \in Seq(BackgroundTask) /\ Len(tasks') = Len(tasks) + 1
          /\ \A n \in 1..Len(tasks) : tasks'[n] = tasks[n]
          /\ tasks'[Len(tasks) + 1] = task
      BY <1>1, <1>4, AppendProperties
    <2>2. DOMAIN tasks' = 1..Len(tasks')
      BY <2>1
    <2>3. QED
      BY <1>2, <1>4, <2>1, <2>2
  <1>5. QED
    BY <1>3, <1>4 DEF Submits

LEMMA SummaryPasses ==
    ASSUME StoreParts, NEW task \in BackgroundTask, task.kind = "summary", Submits(task)
    PROVE  Passing
  BY TaskAdded DEF Passing

-----------------------------------------------------------------------------
(* The steps of a request. *)

LEMMA UserStored ==
    ASSUME StoreInv, request.stage = "begun",
           rows' = Stored(rows, Row("user", "brain", current.agent, Place)),
           request'.stage \in {"asked", "loop"}, request'.kind = request.kind,
           UNCHANGED <<sessions, memories, tasks, turn, current, chatSession>>
    PROVE  StoreFits'
  <1>1. StoreParts
    BY PartsOf
  <1> DEFINE row == Row("user", "brain", current.agent, Place)
             k == NextId(rows)
  <1>2. /\ row \in [turn : Int, role : Roles, by : {"brain", "router"}, agent : Agents,
                    session : DOMAIN sessions]
        /\ row.turn = turn /\ row.role = "user" /\ row.by = "brain" /\ row.agent = current.agent
    BY <1>1 DEF StoreParts, Row, Roles
  <1>3. [TheAnswer EXCEPT !.role = "user"] = row
    BY AnswerIs
  <1> HIDE DEF row
  <1>4. rows' = Stored(rows, row)
    BY DEF row
  <1>5. /\ IsTable(rows') /\ DOMAIN rows' = DOMAIN rows \cup {k} /\ rows'[k] = row
        /\ k \notin DOMAIN rows /\ \A i \in DOMAIN rows : rows'[i] = rows[i] /\ i < k
    <2>1. IsTable(rows)
      BY <1>1 DEF StoreParts
    <2>2. QED
      BY <1>4, <2>1, StoredIs
  <1> HIDE DEF k
  <1>6. turn \in Int /\ Past = turn - 1 /\ Past' = turn
    BY <1>1 DEF Past, StoreParts
  <1>7. Place' = Place /\ TheAnswer' = TheAnswer
    <2>1. Place' = Place
      BY DEF Place
    <2>2. QED
      BY <2>1 DEF TheAnswer, Row
  <1>8. TableFits(rows', turn, DOMAIN sessions)
    BY <1>1, <1>2, <1>4, <1>6, StoredFits DEF StoreParts
  <1>9. RowsFit'
    <2>1. Follows(rows')
      BY <1>1, <1>2, <1>4, <1>6, StoredFollows DEF StoreParts
    <2>2. QED
      BY <1>6, <1>8, <2>1 DEF RowsFit
  <1>10. AskedFits'
    BY <1>3, <1>5, <1>7 DEF AskedFits, Wanted
  <1>11. LastFits'
    BY DEF LastFits
  <1>12. \A i \in DOMAIN rows : rows[i].turn \in Int /\ rows[i].turn < turn
    BY <1>1, <1>6 DEF StoreParts, TableFits
  <1>13. AnswersCounted'
    <2>1. Growing
      BY <1>1, SameDues
    <2>2. ASSUME NEW s \in DOMAIN sessions' PROVE KeepsUp(s)
      <3>1. Answered(rows', s) \subseteq Answered(rows, s)
        BY <1>2, <1>5 DEF Answered
      <3>2. QED
        BY <2>1, <3>1 DEF Growing, KeepsUp
    <2>3. QED
      BY <1>1, <2>2, CountsKept DEF StoreParts
  <1>14. MemoriesLinked'
    <2>1. \A i \in DOMAIN rows' : rows'[i].turn \in Int
      BY <1>8 DEF TableFits
    <2>2. \A i \in DOMAIN rows' \ DOMAIN rows : Past < rows'[i].turn
      BY <1>2, <1>5, <1>6
    <2>3. Linked(rows', memories, turn)
      BY <1>1, <1>5, <1>6, <2>1, <2>2, StillLinked DEF StoreParts
    <2>4. QED
      BY <1>6, <2>3 DEF MemoriesLinked
  <1>15. TasksFit'
    <2> SUFFICES ASSUME NEW n \in DOMAIN tasks, tasks[n].kind = "extraction"
                 PROVE  tasks[n].turn <= Past' /\ Names(rows', tasks[n].turn, tasks[n].agent)
      BY <1>1 DEF TasksFit, Named, StoreParts
    <2>1. tasks[n] \in BackgroundTask
      BY <1>1, ElementOfSeq, LenProperties DEF StoreParts, TasksFit
    <2>2. tasks[n].turn \in Int
      BY <2>1 DEF BackgroundTask
    <2>3. tasks[n].turn <= Past /\ Names(rows, tasks[n].turn, tasks[n].agent)
      BY <1>1 DEF StoreParts, TasksFit, Named
    <2>4. tasks[n].turn < turn
      BY <1>6, <2>2, <2>3
    <2>5. Names(rows', tasks[n].turn, tasks[n].agent)
      BY <1>2, <1>5, <1>6, <2>2, <2>3, <2>4 DEF Names, IsSource
    <2>6. QED
      BY <1>6, <2>2, <2>4, <2>5
  <1>16. NamedFits'
    <2>1. Names(rows', turn, current.agent)
      BY <1>2, <1>5, <1>6, <1>12 DEF Names, IsSource
    <2>2. QED
      BY <2>1 DEF NamedFits
  <1>17. QED
    BY <1>9, <1>10, <1>11, <1>13, <1>14, <1>15, <1>16 DEF StoreFits

\* The answer is stored after all of the agent's rows.
LEMMA AnswerStored ==
    ASSUME StoreInv, request.stage = "answer", rows' = Stored(rows, TheAnswer),
           request'.stage = "count", request'.kind = request.kind,
           UNCHANGED <<sessions, memories, tasks, turn, current, chatSession>>
    PROVE  StoreFits'
  <1>1. StoreParts
    BY PartsOf
  <1> DEFINE row == TheAnswer
             k == NextId(rows)
  <1>2. /\ row \in [turn : Int, role : Roles, by : {"brain", "router"}, agent : Agents,
                    session : DOMAIN sessions]
        /\ row.turn = turn /\ row.role = "assistant" /\ row.agent = current.agent
        /\ row.session = Place
    BY <1>1 DEF StoreParts, TheAnswer, Row, Roles
  <1>3. Wanted(rows, row)
    BY <1>1 DEF StoreParts, AskedFits
  <1>4. Place' = Place /\ TheAnswer' = row
    <2>1. Place' = Place
      BY DEF Place
    <2>2. QED
      BY <2>1 DEF TheAnswer, Row
  <1>5. rows' = Stored(rows, row)
    OBVIOUS
  <1> HIDE DEF row
  <1>6. /\ IsTable(rows') /\ DOMAIN rows' = DOMAIN rows \cup {k} /\ rows'[k] = row
        /\ k \in Nat \ {0} /\ k \notin DOMAIN rows /\ \A i \in DOMAIN rows : rows'[i] = rows[i] /\ i < k
    <2>1. IsTable(rows)
      BY <1>1 DEF StoreParts
    <2>2. QED
      BY <1>5, <2>1, StoredIs
  <1>7. Asks(rows, k, row)
    BY <1>3, <1>6 DEF Asks, Wanted
  <1>8. turn \in Int /\ Past = turn /\ Past' = turn
    BY <1>1 DEF Past, StoreParts
  <1>9. TableFits(rows', turn, DOMAIN sessions)
    BY <1>1, <1>2, <1>5, <1>8, StoredFits DEF StoreParts
  <1>10. RowsFit'
    <2>1. Follows(rows')
      BY <1>1, <1>5, <1>7, StoredFollows DEF StoreParts
    <2>2. QED
      BY <1>8, <1>9, <2>1 DEF RowsFit
  <1> HIDE DEF k
  <1>11. AskedFits'
    BY DEF AskedFits
  <1>12. LastFits'
    <2>1. k \in RowsOf(current.agent, rows')
      BY <1>2, <1>6 DEF RowsOf
    <2>2. \A j \in RowsOf(current.agent, rows') : j <= k
      <3>1. DOMAIN rows \subseteq Nat
        BY <1>1, IdsAre DEF StoreParts
      <3>2. QED
        BY <1>6, <3>1 DEF RowsOf
    <2>3. QED
      BY <1>4, <1>6, <2>1, <2>2 DEF LastFits
  <1>13. AnswersCounted'
    <2> SUFFICES ASSUME NEW s \in DOMAIN sessions PROVE KeepsUp(s)
      BY <1>1, CountsKept DEF StoreParts
    <2>1. /\ sessions[s].count \in Int /\ sessions[s].behind \in Int /\ Uncounted(s)' \in Nat
          /\ Due(s) = sessions[s].count + 2 * sessions[s].behind + 2 * Uncounted(s)
          /\ Due(s)' = sessions[s].count + 2 * sessions[s].behind + 2 * Uncounted(s)'
      BY <1>1, DuesAre DEF StoreParts
    <2>2. Uncounted(s) = 0
      BY <1>1 DEF StoreParts
    <2>3. CASE s = Place
      <3>1. Uncounted(s)' = 1 + IF s = chatSession' THEN Cardinality(Replied(chats')) ELSE 0
        BY <1>4, <2>3, UncountedNext
      <3>2. Cardinality(Replied(chats')) \in Nat
        BY RepliedIs
      <3> HIDE DEF Due, Uncounted
      <3>3. 1 <= Uncounted(s)'
        BY <3>1, <3>2
      <3>4. Due(s) + 2 <= Due(s)'
        BY <2>1, <2>2, <3>3
      <3>5. Answered(rows', s) \subseteq Answered(rows, s) \cup {k}
        BY <1>6 DEF Answered
      <3>6. QED
        BY <3>4, <3>5 DEF KeepsUp
    <2>4. CASE s # Place
      <3>1. Due(s) <= Due(s)'
        <4> HIDE DEF Due, Uncounted
        <4>1. QED
          BY <2>1, <2>2
      <3>2. Answered(rows', s) \subseteq Answered(rows, s)
        BY <1>2, <1>6, <2>4 DEF Answered
      <3>3. QED
        BY <3>1, <3>2 DEF KeepsUp
    <2>5. QED
      BY <2>3, <2>4
  <1>14. Within(rows', rows)
    BY <1>2, <1>6 DEF Within
  <1>15. MemoriesLinked'
    <2>1. \A i \in DOMAIN rows' : rows'[i].turn \in Int
      BY <1>9 DEF TableFits
    <2>2. \A i \in DOMAIN rows' \ DOMAIN rows : ~ IsSource(rows'[i], rows'[i].turn)
      BY <1>2, <1>6 DEF IsSource
    <2>3. Linked(rows', memories, turn)
      BY <1>1, <1>6, <1>8, <2>1, <2>2, StillLinked DEF StoreParts
    <2>4. QED
      BY <1>8, <2>3 DEF MemoriesLinked
  <1>16. TasksFit'
    <2>1. TimePasses
      BY <1>8 DEF TimePasses
    <2>2. QED
      BY <1>1, <1>14, <2>1, SameTasks, TasksPass DEF StoreParts
  <1>17. NamedFits'
    <2>1. Names(rows, turn, current.agent)
      BY <1>1 DEF StoreParts, NamedFits, Asking
    <2>2. Names(rows', turn, current.agent)
      BY <1>14, <2>1, StillNames
    <2>3. QED
      BY <2>2 DEF NamedFits
  <1>18. QED
    BY <1>10, <1>11, <1>12, <1>13, <1>15, <1>16, <1>17 DEF StoreFits

\* The trim keeps the answer, the newest of the agent's rows.
LEMMA TrimFits ==
    ASSUME StoreInv, request.stage = "trim", request'.stage = "learn", request'.kind = request.kind,
           rows' = Trimmed(current.agent, rows), memories' = Unlinked(rows'),
           UNCHANGED <<sessions, tasks, turn, current, chatSession>>
    PROVE  StoreFits'
  <1>1. StoreParts
    BY PartsOf
  <1> DEFINE own == RowsOf(current.agent, rows)
  <1>2. /\ Subtable(rows', rows) /\ Newest(rows', rows)
        /\ \A i \in own : (\A j \in own : j <= i) => i \in DOMAIN rows'
        /\ Cardinality(RowsOf(current.agent, rows')) \in 0..MaxRows
    BY <1>1, TrimmedIs DEF StoreParts
  <1>3. Within(rows', rows)
    BY <1>2, PartWithin
  <1>4. turn \in Int /\ Past = turn /\ Past' = turn /\ TimePasses
    BY <1>1 DEF Past, StoreParts, TimePasses
  <1>5. Place' = Place /\ TheAnswer' = TheAnswer
    <2>1. Place' = Place
      BY DEF Place
    <2>2. QED
      BY <2>1 DEF TheAnswer, Row
  <1>6. RowsFit'
    BY <1>1, <1>2, <1>4, RowsLess DEF StoreParts
  <1>7. AskedFits'
    BY DEF AskedFits
  <1>8. LastFits'
    <2>1. PICK i \in own : rows[i] = TheAnswer /\ \A j \in own : j <= i
      BY <1>1 DEF StoreParts, LastFits
    <2>2. i \in RowsOf(current.agent, rows') /\ rows'[i] = TheAnswer
      BY <1>2, <2>1 DEF RowsOf, Subtable
    <2>3. RowsOf(current.agent, rows') \subseteq own
      BY <1>2 DEF RowsOf, Subtable
    <2>4. \E n \in RowsOf(current.agent, rows') :
            rows'[n] = TheAnswer /\ \A j \in RowsOf(current.agent, rows') : j <= n
      BY <2>1, <2>2, <2>3
    <2>5. QED
      BY <1>2, <1>5, <2>4 DEF LastFits
  <1>9. AnswersCounted'
    <2>1. Growing
      BY <1>1, SameDues
    <2>2. ASSUME NEW s \in DOMAIN sessions' PROVE KeepsUp(s)
      <3>1. Answered(rows', s) \subseteq Answered(rows, s)
        BY <1>2 DEF Answered, Subtable
      <3>2. QED
        BY <2>1, <3>1 DEF Growing, KeepsUp
    <2>3. QED
      BY <1>1, <2>2, CountsKept DEF StoreParts
  <1>10. MemoriesLinked'
    <2>1. Linked(rows', Unlinked(rows'), turn)
      BY <1>1, <1>3, <1>4, UnlinkedLinked DEF StoreParts
    <2>2. QED
      BY <1>4, <2>1 DEF MemoriesLinked
  <1>11. TasksFit'
    BY <1>1, <1>3, <1>4, SameTasks, TasksPass DEF StoreParts
  <1>12. NamedFits'
    <2>1. Names(rows, turn, current.agent)
      BY <1>1 DEF StoreParts, NamedFits, Asking
    <2>2. Names(rows', turn, current.agent)
      BY <1>3, <2>1, StillNames
    <2>3. QED
      BY <2>2 DEF NamedFits
  <1>13. QED
    BY <1>6, <1>7, <1>8, <1>9, <1>10, <1>11, <1>12 DEF StoreFits

\* The router's chat stores a row of its own; what was asked is still asked.
LEMMA RowAdded ==
    ASSUME NEW all, NEW upto \in Int, NEW places, TableFits(all, upto, places), Follows(all),
           NEW row \in [turn : Int, role : Roles, by : {"brain", "router"}, agent : Agents,
                        session : places],
           row.turn = upto, row.role = "assistant" => Wanted(all, row)
    PROVE  LET more == Stored(all, row)
           IN  /\ TableFits(more, upto, places) /\ Follows(more)
               /\ \A i \in DOMAIN all : i \in DOMAIN more /\ more[i] = all[i]
               /\ \A i \in DOMAIN more \ DOMAIN all : more[i] = row
               /\ row.by = "router" => Within(more, all)
               /\ \A other : other.turn = upto /\ Wanted(all, other) => Wanted(more, other)
               /\ \E k : \A s : Answered(more, s) \subseteq Answered(all, s) \cup {k}
               /\ \A s : ~(row.role = "assistant" /\ s = row.session)
                           => Answered(more, s) \subseteq Answered(all, s)
  <1> DEFINE more == Stored(all, row)
             n == NextId(all)
  <1>1. /\ IsTable(more) /\ DOMAIN more = DOMAIN all \cup {n} /\ more[n] = row
        /\ n \notin DOMAIN all /\ \A i \in DOMAIN all : more[i] = all[i] /\ i < n
    <2>1. IsTable(all)
      BY DEF TableFits
    <2>2. QED
      BY <2>1, StoredIs
  <1>2. TableFits(more, upto, places)
    BY StoredFits
  <1>3. Follows(more)
    <2>1. row.role = "assistant" => Asks(all, n, row)
      BY <1>1 DEF Asks, Wanted
    <2>2. QED
      BY <2>1, StoredFollows
  <1> HIDE DEF more, n
  <1>4. \A i \in DOMAIN more : (i \in DOMAIN all /\ more[i] = all[i]) \/ more[i] = row
    BY <1>1
  <1>5. row.by = "router" => Within(more, all)
    BY <1>4 DEF Within
  <1>6. ASSUME NEW other, other.turn = upto, Wanted(all, other) PROVE Wanted(more, other)
    <2>1. CASE \E j \in DOMAIN all : all[j] = [other EXCEPT !.role = "user"]
      <3>1. PICK j \in DOMAIN all : all[j] = [other EXCEPT !.role = "user"]
        BY <2>1
      <3>2. j \in DOMAIN more /\ more[j] = all[j]
        BY <1>1
      <3>3. QED
        BY <3>1, <3>2 DEF Wanted
    <2>2. CASE \A j \in DOMAIN all : all[j].agent = other.agent => all[j].turn = other.turn
      BY <1>4, <1>6, <2>2 DEF Wanted
    <2>3. QED
      BY <1>6, <2>1, <2>2 DEF Wanted
  <1>7. \E k : \A s : Answered(more, s) \subseteq Answered(all, s) \cup {k}
    BY <1>1 DEF Answered
  <1>8. ASSUME NEW s, ~(row.role = "assistant" /\ s = row.session)
        PROVE  Answered(more, s) \subseteq Answered(all, s)
    BY <1>4, <1>8 DEF Answered
  <1>9. QED
    BY <1>1, <1>2, <1>3, <1>5, <1>6, <1>7, <1>8 DEF more

\* ... and the answer is owed.
LEMMA RouterStored ==
    ASSUME StoreInv, NEW agent \in Agents, NEW role \in Roles, request.stage \in {"loop", "agents"},
           rows' = Stored(rows, Row(role, "router", agent, chatSession)),
           role = "assistant" => Wanted(rows, Row(role, "router", agent, chatSession)),
           \/ Replied(chats') = Replied(chats)
           \/ Cardinality(Replied(chats')) = Cardinality(Replied(chats)) + 1,
           role = "assistant" => Cardinality(Replied(chats')) = Cardinality(Replied(chats)) + 1,
           UNCHANGED <<sessions, memories, turn, request, tasks, current, chatSession>>
    PROVE  StoreFits'
  <1>1. StoreParts
    BY PartsOf
  <1> DEFINE row == Row(role, "router", agent, chatSession)
  <1>2. turn \in Int /\ Past = turn /\ Past' = turn /\ TimePasses
    BY <1>1 DEF Past, StoreParts, TimePasses
  <1>3. /\ row \in [turn : Int, role : Roles, by : {"brain", "router"}, agent : Agents,
                     session : DOMAIN sessions]
        /\ row.turn = turn /\ row.role = role /\ row.by = "router" /\ row.session = chatSession
    BY <1>1, <1>2 DEF StoreParts, Row, Roles
  <1>4. rows' = Stored(rows, row)
    OBVIOUS
  <1>5. role = "assistant" => Wanted(rows, row)
    OBVIOUS
  <1> HIDE DEF row
  <1>6. /\ TableFits(rows', turn, DOMAIN sessions) /\ Follows(rows') /\ Within(rows', rows)
        /\ \A other : other.turn = turn /\ Wanted(rows, other) => Wanted(rows', other)
        /\ \A i \in DOMAIN rows : i \in DOMAIN rows' /\ rows'[i] = rows[i]
        /\ \A i \in DOMAIN rows' \ DOMAIN rows : rows'[i] = row
        /\ \E k : \A s : Answered(rows', s) \subseteq Answered(rows, s) \cup {k}
        /\ \A s : ~(role = "assistant" /\ s = chatSession)
                    => Answered(rows', s) \subseteq Answered(rows, s)
    <2>1. turn \in Int /\ TableFits(rows, turn, DOMAIN sessions) /\ Follows(rows)
      BY <1>1, <1>2 DEF StoreParts
    <2>2. /\ row.role = role /\ row.by = "router" /\ row.session = chatSession
          /\ row.turn = turn /\ (row.role = "assistant" => Wanted(rows, row))
      BY <1>3, <1>5
    <2>3. LET more == Stored(rows, row)
          IN  /\ TableFits(more, turn, DOMAIN sessions) /\ Follows(more)
              /\ \A i \in DOMAIN rows : i \in DOMAIN more /\ more[i] = rows[i]
              /\ \A i \in DOMAIN more \ DOMAIN rows : more[i] = row
              /\ row.by = "router" => Within(more, rows)
              /\ \A other : other.turn = turn /\ Wanted(rows, other) => Wanted(more, other)
              /\ \E k : \A s : Answered(more, s) \subseteq Answered(rows, s) \cup {k}
              /\ \A s : ~(row.role = "assistant" /\ s = row.session)
                          => Answered(more, s) \subseteq Answered(rows, s)
      BY <1>3, <2>1, <2>2, RowAdded, Zenon
    <2>4. QED
      BY <1>4, <2>2, <2>3
  <1>7. Place' = Place /\ TheAnswer' = TheAnswer
    <2>1. Place' = Place
      BY DEF Place
    <2>2. QED
      BY <2>1 DEF TheAnswer, Row
  <1>8. RowsFit'
    BY <1>2, <1>6 DEF RowsFit
  <1>9. AskedFits'
    <2> SUFFICES ASSUME request.stage \in {"asked", "loop", "answer"} PROVE Wanted(rows', TheAnswer)
      BY <1>7 DEF AskedFits
    <2>1. Wanted(rows, TheAnswer)
      BY <1>1 DEF StoreParts, AskedFits
    <2>2. QED
      BY <1>6, <2>1, AnswerIs
  <1>10. LastFits'
    BY DEF LastFits
  <1>11. AnswersCounted'
    <2> SUFFICES ASSUME NEW s \in DOMAIN sessions PROVE KeepsUp(s)
      BY <1>1, CountsKept DEF StoreParts
    <2>1. /\ sessions[s].count \in Int /\ sessions[s].behind \in Int
          /\ Uncounted(s) \in Nat /\ Uncounted(s)' \in Nat
          /\ Due(s) = sessions[s].count + 2 * sessions[s].behind + 2 * Uncounted(s)
          /\ Due(s)' = sessions[s].count + 2 * sessions[s].behind + 2 * Uncounted(s)'
      BY <1>1, DuesAre DEF StoreParts
    <2>2. /\ Uncounted(s) = IF s = chatSession THEN Cardinality(Replied(chats)) ELSE 0
          /\ Uncounted(s)' = IF s = chatSession THEN Cardinality(Replied(chats')) ELSE 0
      <3>1. /\ Uncounted(s) = 0 + IF s = chatSession THEN Cardinality(Replied(chats)) ELSE 0
            /\ Uncounted(s)' = 0 + IF s = chatSession THEN Cardinality(Replied(chats')) ELSE 0
        BY UncountedIs, UncountedNext
      <3> HIDE DEF Uncounted
      <3>2. QED
        BY <3>1, RepliedIs
    <2>3. Cardinality(Replied(chats)) \in Nat /\ Cardinality(Replied(chats')) \in Nat
      BY RepliedIs
    <2> HIDE DEF Due, Uncounted
    <2>4. CASE role = "assistant" /\ s = chatSession
      <3>1. Uncounted(s)' = Uncounted(s) + 1
        BY <2>2, <2>4
      <3>2. Due(s) + 2 <= Due(s)'
        BY <2>1, <3>1
      <3>3. QED
        BY <1>6, <3>2 DEF KeepsUp
    <2>5. CASE ~(role = "assistant" /\ s = chatSession)
      <3>1. Uncounted(s) <= Uncounted(s)'
        BY <2>2, <2>3
      <3>2. Due(s) <= Due(s)'
        BY <2>1, <3>1
      <3>3. Answered(rows', s) \subseteq Answered(rows, s)
        BY <1>6, <2>5
      <3>4. QED
        BY <3>2, <3>3 DEF KeepsUp
    <2>6. QED
      BY <2>4, <2>5
  <1>12. MemoriesLinked'
    <2>1. \A i \in DOMAIN rows' : rows'[i].turn \in Int
      BY <1>6 DEF TableFits
    <2>2. /\ \A i \in DOMAIN rows : i \in DOMAIN rows' /\ rows'[i] = rows[i]
          /\ \A i \in DOMAIN rows' \ DOMAIN rows : ~ IsSource(rows'[i], rows'[i].turn)
      <3>1. ~IsSource(row, row.turn)
        BY <1>3 DEF IsSource
      <3>2. QED
        BY <1>6, <3>1
    <2>3. Linked(rows', memories, turn)
      BY <1>1, <1>2, <2>1, <2>2, StillLinked DEF StoreParts
    <2>4. QED
      BY <1>2, <2>3 DEF MemoriesLinked
  <1>13. TasksFit'
    BY <1>1, <1>2, <1>6, SameTasks, TasksPass DEF StoreParts
  <1>14. NamedFits'
    <2> SUFFICES ASSUME request.stage \in Asking PROVE Names(rows', turn, current.agent)
      BY DEF NamedFits
    <2>1. Names(rows, turn, current.agent)
      BY <1>1 DEF StoreParts, NamedFits
    <2>2. QED
      BY <1>6, <2>1, StillNames
  <1>15. QED
    BY <1>8, <1>9, <1>10, <1>11, <1>12, <1>13, <1>14 DEF StoreFits

\* Steps that leave the rows alone.
LEMMA RowsStay ==
    ASSUME StoreInv, SessionsFit', rows' = rows, TasksFit', MemoriesLinked', Growing,
           Quits \/ Comes \/ GoesOn
    PROVE  StoreFits'
  <1>1. Subtable(rows', rows) /\ Newest(rows', rows)
    BY PartsOf, SameRows DEF StoreParts
  <1>2. QED
    BY <1>1, LessFits

LEMMA LearnFits ==
    ASSUME StoreInv, SessionsFit', Learn PROVE StoreFits'
  <1>1. StoreParts
    BY PartsOf
  <1>2. /\ request.stage = "learn" /\ request' = NoRequest
        /\ UNCHANGED <<sessions, rows, memories, turn, current, chatSession>>
    BY DEF Learn, Ends, ServeRest, storeVars, placeVars
  <1>3. request'.stage = "none"
    BY <1>2 DEF NoRequest
  <1>4. Quits
    BY <1>2, <1>3 DEF Quits, Asking
  <1>5. Growing
    BY <1>1, <1>2, SameDues
  <1>6. turn \in Int /\ Past = turn /\ Past' = turn
    BY <1>1, <1>2, <1>3 DEF StoreParts, Past
  <1>7. MemoriesLinked'
    BY <1>1, <1>2, <1>6 DEF StoreParts, MemoriesLinked, Linked, Sourced, Names, IsSource
  <1> DEFINE task == [kind |-> "extraction", session |-> 0, turn |-> turn, agent |-> current.agent]
  <1>8. task \in BackgroundTask /\ Submits(task)
    <2>1. task \in BackgroundTask
      BY <1>1 DEF StoreParts, BackgroundTask
    <2>2. QED
      BY <2>1 DEF Learn, LearningAgent
  <1>9. task.turn = turn /\ task.agent = current.agent
    OBVIOUS
  <1> HIDE DEF task
  <1>10. TasksFit'
    <2>1. /\ tasks' \in Seq(BackgroundTask) /\ Len(tasks') <= MaxTasks
          /\ \A n \in DOMAIN tasks' : tasks'[n] = task \/ \E k \in DOMAIN tasks : tasks'[n] = tasks[k]
      BY <1>1, <1>8, TaskAdded
    <2> SUFFICES ASSUME NEW n \in DOMAIN tasks', tasks'[n].kind = "extraction"
                 PROVE  tasks'[n].turn <= Past' /\ Names(rows', tasks'[n].turn, tasks'[n].agent)
      BY <2>1 DEF TasksFit, Named
    <2>2. CASE tasks'[n] = task
      <3>1. Names(rows, turn, current.agent)
        BY <1>1, <1>2 DEF StoreParts, NamedFits, Asking
      <3>2. QED
        BY <1>2, <1>6, <1>9, <2>2, <3>1
    <2>3. ASSUME NEW k \in DOMAIN tasks, tasks'[n] = tasks[k]
          PROVE  tasks'[n].turn <= Past' /\ Names(rows', tasks'[n].turn, tasks'[n].agent)
      BY <1>1, <1>2, <1>6, <2>3 DEF StoreParts, TasksFit, Named
    <2>4. QED
      BY <2>1, <2>2, <2>3
  <1>11. QED
    BY <1>2, <1>4, <1>5, <1>7, <1>10, RowsStay

LEMMA MemoriesChange ==
    ASSUME StoreInv, SessionsFit',
           UNCHANGED <<rows, sessions, request, turn, current, chatSession, chats>>, Passing, Linked(rows, memories', Past)
    PROVE  StoreFits'
  <1>1. StoreParts
    BY PartsOf
  <1>2. Past' = Past /\ GoesOn /\ Place' = Place
    BY DEF Past, GoesOn, Place
  <1>3. Growing
    BY <1>1, <1>2, SameDues
  <1>4. MemoriesLinked'
    BY <1>2 DEF MemoriesLinked
  <1>5. TasksFit'
    <2>1. TimePasses /\ Within(rows', rows)
      BY <1>1, <1>2, PastIs, SameRows DEF StoreParts
    <2>2. QED
      BY <1>1, <2>1, TasksPass DEF StoreParts
  <1>6. QED
    BY <1>2, <1>3, <1>4, <1>5, RowsStay

LEMMA ExtractFits ==
    ASSUME StoreInv, SessionsFit', Extract PROVE StoreFits'
  <1>1. StoreParts
    BY PartsOf
  <1>2. /\ tasks # <<>> /\ tasks' = Tail(tasks) /\ Task.kind = "extraction"
        /\ UNCHANGED <<rows, sessions, request, turn, current, chatSession, chats>>
    BY DEF Extract, TaskRest, placeVars, servedVars
  <1>3. Passing /\ Task \in BackgroundTask /\ Named(Task)
    BY <1>1, <1>2, TasksLess
  <1>4. Linked(rows, memories, Past)
    BY <1>1 DEF StoreParts
  <1>5. Linked(rows, memories', Past)
    <2>1. CASE memories' = memories
      BY <1>4, <2>1
    <2>2. ASSUME Sourced(Task.turn, rows),
                 memories' = memories \cup {[turn |-> Task.turn, how |-> "extracted",
                                             agent |-> Task.agent, source |-> Task.turn]}
          PROVE  Linked(rows, memories', Past)
      <3> DEFINE new == [turn |-> Task.turn, how |-> "extracted",
                         agent |-> Task.agent, source |-> Task.turn]
      <3>1. new \in Memory /\ new.source = Task.turn /\ new.agent = Task.agent
        BY <1>3 DEF Memory, BackgroundTask
      <3>2. Task.turn <= Past /\ Names(rows, Task.turn, Task.agent)
        BY <1>2, <1>3 DEF Named
      <3>3. memories' = memories \cup {new}
        BY <2>2
      <3> HIDE DEF new
      <3>4. QED
        BY <1>4, <2>2, <3>1, <3>2, <3>3 DEF Linked
    <2>3. QED
      BY <2>1, <2>2 DEF Extract
  <1>6. QED
    BY <1>2, <1>3, <1>5, MemoriesChange

LEMMA ToldFits ==
    ASSUME StoreInv, SessionsFit', NEW agent \in Agents,
           \/ memories' \subseteq memories
           \/ memories' = memories \cup
                  {[turn |-> turn, how |-> "told", agent |-> agent, source |-> 0]},
           UNCHANGED <<rows, sessions, request, turn, current, chatSession, chats, tasks>>
    PROVE  StoreFits'
  <1>1. StoreParts
    BY PartsOf
  <1>2. Linked(rows, memories, Past)
    BY <1>1 DEF StoreParts
  <1>3. Linked(rows, memories', Past)
    <2>1. CASE memories' \subseteq memories
      BY <1>2, <2>1 DEF Linked
    <2>2. CASE memories' = memories \cup
                  {[turn |-> turn, how |-> "told", agent |-> agent, source |-> 0]}
      <3> DEFINE new == [turn |-> turn, how |-> "told", agent |-> agent, source |-> 0]
      <3>1. new \in Memory /\ new.source = 0
        BY <1>1 DEF Memory, StoreParts
      <3>2. memories' = memories \cup {new}
        BY <2>2
      <3> HIDE DEF new
      <3>3. QED
        BY <1>2, <3>1, <3>2 DEF Linked
    <2>3. QED
      BY <2>1, <2>2
  <1>4. QED
    BY <1>1, <1>3, SameTasks, MemoriesChange

\* The oldest rows go, or all, and the memories of them lose their source.
LEMMA ShrinksFit ==
    ASSUME StoreInv, SessionsFit', request.stage \in {"loop", "agents"},
           Subtable(rows', rows), Newest(rows', rows), memories' = Unlinked(rows'),
           Replied(chats') = Replied(chats),
           UNCHANGED <<sessions, request, turn, current, chatSession, tasks>>
    PROVE  StoreFits'
  <1>1. StoreParts
    BY PartsOf
  <1>2. Past' = Past /\ GoesOn /\ Place' = Place
    BY DEF Past, GoesOn, Place
  <1>3. Growing /\ TimePasses
    BY <1>1, <1>2, SameDues, PastIs DEF StoreParts
  <1>4. Within(rows', rows)
    BY PartWithin
  <1>5. MemoriesLinked'
    <2>1. Linked(rows', Unlinked(rows'), Past)
      BY <1>1, <1>4, UnlinkedLinked DEF StoreParts
    <2>2. QED
      BY <1>2, <2>1 DEF MemoriesLinked
  <1>6. TasksFit'
    BY <1>1, <1>3, <1>4, SameTasks, TasksPass DEF StoreParts
  <1>7. QED
    BY <1>2, <1>3, <1>5, <1>6, LessFits

\* A session goes, with its rows.
LEMMA DeletedFits ==
    ASSUME StoreInv, SessionsFit', Free, NEW s, Growing,
           rows' = Restrict(rows, {i \in DOMAIN rows : rows[i].session # s}),
           memories' = Unlinked(rows'), request' = request, turn' = turn + 1, tasks' = tasks
    PROVE  StoreFits'
  <1>1. StoreParts
    BY PartsOf
  <1>2. Quits /\ Past' = turn + 1 /\ request'.stage = "none"
    <2>1. request'.stage = "none" /\ request.stage = "none"
      BY DEF Free
    <2>2. QED
      BY <2>1 DEF Quits, Asking, Past
  <1>3. TimePasses
    BY <1>1, <1>2, PastIs DEF StoreParts
  <1>4. /\ Subtable(rows', rows)
        /\ DOMAIN rows' = {i \in DOMAIN rows : rows[i].session # s}
    <2> DEFINE S == {i \in DOMAIN rows : rows[i].session # s}
    <2>1. S \subseteq DOMAIN rows /\ rows' = Restrict(rows, S)
      OBVIOUS
    <2> HIDE DEF S
    <2>2. QED
      BY <1>1, <2>1, RestrictIs DEF StoreParts, S
  <1>5. Within(rows', rows)
    BY <1>4, PartWithin
  <1>6. MemoriesLinked'
    <2>1. Linked(rows', Unlinked(rows'), Past')
      BY <1>1, <1>3, <1>5, UnlinkedLinked DEF StoreParts, TimePasses
    <2>2. QED
      BY <2>1 DEF MemoriesLinked
  <1>7. TasksFit'
    BY <1>1, <1>3, <1>5, SameTasks, TasksPass DEF StoreParts
  <1>8. QED
    BY <1>2, <1>4, <1>6, <1>7, LessFits

\* What could not be counted is behind.
LEMMA BehindDues ==
    ASSUME sessions \in Seq(SessionRows), NEW s \in DOMAIN sessions
    PROVE  Due(s) <= Owing(Behind[s], 0)
  <1>1. sessions[s] \in SessionRows /\ Uncounted(s) \in Nat
    BY RowsStand, UncountedIs
  <1>2. Behind[s] = [sessions[s] EXCEPT !.behind = @ + Uncounted(s)]
    BY DEF Behind
  <1>3. Due(s) = Owing(sessions[s], Uncounted(s))
    BY DEF Due
  <1> HIDE DEF Due, Uncounted, Behind
  <1>4. Behind[s] \in SessionRows
    BY <1>1, <1>2, BehindRow
  <1>5. Due(s) \in Int /\ Due(s) = Behind[s].count + 2 * Behind[s].behind
    BY <1>1, <1>2, <1>3, OwingIs
  <1>6. Behind[s].count \in Int /\ Behind[s].behind \in Int
    BY <1>4 DEF SessionRows
  <1>7. Owing(Behind[s], 0) = Behind[s].count + 2 * Behind[s].behind
    BY <1>6 DEF Owing
  <1>8. QED
    BY <1>5, <1>7

LEMMA OpensGrow ==
    ASSUME StoreParts, request.stage = "none", NEW a \in Agents, Opens(a, sessions)
    PROVE  Growing
  <1>1. sessions \in Seq(SessionRows) /\ StillRows(sessions)
    BY DEF StoreParts, StillRows
  <1>2. \A s \in DOMAIN sessions : Due(s) <= Owing(sessions[s], 0)
    BY <1>1, StillOwed
  <1>3. QED
    BY <1>1, <1>2, OpenedDues

LEMMA CommandQuits ==
    ASSUME NEW kind, Command(kind)
    PROVE  Free /\ Quits /\ request' = request /\ request.stage = "none" /\ turn' = turn + 1
  BY DEF Command, Arrives, Free, Quits, Asking

LEMMA StartSessionFits ==
    ASSUME StoreInv, SessionsFit', StartNewSession PROVE StoreFits'
  <1>1. StoreParts
    BY PartsOf
  <1>2. Free /\ Quits /\ request' = request /\ request.stage = "none" /\ UNCHANGED <<rows, memories>>
    BY CommandQuits DEF StartNewSession
  <1> DEFINE task == [kind |-> "summary", session |-> current.session, turn |-> 0,
                      agent |-> current.agent]
  <1>3. task \in BackgroundTask /\ task.kind = "summary" /\ Submits(task)
    <2>1. current.session \in Int
      <3>1. sessions \in Seq(SessionRows) /\ current.session \in DOMAIN sessions
        BY <1>1 DEF StoreParts
      <3>2. DOMAIN sessions = 1..Len(sessions) /\ Len(sessions) \in Nat
        BY <3>1, LenProperties
      <3>3. \A n \in Nat : \A i \in 1..n : i \in Int
        OBVIOUS
      <3>4. QED
        BY <3>1, <3>2, <3>3, Zenon
    <2>2. current.agent \in Agents
      BY <1>1 DEF StoreParts
    <2>3. task \in BackgroundTask /\ task.kind = "summary"
      BY <2>1, <2>2 DEF BackgroundTask
    <2>4. Submits(task)
      BY DEF StartNewSession
    <2>5. QED
      BY <2>3, <2>4
  <1> HIDE DEF task
  <1>4. Passing
    BY <1>1, <1>3, SummaryPasses
  <1>5. Growing
    <2>1. CASE Opens(current.agent, sessions)
      <3>1. current.agent \in Agents
        BY <1>1 DEF StoreParts
      <3>2. QED
        BY <1>1, <1>2, <2>1, <3>1, OpensGrow
    <2>2. CASE sessions' = sessions
      BY <1>1, <1>2, <2>2, SameDues
    <2>3. QED
      BY <2>1, <2>2 DEF StartNewSession
  <1>6. QED
    BY <1>2, <1>4, <1>5, QuietFits

LEMMA UseAgentFits ==
    ASSUME StoreInv, SessionsFit', UseAgent PROVE StoreFits'
  <1>1. StoreParts
    BY PartsOf
  <1>2. /\ Free /\ Quits /\ request' = request /\ request.stage = "none"
        /\ UNCHANGED <<rows, memories, tasks>>
    BY CommandQuits DEF UseAgent
  <1>3. Growing
    <2>1. ASSUME NEW a \in DOMAIN profiles, Opens(a, sessions) PROVE Growing
      <3>1. a \in Agents
        BY DEF StoreInv, SkillsInv, WorkInv, AgentsFit
      <3>2. QED
        BY <1>1, <1>2, <2>1, <3>1, OpensGrow
    <2>2. CASE sessions' = sessions
      BY <1>1, <1>2, <2>2, SameDues
    <2>3. QED
      BY <2>1, <2>2 DEF UseAgent
  <1>4. QED
    BY <1>1, <1>2, <1>3, SameTasks, QuietFits

\* Another state of a session leaves what it is owed.
LEMMA BecomesStill ==
    ASSUME sessions \in Seq(SessionRows), NEW s \in DOMAIN sessions, NEW state \in {"deleted", "lost"}
    PROVE  StillRows([sessions EXCEPT ![s].state = state])
  <1> DEFINE row == [sessions[s] EXCEPT !.state = state]
  <1>1. sessions[s] \in SessionRows
    BY RowsStand
  <1>2. row \in SessionRows /\ row.count = sessions[s].count /\ row.behind = sessions[s].behind
    BY <1>1 DEF SessionRows
  <1>3. [sessions EXCEPT ![s].state = state] = [sessions EXCEPT ![s] = row]
    OBVIOUS
  <1> HIDE DEF row
  <1>4. /\ [sessions EXCEPT ![s] = row] \in Seq(SessionRows)
        /\ DOMAIN [sessions EXCEPT ![s] = row] = DOMAIN sessions
        /\ \A i \in DOMAIN sessions : [sessions EXCEPT ![s] = row][i] = IF i = s THEN row ELSE sessions[i]
    BY <1>2, OneRowSet
  <1>5. QED
    BY <1>2, <1>3, <1>4 DEF StillRows

LEMMA DeleteSessionFits ==
    ASSUME StoreInv, SessionsFit', DeleteSession PROVE StoreFits'
  <1>1. StoreParts
    BY PartsOf
  <1>2. /\ Free /\ Quits /\ request' = request /\ request.stage = "none" /\ turn' = turn + 1
        /\ tasks' = tasks
    BY CommandQuits DEF DeleteSession
  <1>3. PICK s \in Live :
          \/ /\ rows' = Restrict(rows, {i \in DOMAIN rows : rows[i].session # s})
             /\ memories' = Unlinked(rows')
             /\ \/ Opens(current.agent, [sessions EXCEPT ![s].state = "deleted"])
                \/ sessions' \in {[sessions EXCEPT ![s].state = "lost"],
                                  [sessions EXCEPT ![s].state = "deleted"]}
          \/ UNCHANGED <<rows, memories, sessions>>
    BY DEF DeleteSession, storeVars
  <1>4. s \in DOMAIN sessions
    BY DEF Live
  <1>5. Growing
    <2>1. CASE sessions' = sessions
      BY <1>1, <1>2, <2>1, SameDues
    <2>2. CASE sessions' \in {[sessions EXCEPT ![s].state = "lost"],
                              [sessions EXCEPT ![s].state = "deleted"]}
      <3>1. StillRows(sessions')
        BY <1>1, <1>4, <2>2, BecomesStill DEF StoreParts
      <3>2. QED
        BY <1>1, <1>2, <3>1, StillDues
    <2>3. CASE Opens(current.agent, [sessions EXCEPT ![s].state = "deleted"])
      <3> DEFINE all == [sessions EXCEPT ![s].state = "deleted"]
      <3>1. StillRows(all) /\ Opens(current.agent, all)
        BY <1>1, <1>4, <2>3, BecomesStill DEF StoreParts
      <3> HIDE DEF all
      <3>2. all \in Seq(SessionRows) /\ DOMAIN all = DOMAIN sessions
        BY <3>1 DEF StillRows
      <3>3. \A i \in DOMAIN sessions : Due(i) <= Owing(all[i], 0)
        BY <1>1, <1>2, <3>1, StillOwed
      <3>4. current.agent \in Agents /\ sessions \in Seq(SessionRows)
        BY <1>1 DEF StoreParts
      <3>5. QED
        BY <3>1, <3>2, <3>3, <3>4, OpenedDues
    <2>4. QED
      BY <1>3, <2>1, <2>2, <2>3
  <1>6. CASE UNCHANGED <<rows, memories>>
    BY <1>1, <1>2, <1>5, <1>6, SameTasks, QuietFits
  <1>7. CASE /\ rows' = Restrict(rows, {i \in DOMAIN rows : rows[i].session # s})
             /\ memories' = Unlinked(rows')
    BY <1>2, <1>5, <1>7, DeletedFits
  <1>8. QED
    BY <1>3, <1>6, <1>7

LEMMA CommandsFit ==
    ASSUME StoreInv, SessionsFit', Commands PROVE StoreFits'
  <1>1. StoreParts
    BY PartsOf
  <1>2. ASSUME UNCHANGED <<sessions, rows, memories, tasks>>, request.stage = "none",
               turn' = turn + 1, request'.stage \in {"none", "begun", "to save", "agents"}
        PROVE  StoreFits'
    <2>1. Quits \/ Comes
      BY <1>2 DEF Quits, Comes, Asking
    <2>2. Growing
      BY <1>1, <1>2, SameDues
    <2>3. QED
      BY <1>1, <1>2, <2>1, <2>2, SameTasks, QuietFits
  <1>3. CASE ResumeSession \/ Show \/ UseSkill \/ DropSkill \/ ReloadSkills \/ ConfigCommand
    <2>1. UNCHANGED <<sessions, rows, memories, tasks>> /\ \E kind : Command(kind)
      BY <1>3 DEF ResumeSession, Show, UseSkill, DropSkill, ReloadSkills, ConfigCommand, storeVars
    <2>2. request.stage = "none" /\ turn' = turn + 1 /\ request'.stage = "none"
      BY <2>1, CommandQuits
    <2>3. QED
      BY <1>2, <2>1, <2>2
  <1>4. CASE CreateAgent \/ SetAgentTools \/ SetAgentModel \/ SetAgentPersona
    <2>1. PICK new : ToSave(new)
      BY <1>4 DEF CreateAgent, SetAgentTools, SetAgentModel, SetAgentPersona
    <2>2. UNCHANGED <<sessions, rows, memories, tasks>> /\ request' = [NoRequest EXCEPT !.stage = "to save"]
      BY <2>1 DEF ToSave, storeVars
    <2>3. request.stage = "none" /\ turn' = turn + 1
      BY <2>1 DEF ToSave, Arrives, Free
    <2>4. QED
      BY <1>2, <2>2, <2>3 DEF NoRequest
  <1>5. CASE Receive
    <2>1. UNCHANGED <<sessions, rows, memories, tasks>>
      BY <1>5 DEF Receive, storeVars
    <2>2. request.stage = "none" /\ turn' = turn + 1 /\ request'.stage \in {"none", "begun"}
      BY <1>5 DEF Receive, Arrives, Free
    <2>3. QED
      BY <1>2, <2>1, <2>2
  <1>6. CASE StartAgents
    <2>1. UNCHANGED <<sessions, rows, memories, tasks>> /\ request' = [NoRequest EXCEPT !.stage = "agents"]
      BY <1>6 DEF StartAgents, storeVars
    <2>2. request.stage = "none" /\ turn' = turn + 1
      BY <1>6 DEF StartAgents, Arrives, Free
    <2>3. QED
      BY <1>2, <2>1, <2>2 DEF NoRequest
  <1>7. QED
    BY <1>3, <1>4, <1>5, <1>6, StartSessionFits, UseAgentFits, DeleteSessionFits DEF Commands

\* Steps that only move the request on.
LEMMA NothingStored ==
    ASSUME StoreInv, SessionsFit', UNCHANGED <<sessions, rows, memories, tasks>>,
           Quits \/ Comes \/ GoesOn,
           request.stage # "count" \/ UNCHANGED <<request, current, chatSession>>,
           \/ request.stage \notin {"loop", "agents"}
           \/ Replied(chats') = Replied(chats) /\ UNCHANGED chatSession
    PROVE  StoreFits'
  <1>1. StoreParts
    BY PartsOf
  <1>2. request.stage # "count" \/ (request'.stage = "count" /\ Place' = Place)
    BY DEF Place
  <1>3. Growing
    BY <1>1, <1>2, SameDues
  <1>4. QED
    BY <1>1, <1>3, SameTasks, QuietFits

LEMMA StageSet ==
    ASSUME StoreInv, NEW stage
    PROVE  /\ [request EXCEPT !.stage = stage].stage = stage
           /\ [request EXCEPT !.stage = stage].kind = request.kind
           /\ NoRequest.stage = "none"
  <1>1. request \in Request
    BY DEF StoreInv, SkillsInv, WorkInv, RequestsFit
  <1>2. QED
    BY <1>1 DEF Request, NoRequest

\* The answer that was stored is counted in the session it is in.
LEMMA CountFits ==
    ASSUME StoreInv, SessionsFit', Count PROVE StoreFits'
  <1>1. StoreParts
    BY PartsOf
  <1>2. /\ request.stage = "count" /\ request'.stage = "trim" /\ request'.kind = request.kind
        /\ sessions' = [sessions EXCEPT ![Place].count = @ + 2]
        /\ UNCHANGED <<rows, memories, tasks, turn, current, chatSession>>
    BY StageSet DEF Count, Counted, ServeRest, placeVars
  <1>3. sessions' \in Seq(SessionRows) /\ DOMAIN sessions' = DOMAIN sessions
    BY <1>2 DEF SessionsFit
  <1>4. GoesOn
    BY <1>2 DEF GoesOn
  <1>5. Growing
    <2> SUFFICES ASSUME NEW s \in DOMAIN sessions PROVE Due(s) <= Due(s)'
      BY <1>3 DEF Growing
    <2>1. /\ sessions[s].count \in Int /\ sessions[s].behind \in Int
          /\ sessions'[s].count \in Int /\ sessions'[s].behind \in Int
          /\ Due(s) = sessions[s].count + 2 * sessions[s].behind + 2 * Uncounted(s)
          /\ Due(s)' = sessions'[s].count + 2 * sessions'[s].behind + 2 * Uncounted(s)'
      BY <1>1, <1>3, DuesAre DEF StoreParts
    <2>2. Uncounted(s) = (IF s = Place THEN 1 ELSE 0) /\ Uncounted(s)' \in Nat
      <3>1. Cardinality(Replied(chats)) = 0
        BY <1>1, <1>2, FS_EmptySet DEF StoreParts
      <3>2. QED
        BY <1>2, <3>1, UncountedIs, UncountedNext
    <2>3. sessions[s] \in SessionRows
      BY <1>1, RowsStand DEF StoreParts
    <2> HIDE DEF Due, Uncounted
    <2>4. CASE s = Place
      <3>1. sessions'[s] = [sessions[s] EXCEPT !.count = @ + 2]
        BY <1>2, <2>4
      <3>2. sessions'[s].count = sessions[s].count + 2 /\ sessions'[s].behind = sessions[s].behind
        BY <2>3, <3>1 DEF SessionRows
      <3>3. QED
        BY <2>1, <2>2, <2>4, <3>2
    <2>5. CASE s # Place
      <3>1. sessions'[s] = sessions[s]
        BY <1>2, <2>5
      <3>2. QED
        BY <2>1, <2>2, <2>5, <3>1
    <2>6. QED
      BY <2>4, <2>5
  <1>6. QED
    BY <1>1, <1>2, <1>4, <1>5, SameTasks, QuietFits

LEMMA ServingFits ==
    ASSUME StoreInv, SessionsFit', Serving PROVE StoreFits'
  <1>1. CASE ConfigSaved
    <2>1. UNCHANGED <<sessions, rows, memories, tasks, request, current, chatSession, turn, chats>>
      BY <1>1 DEF ConfigSaved, storeVars, servedVars, placeVars
    <2>2. GoesOn
      BY <2>1 DEF GoesOn
    <2>3. QED
      BY <2>1, <2>2, NothingStored
  <1>2. CASE OpenAgentsFile \/ WriteAgentsFile \/ AgentsAnswer
    <2>1. /\ UNCHANGED <<sessions, rows, memories, tasks, turn, chats, chatSession>>
          /\ request.stage # "count"
          /\ request' = NoRequest \/ request' = [request EXCEPT !.stage = "saving"]
      BY <1>2 DEF OpenAgentsFile, WriteAgentsFile, AgentsAnswer, SaveRest, ServeRest, storeVars,
         placeVars, Ends
    <2>2. request'.stage \in {"none", "saving"}
      BY <2>1, StageSet
    <2>3. Quits
      BY <2>1, <2>2 DEF Quits, Asking
    <2>4. QED
      BY <2>1, <2>3, NothingStored
  <1>3. CASE SaveUserRow
    <2>1. /\ request.stage = "begun"
          /\ UNCHANGED <<sessions, memories, tasks, turn, current, chatSession>>
      BY <1>3 DEF SaveUserRow, ServeRest, placeVars
    <2>2. CASE /\ rows' = Stored(rows, Row("user", "brain", current.agent, Place))
               /\ \E stage \in {"asked", "loop"} : request' = [request EXCEPT !.stage = stage]
      <3>1. request'.stage \in {"asked", "loop"} /\ request'.kind = request.kind
        BY <2>2, StageSet
      <3>2. QED
        BY <2>1, <2>2, <3>1, UserStored
    <2>3. CASE UNCHANGED rows /\ request' = NoRequest
      <3>1. Quits
        BY <2>1, <2>3, StageSet DEF Quits, Asking
      <3>2. QED
        BY <2>1, <2>3, <3>1, NothingStored
    <2>4. QED
      BY <1>3, <2>2, <2>3 DEF SaveUserRow, Ends
  <1>4. CASE ChatAnswers \/ LoopAnswers
    <2>1. /\ UNCHANGED <<sessions, rows, memories, tasks, turn, current, chatSession, chats>>
          /\ request.stage \in {"asked", "loop"} /\ request' = [request EXCEPT !.stage = "answer"]
      BY <1>4 DEF ChatAnswers, LoopAnswers, ServeRest, storeVars, placeVars
    <2>2. GoesOn
      BY <2>1, StageSet DEF GoesOn
    <2>3. QED
      BY <2>1, <2>2, NothingStored
  <1>5. CASE SaveAnswer
    <2>1. /\ UNCHANGED <<sessions, memories, tasks, turn, current, chatSession>>
          /\ request.stage = "answer" /\ request' = [request EXCEPT !.stage = "count"]
          /\ rows' = Stored(rows, TheAnswer)
      BY <1>5 DEF SaveAnswer, ServeRest, placeVars, TheAnswer
    <2>2. QED
      BY <2>1, StageSet, AnswerStored
  <1>6. CASE Trim
    <2>1. /\ UNCHANGED <<sessions, tasks, turn, current, chatSession>>
          /\ request.stage = "trim" /\ request' = [request EXCEPT !.stage = "learn"]
          /\ rows' = Trimmed(current.agent, rows) /\ memories' = Unlinked(rows')
      BY <1>6 DEF Trim, ServeRest, placeVars
    <2>2. QED
      BY <2>1, StageSet, TrimFits
  <1>7. QED
    BY <1>1, <1>2, <1>3, <1>4, <1>5, <1>6, CountFits, LearnFits DEF Serving

\* An agent of the loop has a profile.
LEMMA LoopAgent ==
    ASSUME StoreInv, NEW t \in Threads, frames[t] # <<>>, Top(t).kind = "legacy"
    PROVE  Top(t).agent \in Agents
  <1>1. LoopInv /\ DOMAIN profiles \subseteq Agents
    BY DEF StoreInv, SkillsInv, WorkInv, AgentsFit
  <1>2. Top(t) \in LegacyFrames
    BY <1>1, TopFits, Kinds
  <1>3. QED
    BY <1>1, <1>2 DEF LegacyFrames

\* An answer of the router's chat is counted, or falls behind.
LEMMA ReplyPasses ==
    ASSUME StoreParts, SessionsFit', request.stage \in {"loop", "agents"},
           request'.stage # "count", chatSession' = chatSession,
           NEW t \in Threads, chats[t] = "answer", NEW next \in {"counted", "nothing"},
           chats' = [chats EXCEPT ![t] = next],
           \/ sessions' = Counted(chatSession)
           \/ sessions' = [sessions EXCEPT ![chatSession].behind = @ + 1]
    PROVE  Growing
  <1>1. Cardinality(Replied(chats')) = Cardinality(Replied(chats)) - 1
    <2>1. Replied(chats') = Replied(chats) \ {t} /\ t \in Replied(chats)
      BY DEF Replied, StoreParts, ChatsFit
    <2>2. QED
      BY <2>1, RepliedIs, FS_RemoveElement
  <1>2. Cardinality(Replied(chats)) \in Nat /\ Cardinality(Replied(chats')) \in Nat
    BY RepliedIs
  <1>3. /\ sessions' \in Seq(SessionRows) /\ DOMAIN sessions' = DOMAIN sessions
        /\ sessions \in Seq(SessionRows)
    BY DEF SessionsFit, StoreParts, Counted
  <1> SUFFICES ASSUME NEW s \in DOMAIN sessions PROVE Due(s) <= Due(s)'
    BY <1>3 DEF Growing
  <1>4. /\ sessions[s].count \in Int /\ sessions[s].behind \in Int
        /\ sessions'[s].count \in Int /\ sessions'[s].behind \in Int
        /\ Due(s) = sessions[s].count + 2 * sessions[s].behind + 2 * Uncounted(s)
        /\ Due(s)' = sessions'[s].count + 2 * sessions'[s].behind + 2 * Uncounted(s)'
    BY <1>3, DuesAre
  <1> HIDE DEF Due
  <1>5. CASE s = chatSession
    <2>1. /\ Uncounted(s) = Cardinality(Replied(chats))
          /\ Uncounted(s)' = Cardinality(Replied(chats')) /\ Uncounted(s)' \in Nat
      <3>1. /\ Uncounted(s) = 0 + Cardinality(Replied(chats))
            /\ Uncounted(s)' = 0 + Cardinality(Replied(chats'))
        BY <1>5, UncountedIs, UncountedNext
      <3> HIDE DEF Uncounted
      <3>2. QED
        BY <1>2, <3>1
    <2>2. sessions[s] \in SessionRows
      BY <1>3, RowsStand
    <2>3. \/ sessions'[s] = [sessions[s] EXCEPT !.count = @ + 2]
          \/ sessions'[s] = [sessions[s] EXCEPT !.behind = @ + 1]
      BY <1>5 DEF Counted
    <2>4. \/ /\ sessions'[s].count = sessions[s].count + 2
             /\ sessions'[s].behind = sessions[s].behind
          \/ /\ sessions'[s].count = sessions[s].count
             /\ sessions'[s].behind = sessions[s].behind + 1
      BY <2>2, <2>3 DEF SessionRows
    <2> HIDE DEF Uncounted
    <2>5. Uncounted(s) = Uncounted(s)' + 1
      BY <1>1, <1>2, <2>1
    <2>6. QED
      BY <1>4, <2>1, <2>4, <2>5
  <1>6. CASE s # chatSession
    <2>1. Uncounted(s) = 0 /\ Uncounted(s)' = 0
      BY <1>6, UncountedIs, UncountedNext
    <2>2. sessions'[s] = sessions[s]
      BY <1>6 DEF Counted
    <2> HIDE DEF Uncounted
    <2>3. QED
      BY <1>4, <2>1, <2>2
  <1>7. QED
    BY <1>5, <1>6

\* A chat without an answer to count still has none.
LEMMA RepliesStay ==
    ASSUME ChatsFit, NEW t \in Threads, chats[t] # "answer", NEW next, next # "answer",
           chats' = [chats EXCEPT ![t] = next]
    PROVE  Replied(chats') = Replied(chats)
  BY DEF Replied, ChatsFit

\* The chat of the router stores what a request's own turn does.
LEMMA ChatFits ==
    ASSUME StoreInv, SessionsFit', NEW t \in Threads, frames[t] # <<>>,
           request.stage \in {"loop", "agents"}, ChatInLoop(t)
    PROVE  StoreFits'
  <1>1. StoreParts /\ ChatsFit /\ RoutersAsked
    BY PartsOf DEF StoreInv
  <1>2. /\ UNCHANGED <<tasks, request, current, chatSession, turn>>
        /\ Top(t).kind = "legacy"
    <2>1. RouteRest /\ Top(t).kind = "legacy"
      BY ChatRests DEF ChatInLoop, ChatAsks, ChatReplies, ChatCounts, ChatTrims, ChatRefuses,
         Stores, Routes
    <2>2. QED
      BY <2>1 DEF RouteRest, servedVars, placeVars
  <1>3. Top(t).agent \in Agents
    BY <1>2, LoopAgent
  <1>4. GoesOn
    BY <1>2 DEF GoesOn
  <1>5. CASE ChatAsks(t)
    <2>1. /\ chats[t] = "nothing" /\ chats' = [chats EXCEPT ![t] = "question"]
          /\ rows' = Stored(rows, Row("user", "router", Top(t).agent, chatSession))
          /\ UNCHANGED <<sessions, memories>>
      BY <1>5 DEF ChatAsks, Stores, RouterRow
    <2>2. Replied(chats') = Replied(chats)
      BY <1>1, <2>1, RepliesStay
    <2>3. "user" \in Roles
      BY DEF Roles
    <2>4. QED
      BY <1>2, <1>3, <2>1, <2>2, <2>3, RouterStored
  <1>6. CASE ChatReplies(t)
    <2>1. /\ chats[t] = "question" /\ chats' = [chats EXCEPT ![t] = "answer"]
          /\ rows' = Stored(rows, Row("assistant", "router", Top(t).agent, chatSession))
          /\ UNCHANGED <<sessions, memories>>
      BY <1>6 DEF ChatReplies, Stores, RouterRow
    <2>2. Cardinality(Replied(chats')) = Cardinality(Replied(chats)) + 1
      <3>1. Replied(chats') = Replied(chats) \cup {t} /\ t \notin Replied(chats)
        BY <1>1, <2>1 DEF Replied, ChatsFit
      <3>2. QED
        BY <3>1, RepliedIs, FS_AddElement
    <2>3. Wanted(rows, Row("assistant", "router", Top(t).agent, chatSession))
      BY <1>1, <2>1 DEF RoutersAsked, RouterRow
    <2>4. "assistant" \in Roles
      BY DEF Roles
    <2>5. QED
      BY <1>2, <1>3, <2>1, <2>2, <2>3, <2>4, RouterStored
  <1>7. CASE ChatCounts(t)
    <2>1. /\ chats[t] = "answer" /\ chats' = [chats EXCEPT ![t] = "counted"]
          /\ sessions' = Counted(chatSession) /\ UNCHANGED <<rows, memories>>
      BY <1>7 DEF ChatCounts, Stores
    <2>2. request'.stage # "count"
      BY <1>2
    <2>3. Growing
      BY <1>1, <1>2, <2>1, <2>2, ReplyPasses
    <2>4. QED
      BY <1>1, <1>2, <1>4, <2>1, <2>3, SameTasks, QuietFits
  <1>8. CASE ChatTrims(t)
    <2>1. /\ chats[t] = "counted" /\ chats' = [chats EXCEPT ![t] = "nothing"]
          /\ rows' = Trimmed(Top(t).agent, rows) /\ memories' = Unlinked(rows')
          /\ UNCHANGED sessions
      BY <1>8 DEF ChatTrims, Stores
    <2>2. Replied(chats') = Replied(chats)
      BY <1>1, <2>1, RepliesStay
    <2>3. Subtable(rows', rows) /\ Newest(rows', rows)
      BY <1>1, <2>1, TrimmedIs DEF StoreParts
    <2>4. QED
      BY <1>2, <2>1, <2>2, <2>3, ShrinksFit
  <1>9. CASE ChatRefuses(t)
    <2>1. UNCHANGED <<sessions, rows, memories, chats>>
      BY <1>9 DEF ChatRefuses, storeVars
    <2>2. QED
      BY <1>2, <1>4, <2>1, NothingStored
  <1>10. QED
    BY <1>5, <1>6, <1>7, <1>8, <1>9 DEF ChatInLoop

LEMMA LoopingFits ==
    ASSUME StoreInv, SessionsFit', NEW t \in Threads, Looping(t) PROVE StoreFits'
  <1>1. frames[t] # <<>> /\ request.stage \in {"loop", "agents"}
    BY WorksForOne DEF StoreInv, SkillsInv, WorkInv, StagesFit, Looping
  <1>2. CASE LoopSteps(t) \/ ConfigureInLoop(t)
    <2>1. UNCHANGED <<sessions, rows, memories, tasks, request, current, chatSession, turn, chats>>
      BY <1>2 DEF LoopSteps, ConfigureInLoop, RouteRest, storeVars, servedVars, placeVars
    <2>2. GoesOn
      BY <2>1 DEF GoesOn
    <2>3. QED
      BY <2>1, <2>2, NothingStored
  <1>3. CASE ChatInLoop(t)
    BY <1>1, <1>3, ChatFits
  <1>4. CASE ClearInLoop(t)
    <2>1. /\ UNCHANGED <<sessions, tasks, request, current, chatSession, turn, chats>>
          /\ rows' = <<>> /\ memories' = Unlinked(<<>>)
      BY <1>4 DEF ClearInLoop, RouteRest, servedVars, placeVars
    <2>2. Subtable(rows', rows) /\ Newest(rows', rows)
      BY <2>1, NothingKept
    <2>3. QED
      BY <1>1, <2>1, <2>2, ShrinksFit
  <1>5. CASE ForgetInLoop(t) \/ RememberInLoop(t)
    <2>1. /\ UNCHANGED <<sessions, rows, tasks, request, current, chatSession, turn, chats>>
          /\ Top(t).kind = "legacy"
      BY <1>5 DEF ForgetInLoop, RememberInLoop, RouteForget, RouteRemember, Routes, RouteRest,
         servedVars, placeVars
    <2>2. Top(t).agent \in Agents
      BY <1>1, <2>1, LoopAgent
    <2>3. \/ memories' \subseteq memories
          \/ memories' = memories \cup
               {[turn |-> turn, how |-> "told", agent |-> Top(t).agent, source |-> 0]}
      BY <1>5 DEF ForgetInLoop, RememberInLoop
    <2>4. QED
      BY <2>1, <2>2, <2>3, ToldFits
  <1>6. CASE RouteBreaks(t)
    <2>1. StoreParts /\ ChatsFit
      BY PartsOf DEF StoreInv
    <2>2. /\ UNCHANGED <<rows, memories, tasks, turn, current, chatSession>>
          /\ request' \in {request, NoRequest} /\ chats' = [chats EXCEPT ![t] = "nothing"]
          /\ sessions' = IF chats[t] = "answer" THEN [sessions EXCEPT ![chatSession].behind = @ + 1]
                         ELSE sessions
      BY <1>6 DEF RouteBreaks, Ends, placeVars
    <2>3. (Quits \/ GoesOn) /\ request'.stage # "count"
      BY <1>1, <2>2, StageSet DEF Quits, GoesOn, Asking
    <2>4. Growing
      <3>1. CASE chats[t] = "answer"
        BY <1>1, <2>1, <2>2, <2>3, <3>1, ReplyPasses
      <3>2. CASE chats[t] # "answer"
        <4>1. Replied(chats') = Replied(chats)
          BY <2>1, <2>2, <3>2, RepliesStay
        <4>2. QED
          BY <1>1, <2>1, <2>2, <3>2, <4>1, SameDues
      <3>3. QED
        BY <3>1, <3>2
    <2>5. QED
      BY <2>1, <2>2, <2>3, <2>4, SameTasks, QuietFits
  <1>7. QED
    BY <1>2, <1>3, <1>4, <1>5, <1>6 DEF Looping

LEMMA SummarizeFits ==
    ASSUME StoreInv, SessionsFit', Summarize PROVE StoreFits'
  <1>1. StoreParts
    BY PartsOf
  <1>2. /\ request.stage = "none" /\ tasks # <<>> /\ tasks' = Tail(tasks)
        /\ UNCHANGED <<rows, memories, request, current, chatSession, turn>>
    BY DEF Summarize, Free, TaskRest, servedVars, placeVars
  <1>3. PICK s : sessions' = sessions \/ sessions' = [sessions EXCEPT ![s].summary = TRUE]
    BY DEF Summarize
  <1>4. StillRows(sessions')
    <2>1. sessions' \in Seq(SessionRows) /\ DOMAIN sessions' = DOMAIN sessions
      BY <1>1, <1>3 DEF StoreParts, SessionsFit
    <2>2. ASSUME NEW i \in DOMAIN sessions
          PROVE  sessions'[i].count = sessions[i].count /\ sessions'[i].behind = sessions[i].behind
      <3>1. sessions[i] \in SessionRows
        BY <1>1, RowsStand DEF StoreParts
      <3>2. sessions'[i] = sessions[i] \/ sessions'[i] = [sessions[i] EXCEPT !.summary = TRUE]
        BY <1>3
      <3>3. QED
        BY <3>1, <3>2 DEF SessionRows
    <2>3. QED
      BY <2>1, <2>2 DEF StillRows
  <1>5. Growing
    BY <1>1, <1>2, <1>4, StillDues
  <1>6. GoesOn
    BY <1>2 DEF GoesOn
  <1>7. Passing
    BY <1>1, <1>2, TasksLess
  <1>8. QED
    BY <1>2, <1>5, <1>6, <1>7, QuietFits

LEMMA FailsFit ==
    ASSUME StoreInv, SessionsFit', FinalizeFails PROVE StoreFits'
  <1>1. StoreParts
    BY PartsOf
  <1>2. /\ request'.stage = "none" /\ sessions' = Behind
        /\ UNCHANGED <<rows, memories, tasks, turn>>
    BY StageSet DEF FinalizeFails, Ends
  <1>3. Growing
    <2>1. /\ DOMAIN sessions' = DOMAIN sessions /\ sessions' \in Seq(SessionRows)
          /\ sessions \in Seq(SessionRows)
      BY <1>1, <1>2, BehindRows DEF StoreParts
    <2>2. \A s \in DOMAIN sessions : Due(s) <= Owing(sessions'[s], 0)
      BY <1>2, <2>1, BehindDues
    <2>3. QED
      BY <2>1, <2>2, RowsOwed
  <1>4. Quits
    BY <1>2 DEF Quits, Asking
  <1>5. QED
    BY <1>1, <1>2, <1>3, <1>4, SameTasks, QuietFits

LEMMA RestartFits ==
    ASSUME StoreInv, SessionsFit', Restart PROVE StoreFits'
  <1>1. StoreParts
    BY PartsOf
  <1>2. /\ request'.stage = "none" /\ Opens(DefaultAgent, Behind)
        /\ tasks' = <<>> /\ UNCHANGED <<rows, memories, turn>>
    BY StageSet DEF Restart
  <1>3. Growing
    <2>1. Behind \in Seq(SessionRows) /\ DOMAIN Behind = DOMAIN sessions
      BY <1>1, BehindRows DEF StoreParts
    <2>2. \A s \in DOMAIN sessions : Due(s) <= Owing(Behind[s], 0)
      BY <1>1, BehindDues DEF StoreParts
    <2>3. DefaultAgent \in Agents /\ sessions \in Seq(SessionRows)
      BY <1>1, BrainAssumption DEF StoreParts
    <2>4. QED
      BY <1>2, <2>1, <2>2, <2>3, OpenedDues
  <1>4. Quits
    BY <1>2 DEF Quits, Asking
  <1>5. QED
    BY <1>1, <1>2, <1>3, <1>4, SameTasks, QuietFits

LEMMA StoreSteps ==
    ASSUME StoreInv, SessionsFit', [Next]_brainVars PROVE StoreFits'
  <1>1. ASSUME UNCHANGED <<sessions, rows, memories, tasks, request, current, chatSession, turn, chats>>
        PROVE  StoreFits'
    <2>1. GoesOn
      BY <1>1 DEF GoesOn
    <2>2. QED
      BY <1>1, <2>1, NothingStored
  <1>2. CASE UNCHANGED brainVars
    BY <1>1, <1>2 DEF brainVars, storeVars, servedVars, placeVars
  <1>3. ASSUME NEW w \in Workers, PoolSteps(w) PROVE StoreFits'
    BY <1>1, <1>3 DEF PoolSteps, storeVars, servedVars, placeVars
  <1>4. CASE Leaves
    <2>1. /\ UNCHANGED <<sessions, rows, memories, tasks, turn, chats, chatSession>>
          /\ request'.stage = "none" /\ request.stage # "count"
      BY <1>4, StageSet DEF Leaves, Ends, ServeRest, storeVars, placeVars
    <2>2. Quits
      BY <2>1 DEF Quits, Asking
    <2>3. QED
      BY <2>1, <2>2, NothingStored
  <1>5. QED
    BY <1>2, <1>3, <1>4, CommandsFit, ServingFits, LoopingFits, ExtractFits, SummarizeFits, FailsFit,
       RestartFits DEF Next, Serves, Background

\* While agents are at work the rows are those of before, or fewer, or one of a
\* router's chat more.
RowsMove ==
    /\ UNCHANGED <<turn, chatSession>>
    /\ \/ Subtable(rows', rows) /\ Newest(rows', rows)
       \/ \E agent \in Agents, role \in Roles :
            /\ rows' = Stored(rows, Row(role, "router", agent, chatSession))
            /\ role = "assistant" => Wanted(rows, Row(role, "router", agent, chatSession))

LEMMA LoopingRows ==
    ASSUME StoreInv, NEW t \in Threads, Looping(t) PROVE RowsMove
  <1>1. StoreParts /\ RoutersAsked /\ frames[t] # <<>>
    BY PartsOf DEF StoreInv, Looping
  <1>2. ASSUME rows' = rows PROVE Subtable(rows', rows) /\ Newest(rows', rows)
    BY <1>1, <1>2, SameRows DEF StoreParts
  <1>3. UNCHANGED <<turn, chatSession>>
    <2>1. CASE LoopSteps(t)
      BY <2>1 DEF LoopSteps, servedVars, placeVars
    <2>2. CASE ChatInLoop(t) \/ ClearInLoop(t) \/ ForgetInLoop(t) \/ RememberInLoop(t)
               \/ ConfigureInLoop(t)
      <3>1. RouteRest
        BY <2>2, ChatRests DEF ClearInLoop, ForgetInLoop, RememberInLoop, ConfigureInLoop
      <3>2. QED
        BY <3>1 DEF RouteRest, servedVars, placeVars
    <2>3. CASE RouteBreaks(t)
      BY <2>3 DEF RouteBreaks, placeVars
    <2>4. QED
      BY <2>1, <2>2, <2>3 DEF Looping
  <1>4. CASE \/ LoopSteps(t) \/ ForgetInLoop(t) \/ RememberInLoop(t) \/ ConfigureInLoop(t)
             \/ RouteBreaks(t) \/ ChatRefuses(t) \/ ChatCounts(t)
    <2>1. rows' = rows
      BY <1>4 DEF LoopSteps, ForgetInLoop, RememberInLoop, ConfigureInLoop, RouteBreaks,
         ChatRefuses, ChatCounts, storeVars
    <2>2. QED
      BY <1>2, <1>3, <2>1 DEF RowsMove
  <1>5. CASE ClearInLoop(t) \/ ChatTrims(t)
    <2>1. Subtable(rows', rows) /\ Newest(rows', rows)
      <3>1. CASE ClearInLoop(t)
        BY <3>1, NothingKept DEF ClearInLoop
      <3>2. CASE ChatTrims(t)
        BY <1>1, <3>2, TrimmedIs DEF ChatTrims, StoreParts
      <3>3. QED
        BY <1>5, <3>1, <3>2
    <2>2. QED
      BY <1>3, <2>1 DEF RowsMove
  <1>6. CASE ChatAsks(t) \/ ChatReplies(t)
    <2>1. Top(t).kind = "legacy"
      BY <1>6 DEF ChatAsks, ChatReplies, Stores, Routes
    <2>2. Top(t).agent \in Agents /\ {"user", "assistant"} \subseteq Roles
      BY <1>1, <2>1, LoopAgent DEF Roles
    <2>3. CASE ChatAsks(t)
      <3>1. rows' = Stored(rows, Row("user", "router", Top(t).agent, chatSession))
        BY <2>3 DEF ChatAsks, RouterRow
      <3>2. QED
        BY <1>3, <2>2, <3>1 DEF RowsMove
    <2>4. CASE ChatReplies(t)
      <3>1. /\ rows' = Stored(rows, Row("assistant", "router", Top(t).agent, chatSession))
            /\ Wanted(rows, Row("assistant", "router", Top(t).agent, chatSession))
        BY <1>1, <2>4 DEF ChatReplies, Stores, RouterRow, RoutersAsked
      <3>2. QED
        BY <1>3, <2>2, <3>1 DEF RowsMove
    <2>5. QED
      BY <1>6, <2>3, <2>4
  <1>7. QED
    BY <1>4, <1>5, <1>6 DEF Looping, ChatInLoop

LEMMA RowsNext ==
    ASSUME StoreInv, [Next]_brainVars, request.stage \in {"loop", "agents"}, ~Restart
    PROVE  RowsMove
  <1>1. ASSUME UNCHANGED <<rows, turn, chatSession>> PROVE RowsMove
    BY <1>1, PartsOf, SameRows DEF StoreParts, RowsMove
  <1>2. ~Commands
    BY DEF Commands, StartNewSession, ResumeSession, DeleteSession, UseAgent, Show, UseSkill,
       DropSkill, ReloadSkills, ConfigCommand, Command, Arrives, Free, CreateAgent, SetAgentTools,
       SetAgentModel, SetAgentPersona, ToSave, Receive, StartAgents
  <1>3. CASE Serving
    <2>1. ConfigSaved \/ LoopAnswers \/ AgentsAnswer
      BY <1>3 DEF Serving, OpenAgentsFile, WriteAgentsFile, SaveUserRow, ChatAnswers, SaveAnswer,
         Count, Trim, Learn
    <2>2. QED
      BY <1>1, <2>1 DEF ConfigSaved, LoopAnswers, AgentsAnswer, ServeRest, storeVars, servedVars,
         placeVars
  <1>4. ASSUME NEW w \in Workers, PoolSteps(w) PROVE RowsMove
    BY <1>1, <1>4 DEF PoolSteps, storeVars, servedVars, placeVars
  <1>5. CASE Background \/ UNCHANGED brainVars
    BY <1>1, <1>5 DEF Background, Extract, Summarize, TaskRest, brainVars, storeVars, servedVars,
       placeVars
  <1>6. CASE Leaves
    BY <1>1, <1>6 DEF Leaves, ServeRest, storeVars, placeVars
  <1>7. ~FinalizeFails
    BY DEF FinalizeFails
  <1>8. QED
    BY <1>2, <1>3, <1>4, <1>5, <1>6, <1>7, LoopingRows DEF Next, Serves

\* Each chat that waits for its answer has its question stored.
LEMMA RoutersNext ==
    ASSUME StoreInv, ChatsMove, [Next]_brainVars PROVE RoutersAsked'
  <1> SUFFICES ASSUME NEW t \in Threads, chats'[t] = "question"
               PROVE  Wanted(rows', RouterRow(t, "assistant")')
    BY DEF RoutersAsked
  <1>1. StoreParts /\ RoutersAsked /\ ChatsFit
    BY PartsOf DEF StoreInv
  <1>2. frames'[t] = frames[t] /\ (chats[t] = "question" \/ (frames[t] # <<>> /\ ChatAsks(t)))
    BY DEF ChatsMove
  <1>3. frames[t] # <<>> /\ Top(t).kind = "legacy"
    <2>1. CASE chats[t] = "question"
      BY <1>1, <2>1 DEF ChatsFit, Chatting
    <2>2. CASE frames[t] # <<>> /\ ChatAsks(t)
      BY <2>2 DEF ChatAsks, Stores, Routes
    <2>3. QED
      BY <1>2, <2>1, <2>2
  <1>4. request.stage \in {"loop", "agents"} /\ Top(t).agent \in Agents
    BY <1>3, WorksForOne, LoopAgent DEF StoreInv, SkillsInv, WorkInv, StagesFit
  <1>5. ~Restart
    BY DEF Restart
  <1>6. RowsMove
    BY <1>4, <1>5, RowsNext
  <1> DEFINE row == Row("assistant", "router", Top(t).agent, chatSession)
  <1>7. RouterRow(t, "assistant")' = row
    BY <1>2, <1>6 DEF RouterRow, Row, RowsMove, Top
  <1>8. /\ row.turn = turn /\ row.agent = Top(t).agent
        /\ [row EXCEPT !.role = "user"].agent = row.agent
        /\ [row EXCEPT !.role = "user"].turn = row.turn
        /\ [row EXCEPT !.role = "user"] = Row("user", "router", Top(t).agent, chatSession)
    BY DEF Row
  <1>9. turn \in Int /\ TableFits(rows, turn, DOMAIN sessions) /\ Follows(rows) /\ IsTable(rows)
    BY <1>1, <1>4 DEF StoreParts, Past
  <1>10. CASE ChatAsks(t)
    <2> DEFINE asked == [row EXCEPT !.role = "user"]
    <2>1. rows' = Stored(rows, asked)
      BY <1>8, <1>10 DEF ChatAsks, RouterRow
    <2> HIDE DEF row, asked
    <2>2. LET new == Stored(rows, asked)
              k == NextId(rows)
          IN  DOMAIN new = DOMAIN rows \cup {k} /\ new[k] = asked
      BY <1>9, StoredIs, Zenon
    <2>3. \E k \in DOMAIN rows' : rows'[k] = asked
      BY <2>1, <2>2
    <2>4. QED
      BY <1>7, <2>3 DEF Wanted, asked
  <1>11. CASE chats[t] = "question"
    <2>1. Wanted(rows, row)
      BY <1>1, <1>11 DEF RoutersAsked, RouterRow
    <2>2. CASE Subtable(rows', rows) /\ Newest(rows', rows)
      <3>1. \A j \in DOMAIN rows : rows[j].turn <= row.turn
        BY <1>8, <1>9 DEF TableFits
      <3>2. row.turn \in Int
        BY <1>8, <1>9
      <3> HIDE DEF row
      <3>3. Wanted(rows', row)
        BY <1>8, <1>9, <2>1, <2>2, <3>1, <3>2, WantedOfPart
      <3>4. QED
        BY <1>7, <3>3
    <2>3. ASSUME NEW agent \in Agents, NEW role \in Roles,
                 rows' = Stored(rows, Row(role, "router", agent, chatSession)),
                 role = "assistant" => Wanted(rows, Row(role, "router", agent, chatSession))
          PROVE  Wanted(rows', row)
      <3> DEFINE new == Row(role, "router", agent, chatSession)
      <3>1. /\ new \in [turn : Int, role : Roles, by : {"brain", "router"}, agent : Agents,
                        session : DOMAIN sessions]
            /\ new.turn = turn /\ new.role = role
        BY <1>1, <1>9 DEF StoreParts, Row, Roles
      <3>2. rows' = Stored(rows, new) /\ (new.role = "assistant" => Wanted(rows, new))
        BY <2>3, <3>1
      <3> HIDE DEF new, row
      <3>3. LET more == Stored(rows, new)
            IN  \A other : other.turn = turn /\ Wanted(rows, other) => Wanted(more, other)
        BY <1>9, <3>1, <3>2, RowAdded
      <3>4. QED
        BY <1>8, <2>1, <3>2, <3>3
    <2>4. QED
      BY <1>6, <1>7, <2>2, <2>3 DEF RowsMove
  <1>12. QED
    BY <1>2, <1>10, <1>11

LEMMA StoreStart == ASSUME Init, SessionsFit PROVE StoreFits
  <1>1. /\ rows = <<>> /\ memories = {} /\ tasks = <<>> /\ request.stage = "none" /\ turn = 0
    BY DEF Init, NoRequest
  <1>2. DOMAIN rows = {} /\ IsTable(rows)
    <2>1. DOMAIN rows = {} /\ rows = [i \in {} |-> rows[i]]
      BY <1>1
    <2>2. \E n \in Nat : {} \subseteq 1..n
      OBVIOUS
    <2>3. QED
      BY <2>1, <2>2 DEF IsTable
  <1>3. RowsFit
    BY <1>1, <1>2 DEF RowsFit, TableFits, Follows
  <1>4. AskedFits /\ LastFits /\ NamedFits
    BY <1>1 DEF AskedFits, LastFits, NamedFits, Asking
  <1>5. AnswersCounted
    <2> SUFFICES ASSUME NEW s \in DOMAIN sessions PROVE 2 * Cardinality(Answered(rows, s)) <= Due(s)
      BY CountedIs DEF SessionsFit
    <2>1. Cardinality(Answered(rows, s)) = 0
      BY <1>2, FS_EmptySet DEF Answered
    <2>2. sessions = <<NewSession(DefaultAgent)>>
      BY DEF Init
    <2>3. sessions[s].count = 0 /\ sessions[s].behind = 0
      BY <2>2 DEF NewSession
    <2>4. Uncounted(s) = 0
      <3>1. Replied(chats) = {}
        BY DEF Init, Replied
      <3>2. QED
        BY <1>1, <3>1, FS_EmptySet, UncountedIs
    <2> HIDE DEF Uncounted
    <2>5. Due(s) = 0
      BY <2>3, <2>4 DEF Due, Owing
    <2>6. QED
      BY <2>1, <2>5
  <1>6. MemoriesLinked /\ TasksFit
    <2>1. MaxTasks \in Nat \ {0}
      BY BrainAssumption
    <2>2. tasks \in Seq(BackgroundTask) /\ Len(tasks) = 0 /\ DOMAIN tasks = {}
      BY <1>1, EmptySeq
    <2>3. TasksFit
      BY <2>1, <2>2 DEF TasksFit
    <2>4. QED
      BY <1>1, <2>3 DEF MemoriesLinked, Linked
  <1>7. QED
    BY <1>3, <1>4, <1>5, <1>6 DEF StoreFits

LEMMA KeepsNewest ==
    ASSUME StoreInv PROVE NewestKept
  <1>1. StoreParts
    BY PartsOf
  <1> SUFFICES ASSUME request.stage = "learn"
               PROVE  LET own == RowsOf(current.agent, rows)
                      IN  Cardinality(own) \in 1..MaxRows /\ rows[Max(own)] = TheAnswer
    BY DEF NewestKept, TheAnswer
  <1> DEFINE own == RowsOf(current.agent, rows)
  <1>2. PICK i \in own : rows[i] = TheAnswer /\ \A j \in own : j <= i
    BY <1>1 DEF StoreParts, LastFits
  <1>3. IsTable(rows) /\ Cardinality(own) \in 0..MaxRows
    BY <1>1 DEF StoreParts, LastFits
  <1>4. own \subseteq DOMAIN rows
    BY DEF RowsOf
  <1> HIDE DEF own
  <1>5. own \subseteq Nat /\ IsFiniteSet(own)
    BY <1>3, <1>4, IdsAre, FS_Subset
  <1>6. Max(own) \in own /\ \A j \in own : j <= Max(own)
    BY <1>2, <1>3, <1>4, MaxOfIds
  <1>7. Max(own) = i
    <2>1. i <= Max(own) /\ Max(own) <= i /\ i \in Nat /\ Max(own) \in Nat
      BY <1>2, <1>5, <1>6
    <2>2. \A m, n \in Nat : m <= n /\ n <= m => m = n
      OBVIOUS
    <2>3. QED
      BY <2>1, <2>2, Zenon
  <1>8. Cardinality(own) # 0
    BY <1>2, <1>5, FS_EmptySet
  <1>9. Cardinality(own) \in 1..MaxRows
    <2>1. MaxRows \in Nat
      BY BrainAssumption
    <2>2. \A c : c \in 0..MaxRows /\ c # 0 => c \in 1..MaxRows
      BY <2>1
    <2>3. QED
      BY <1>3, <1>8, <2>2, Zenon
  <1>10. QED
    BY <1>2, <1>7, <1>9 DEF own

\* What is stored is what the requests, the agents and the sessions account for.
THEOREM StoreHolds == Spec => []StoreInv
  <1>1. Init => StoreInv
    <2> SUFFICES ASSUME Init PROVE StoreInv
      OBVIOUS
    <2>1. SkillsInv /\ StoreFits
      BY SkillsStart, StoreStart DEF SkillsInv
    <2>2. ChatsFit /\ RoutersAsked
      BY DEF Init, ChatsFit, RoutersAsked
    <2>3. QED
      BY <2>1, <2>2 DEF StoreInv
  <1>2. StoreInv /\ [Next]_brainVars => StoreInv'
    <2> SUFFICES ASSUME StoreInv, [Next]_brainVars PROVE StoreInv'
      OBVIOUS
    <2>1. SkillsInv'
      BY SkillsKept DEF StoreInv
    <2>2. StoreFits'
      BY <2>1, StoreSteps DEF SkillsInv
    <2>3. ChatsFit' /\ ChatsMove
      BY ChatsNext DEF StoreInv, SkillsInv
    <2>4. RoutersAsked'
      BY <2>3, RoutersNext
    <2>5. QED
      BY <2>1, <2>2, <2>3, <2>4 DEF StoreInv
  <1>3. QED
    BY <1>1, <1>2, PTL DEF Spec

\* Whatever a request stores is whole: the answer after its question, in the
\* session and under the agent of both, counted with it, and among the newest
\* rows that are kept, for any number of rows, sessions and agents and any mix of
\* failures (response_finalizer.py, conversation_repository.py,
\* session_repository.py).
THEOREM TurnsAreKept == Spec => []TurnsKept
  <1>1. StoreInv => TurnsKept
    <2> SUFFICES ASSUME StoreInv PROVE TurnsKept
      OBVIOUS
    <2>1. StoreParts
      BY PartsOf
    <2>2. AnswersFollow
      BY <2>1, FollowsIs DEF StoreParts
    <2>3. AnswersCounted /\ PlaceFits
      BY <2>1 DEF StoreParts, SessionsFit
    <2>4. QED
      BY <2>2, <2>3, KeepsNewest DEF TurnsKept
  <1>2. QED
    BY <1>1, StoreHolds, PTL

\* A memory that names its source names a row there is, of the agent the memory
\* belongs to, though rows are trimmed, cleared and deleted while its extraction
\* waits in the background (brain.py _schedule_memory_extraction,
\* memory_extractor.py).
THEOREM MemoriesAreLinked == Spec => []MemoriesFit
  <1>1. StoreInv => MemoriesFit
    <2> SUFFICES ASSUME StoreInv, NEW m \in memories, m.source # 0
                 PROVE  \E i \in DOMAIN rows : IsSource(rows[i], m.source) /\ rows[i].agent = m.agent
      BY DEF MemoriesFit
    <2>1. Sourced(m.source, rows) /\ Names(rows, m.source, m.agent)
      BY DEF StoreInv, StoreFits, MemoriesLinked, Linked
    <2>2. QED
      BY <2>1 DEF Sourced, Names
  <1>2. QED
    BY <1>1, StoreHolds, PTL

-----------------------------------------------------------------------------
(* How many runs there are within one another. *)

RunsIn(s) == Cardinality({i \in DOMAIN s : s[i].kind = "run"})

One(f) == IF f.kind = "run" THEN 1 ELSE 0

LEMMA RunsAre == ASSUME NEW S, NEW s \in Seq(S)
    PROVE RunsIn(s) \in Nat /\ IsFiniteSet({i \in DOMAIN s : s[i].kind = "run"})
  <1>1. DOMAIN s = 1..Len(s) /\ Len(s) \in Nat
    BY LenProperties
  <1>2. IsFiniteSet(1..Len(s))
    BY <1>1, FS_Interval
  <1>3. IsFiniteSet({i \in DOMAIN s : s[i].kind = "run"})
    BY <1>1, <1>2, FS_Subset
  <1>4. QED
    BY <1>3, FS_CardinalityType DEF RunsIn

LEMMA NoRuns == RunsIn(<<>>) = 0
  <1>1. {i \in DOMAIN <<>> : <<>>[i].kind = "run"} = {}
    OBVIOUS
  <1>2. QED
    BY <1>1, FS_EmptySet DEF RunsIn

LEMMA OneMore ==
    ASSUME NEW S, NEW s \in Seq(S), NEW f \in S
    PROVE  RunsIn(Append(s, f)) = RunsIn(s) + One(f)
  <1> DEFINE new == Append(s, f)
             old == {i \in DOMAIN s : s[i].kind = "run"}
             all == {i \in DOMAIN new : new[i].kind = "run"}
             n == Len(s) + 1
  <1>1. /\ Len(s) \in Nat /\ DOMAIN s = 1..Len(s) /\ DOMAIN new = 1..n
        /\ (\A i \in 1..Len(s) : new[i] = s[i]) /\ new[n] = f
    <2>1. new \in Seq(S) /\ Len(new) = n
      BY AppendProperties
    <2>2. QED
      BY <2>1, AppendProperties, LenProperties
  <1>2. IsFiniteSet(old) /\ Cardinality(old) \in Nat /\ RunsIn(s) = Cardinality(old)
    BY RunsAre DEF RunsIn
  <1>3. n \notin old /\ \A i \in 1..n : i \in 1..Len(s) \/ i = n
    BY <1>1
  <1>4. RunsIn(new) = Cardinality(all)
    BY DEF RunsIn
  <1>5. all = IF f.kind = "run" THEN old \cup {n} ELSE old
    <2> HIDE DEF new, n
    <2>1. \A i \in 1..n : i \in all <=> i \in old \/ (i = n /\ f.kind = "run")
      BY <1>1, <1>3
    <2>2. old \subseteq 1..n /\ n \in 1..n /\ all \subseteq 1..n
      BY <1>1 DEF n
    <2> HIDE DEF old, all
    <2>3. QED
      BY <2>1, <2>2
  <1> HIDE DEF new, old, all, n
  <1>6. CASE f.kind = "run"
    <2>1. Cardinality(old \cup {n}) = Cardinality(old) + 1
      BY <1>2, <1>3, FS_AddElement
    <2>2. QED
      BY <1>2, <1>4, <1>5, <1>6, <2>1 DEF One, new
  <1>7. CASE f.kind # "run"
    <2>1. RunsIn(new) = RunsIn(s) /\ One(f) = 0 /\ RunsIn(s) \in Nat
      BY <1>2, <1>4, <1>5, <1>7 DEF One
    <2>2. QED
      BY <2>1 DEF new
  <1>8. QED
    BY <1>6, <1>7

LEMMA OneIs == \A f : One(f) \in {0, 1} /\ (f.kind # "run" => One(f) = 0)
  BY DEF One

\* The runs of a thread at work.
LEMMA TopRuns ==
    ASSUME LoopInv, NEW t \in Threads, frames[t] # <<>>
    PROVE  LET r == Front(frames[t])
           IN  /\ r \in Seq(Waiting(t)) /\ r \in Seq(Fitting(t)) /\ Top(t) \in AllFrames
               /\ RunsIn(r) \in Nat /\ RunsOf(t) \in Nat
               /\ RunsOf(t) = RunsIn(r) + One(Top(t))
  <1> DEFINE r == Front(frames[t])
             f == Top(t)
  <1>1. f \in Fitting(t) /\ f \in AllFrames /\ r \in Seq(Waiting(t))
    BY TopFits
  <1>2. r \in Seq(Fitting(t))
    BY <1>1, SeqMonotonic DEF Waiting
  <1>3. frames[t] \in Seq(Fitting(t)) /\ frames[t] = Append(r, f)
    <2>1. frames[t] \in Seq(Fitting(t))
      BY TopAndRest DEF LoopInv, FramesFit
    <2>2. QED
      BY <2>1, SplitEnds DEF Top
  <1>4. RunsOf(t) = RunsIn(frames[t])
    BY DEF RunsOf, RunsIn
  <1> HIDE DEF r, f
  <1>5. RunsIn(Append(r, f)) = RunsIn(r) + One(f) /\ RunsIn(r) \in Nat /\ RunsIn(Append(r, f)) \in Nat
    BY <1>1, <1>2, <1>3, OneMore, RunsAre
  <1>6. QED
    BY <1>1, <1>2, <1>3, <1>4, <1>5 DEF r, f

\* What a step of a thread makes of its runs: no more, or one more if there
\* is room; and a pool is opened by the request's thread only, with room left.
NoMore(t, s) ==
    /\ RunsIn(s) <= RunsOf(t)
    /\ Last(s).kind = "parallel" => Top(t).kind = "parallel" \/ (t = Main /\ Room(t))

OneRun(t, s) ==
    /\ RunsIn(s) = RunsOf(t) + 1 /\ Room(t)
    /\ Top(t).kind # "parallel" /\ Last(s).kind # "parallel"

NewRuns(t) ==
    \E s : /\ frames' = [frames EXCEPT ![t] = s] /\ s # <<>> /\ RunsIn(s) \in Nat
           /\ NoMore(t, s) \/ OneRun(t, s)

Done(t) ==
    \/ t = Main /\ frames' = [frames EXCEPT ![Main] = <<>>]
    \/ /\ t \in Workers
       /\ \E text : frames' = [frames EXCEPT ![t] = <<>>,
                                             ![Main] = Append(Front(@), Received(Last(@), text))]

LEMMA ContinuesRuns ==
    ASSUME LoopInv, NEW t \in Threads, frames[t] # <<>>, NEW f, f.kind = Top(t).kind,
           Continue(t, f)
    PROVE  NewRuns(t)
  <1> DEFINE r == Front(frames[t])
             S == Fitting(t) \cup {f}
             s == Append(r, f)
  <1>1. r \in Seq(Fitting(t)) /\ RunsIn(r) \in Nat /\ RunsOf(t) = RunsIn(r) + One(Top(t))
    BY TopRuns
  <1>2. r \in Seq(S)
    BY <1>1, SeqMonotonic
  <1>3. s # <<>> /\ Last(s) = f
    BY <1>2, AppendEnds
  <1>4. RunsIn(s) = RunsIn(r) + One(f)
    BY <1>2, OneMore
  <1>5. One(f) = One(Top(t)) /\ One(f) \in Nat
    BY OneIs DEF One
  <1>6. frames' = [frames EXCEPT ![t] = s]
    BY DEF Continue
  <1> HIDE DEF s, r
  <1>7. RunsIn(s) \in Nat /\ RunsIn(s) = RunsOf(t)
    BY <1>1, <1>4, <1>5
  <1>8. RunsIn(s) <= RunsOf(t)
    BY <1>7
  <1>9. QED
    BY <1>3, <1>6, <1>7, <1>8 DEF NewRuns, NoMore

LEMMA CallsRuns ==
    ASSUME LoopInv, NEW t \in Threads, frames[t] # <<>>, NEW f, f.kind = Top(t).kind, NEW g,
           Calls(t, f, g), g.kind # "run", g.kind = "parallel" => t = Main /\ Room(t)
    PROVE  NewRuns(t)
  <1> DEFINE r == Front(frames[t])
             S == Fitting(t) \cup {f, g}
             s == Append(Append(r, f), g)
  <1>1. r \in Seq(Fitting(t)) /\ RunsIn(r) \in Nat /\ RunsOf(t) = RunsIn(r) + One(Top(t))
    BY TopRuns
  <1>2. r \in Seq(S) /\ f \in S /\ g \in S
    BY <1>1, SeqMonotonic
  <1> HIDE DEF S, r
  <1>3. Append(r, f) \in Seq(S) /\ r \o <<f, g>> = s
    BY <1>2, ConcatTwo
  <1>4. s # <<>> /\ Last(s) = g
    <2> DEFINE q == Append(r, f)
    <2>1. q \in Seq(S) /\ s = Append(q, g)
      BY <1>3
    <2> HIDE DEF q, s
    <2>2. Append(q, g) # <<>> /\ Last(Append(q, g)) = g
      BY <1>2, <2>1, AppendEnds
    <2>3. QED
      BY <2>1, <2>2
  <1>5. RunsIn(s) = RunsIn(r) + One(f) + One(g)
    BY <1>2, <1>3, OneMore
  <1>6. One(f) = One(Top(t)) /\ One(f) \in Nat /\ One(g) = 0
    BY OneIs DEF One
  <1>7. frames' = [frames EXCEPT ![t] = s]
    BY <1>3 DEF Calls, r
  <1> HIDE DEF s
  <1>8. RunsIn(s) \in Nat /\ RunsIn(s) = RunsOf(t)
    BY <1>1, <1>5, <1>6 DEF r
  <1>9. RunsIn(s) <= RunsOf(t)
    BY <1>8
  <1>10. QED
    BY <1>4, <1>7, <1>8, <1>9 DEF NewRuns, NoMore

\* An activation of the loop is one run.
LEMMA ActivationRuns ==
    ASSUME NEW a, NEW stream \in BOOLEAN, NEW hard \in BOOLEAN, NEW first,
           NEW run \in Activations(a, stream, hard, first), NEW S, NEW r \in Seq(S)
    PROVE  /\ RunsIn(r \o run) = RunsIn(r) + 1 /\ RunsIn(run) = 1
           /\ r \o run # <<>> /\ Last(r \o run).kind # "parallel"
           /\ run # <<>> /\ Last(run).kind # "parallel"
  <1> DEFINE f == RunFrame(a, stream, hard, first)
             only == [f EXCEPT !.pc = "legacy only"]
  <1>1. f.kind = "run" /\ only.kind = "run" /\ One(f) = 1 /\ One(only) = 1
    BY DEF RunFrame, One
  <1>2. run = <<f>> \/ \E m \in messages : run = <<only, LegacyFrame(a, m)>>
    BY DEF Activations
  <1> HIDE DEF f, only
  <1>3. RunsIn(r) \in Nat /\ RunsIn(<<>>) = 0
    BY RunsAre, NoRuns
  <1>4. CASE run = <<f>>
    <2> DEFINE T == S \cup {f}
    <2>1. r \in Seq(T) /\ <<>> \in Seq(T) /\ f \in T
      BY SeqMonotonic, EmptySeq
    <2> HIDE DEF T
    <2>2. r \o <<f>> = Append(r, f) /\ <<f>> = Append(<<>>, f)
      BY <2>1, ConcatTwo
    <2>3. \A q \in Seq(T) : /\ RunsIn(Append(q, f)) = RunsIn(q) + One(f)
                            /\ Append(q, f) # <<>> /\ Last(Append(q, f)) = f
      BY <2>1, OneMore, AppendEnds
    <2> DEFINE p == Append(r, f)
               e == Append(<<>>, f)
    <2>4. /\ RunsIn(p) = RunsIn(r) + 1 /\ p # <<>> /\ Last(p) = f
          /\ RunsIn(e) = 0 + 1 /\ e # <<>> /\ Last(e) = f
      BY <1>1, <1>3, <2>1, <2>3
    <2>5. r \o run = p /\ run = e
      BY <1>4, <2>2
    <2> HIDE DEF p, e
    <2>6. QED
      BY <1>1, <2>4, <2>5
  <1>5. ASSUME NEW m \in messages, run = <<only, LegacyFrame(a, m)>>
        PROVE  /\ RunsIn(r \o run) = RunsIn(r) + 1 /\ RunsIn(run) = 1
               /\ r \o run # <<>> /\ Last(r \o run).kind # "parallel"
               /\ run # <<>> /\ Last(run).kind # "parallel"
    <2> DEFINE g == LegacyFrame(a, m)
               T == S \cup {only, g}
    <2>1. g.kind = "legacy" /\ One(g) = 0
      BY DEF LegacyFrame, One
    <2>2. run = <<only, g>>
      BY <1>5
    <2> HIDE DEF g
    <2>3. r \in Seq(T) /\ <<>> \in Seq(T) /\ only \in T /\ g \in T
      BY SeqMonotonic, EmptySeq
    <2> HIDE DEF T
    <2>4. /\ r \o <<only, g>> = Append(Append(r, only), g)
          /\ <<>> \o <<only, g>> = Append(Append(<<>>, only), g)
          /\ \A q \in Seq(T) : Append(q, only) \in Seq(T)
      BY <2>3, ConcatTwo
    <2>5. <<>> \o <<only, g>> = <<only, g>>
      BY <2>3, ConcatEmptySeq
    <2>6. \A q \in Seq(T) : /\ RunsIn(Append(q, g)) = RunsIn(q) + One(g)
                            /\ RunsIn(Append(q, only)) = RunsIn(q) + One(only)
                            /\ Append(q, g) # <<>> /\ Last(Append(q, g)) = g
      BY <2>3, OneMore, AppendEnds
    <2>7. ASSUME NEW q \in Seq(T), RunsIn(q) \in Nat
          PROVE  /\ RunsIn(Append(Append(q, only), g)) = RunsIn(q) + 1
                 /\ Append(Append(q, only), g) # <<>> /\ Last(Append(Append(q, only), g)) = g
      <3> DEFINE o == Append(q, only)
      <3>1. o \in Seq(T) /\ RunsIn(o) = RunsIn(q) + One(only)
        BY <2>4, <2>6
      <3> HIDE DEF o
      <3>2. /\ RunsIn(Append(o, g)) = RunsIn(o) + One(g)
            /\ Append(o, g) # <<>> /\ Last(Append(o, g)) = g
        BY <2>6, <3>1
      <3>3. RunsIn(Append(o, g)) = RunsIn(q) + 1
        BY <1>1, <2>1, <2>7, <3>1, <3>2
      <3>4. QED
        BY <3>2, <3>3 DEF o
    <2> DEFINE p == Append(Append(r, only), g)
               e == Append(Append(<<>>, only), g)
    <2>8. /\ RunsIn(p) = RunsIn(r) + 1 /\ p # <<>> /\ Last(p) = g
          /\ RunsIn(e) = 1 /\ e # <<>> /\ Last(e) = g
      <3> DEFINE n == <<>>
      <3>1. n \in Seq(T) /\ RunsIn(n) = 0 /\ e = Append(Append(n, only), g)
        BY <1>3, <2>3
      <3> HIDE DEF n, e
      <3>2. /\ RunsIn(Append(Append(n, only), g)) = 1
            /\ Append(Append(n, only), g) # <<>> /\ Last(Append(Append(n, only), g)) = g
        BY <2>7, <3>1
      <3>3. RunsIn(p) = RunsIn(r) + 1 /\ p # <<>> /\ Last(p) = g
        BY <1>3, <2>3, <2>7
      <3>4. QED
        BY <3>1, <3>2, <3>3
    <2>9. r \o run = p /\ run = e
      BY <2>2, <2>4, <2>5
    <2> HIDE DEF p, e
    <2>10. QED
      BY <2>1, <2>8, <2>9
  <1>6. QED
    BY <1>2, <1>4, <1>5

LEMMA StartsRuns ==
    ASSUME LoopInv, NEW t \in Threads, frames[t] # <<>>, NEW f, f.kind = Top(t).kind, NEW a,
           StartsRun(t, f, a), Top(t).kind # "parallel"
    PROVE  NewRuns(t)
  <1> PICK hard \in BOOLEAN : \E run \in Activations(a, FALSE, hard, NoTool) :
          frames' = [frames EXCEPT ![t] = Front(@) \o <<f>> \o run]
    BY DEF StartsRun
  <1>1. PICK run \in Activations(a, FALSE, hard, NoTool) :
          frames' = [frames EXCEPT ![t] = Front(@) \o <<f>> \o run]
    OBVIOUS
  <1> DEFINE r == Front(frames[t])
             S == Fitting(t) \cup {f}
             q == r \o <<f>>
             s == q \o run
  <1>2. r \in Seq(Fitting(t)) /\ RunsIn(r) \in Nat /\ RunsOf(t) = RunsIn(r) + One(Top(t))
    BY TopRuns
  <1>3. r \in Seq(S) /\ f \in S
    BY <1>2, SeqMonotonic
  <1>4. frames' = [frames EXCEPT ![t] = s]
    BY <1>1
  <1> HIDE DEF S, r
  <1>5. q = Append(r, f) /\ q \in Seq(S)
    BY <1>3, ConcatTwo
  <1>6. RunsIn(q) = RunsIn(r) + One(f)
    BY <1>3, <1>5, OneMore
  <1> HIDE DEF q
  <1>7. RunsIn(s) = RunsIn(q) + 1 /\ s # <<>> /\ Last(s).kind # "parallel"
    <2> DEFINE stream == FALSE
    <2>1. run \in Activations(a, stream, hard, NoTool) /\ stream \in BOOLEAN /\ hard \in BOOLEAN
      BY <1>1
    <2> DEFINE first == NoTool
    <2>2. run \in Activations(a, stream, hard, first)
      BY <2>1
    <2> HIDE DEF stream, first
    <2>3. \A V : \A p \in Seq(V) :
             RunsIn(p \o run) = RunsIn(p) + 1 /\ p \o run # <<>> /\ Last(p \o run).kind # "parallel"
      BY <2>1, <2>2, ActivationRuns
    <2>4. QED
      BY <1>5, <2>3
  <1>8. One(f) = One(Top(t)) /\ One(f) \in Nat /\ Room(t)
    BY OneIs DEF One, StartsRun
  <1> HIDE DEF s
  <1>9. RunsIn(s) \in Nat /\ RunsIn(s) = RunsOf(t) + 1
    BY <1>2, <1>6, <1>7, <1>8 DEF r
  <1>10. QED
    BY <1>4, <1>7, <1>8, <1>9 DEF NewRuns, OneRun

LEMMA ReceivedKind ==
    ASSUME NEW f \in AllFrames, Waits(f) \/ f.kind = "parallel", NEW text
    PROVE  Received(f, text).kind = f.kind
  <1>1. CASE f.kind = "run"
    <2>1. f \in RunFrames /\ f.pc \in {"delegated", "legacy", "legacy only"}
      BY <1>1, Kinds DEF Waits
    <2>2. \/ Received(f, text) = [f EXCEPT !.final = text, !.pc = "finish"]
          \/ Received(f, text) = [f EXCEPT !.final = IF text = "none" THEN "text" ELSE text, !.pc = "finish"]
          \/ Received(f, text) = [f EXCEPT !.final = text, !.pc = "return"]
      BY <1>1, <2>1 DEF Received
    <2>3. QED
      BY <2>1, <2>2 DEF RunFrames
  <1>2. CASE f.kind = "legacy"
    <2>1. f \in LegacyFrames /\ Received(f, text) = [f EXCEPT !.final = text, !.pc = "judge"]
      BY <1>2, Kinds DEF Received
    <2>2. QED
      BY <2>1 DEF LegacyFrames
  <1>3. CASE f.kind \in {"chain", "team", "parallel"}
    <2>1. f \in ListFrames
      BY <1>3, Kinds
    <2>2. \/ Received(f, text) = [f EXCEPT !.last = text, !.at = @ + 1]
          \/ Received(f, text) = [f EXCEPT !.heard = @ \cup {text}, !.at = @ + 1, !.done = text = "team done"]
          \/ Received(f, text) = [f EXCEPT !.heard = @ \cup {text}, !.out = @ - 1]
      BY <1>3 DEF Received
    <2>3. QED
      BY <2>1, <2>2 DEF ListFrames
  <1>4. QED
    BY <1>1, <1>2, <1>3, Kinds

LEMMA LeavesRuns ==
    ASSUME LoopInv, NEW t \in Threads, frames[t] # <<>>, NEW text, NEW state, Leave(t, text, state)
    PROVE  NewRuns(t) \/ Done(t)
  <1> DEFINE rest == Front(frames[t])
  <1>1. /\ rest \in Seq(Waiting(t)) /\ rest \in Seq(Fitting(t)) /\ RunsIn(rest) \in Nat
        /\ RunsOf(t) = RunsIn(rest) + One(Top(t))
    BY TopRuns
  <1>2. CASE rest # <<>>
    <2> DEFINE q == Front(rest)
               w == Last(rest)
               g == Received(w, text)
               s == Append(q, g)
               S == Waiting(t) \cup {g}
    <2>1. frames' = [frames EXCEPT ![t] = s]
      BY <1>2 DEF Leave
    <2> HIDE DEF rest
    <2>2. q \in Seq(Waiting(t)) /\ w \in Waiting(t) /\ rest = Append(q, w)
      BY <1>1, <1>2, SplitEnds
    <2>3. w \in AllFrames /\ Waits(w) /\ w.kind # "parallel"
      BY <2>2 DEF Waiting, Fitting, Waits
    <2>4. g.kind = w.kind
      BY <2>3, ReceivedKind
    <2> HIDE DEF q, w, g
    <2>5. q \in Seq(S) /\ g \in S
      BY <2>2, SeqMonotonic
    <2>6. RunsIn(rest) = RunsIn(q) + One(w)
      BY <2>2, OneMore
    <2>7. RunsIn(s) = RunsIn(q) + One(g) /\ s # <<>> /\ Last(s) = g
      BY <2>5, OneMore, AppendEnds
    <2>8. One(g) = One(w) /\ One(Top(t)) \in {0, 1}
      BY <2>4, OneIs DEF One
    <2> HIDE DEF s
    <2>9. RunsIn(s) = RunsIn(rest)
      BY <2>6, <2>7, <2>8
    <2>10. RunsIn(s) \in Nat /\ RunsIn(s) <= RunsOf(t)
      BY <1>1, <2>8, <2>9
    <2>11. QED
      BY <2>1, <2>3, <2>4, <2>7, <2>10 DEF NewRuns, NoMore
  <1>3. CASE rest = <<>> /\ t = Main
    BY <1>3 DEF Leave, Done
  <1>4. CASE rest = <<>> /\ t # Main
    BY <1>4 DEF Leave, Done, Threads
  <1>5. QED
    BY <1>2, <1>3, <1>4

\* What a step of a thread does to its runs.
RunsMove(t) == NewRuns(t) \/ Done(t)

LEMMA SomeLeaveRuns ==
    ASSUME LoopInv, NEW t \in Threads, frames[t] # <<>>, \E text, state : Leave(t, text, state)
    PROVE  RunsMove(t)
  BY LeavesRuns DEF RunsMove

LEMMA SomeContinueRuns ==
    ASSUME LoopInv, NEW t \in Threads, frames[t] # <<>>,
           \E f : f.kind = Top(t).kind /\ Continue(t, f)
    PROVE  RunsMove(t)
  BY ContinuesRuns DEF RunsMove

\* Of a frame, a step changes all but the kind.
LEMMA RunKind ==
    ASSUME NEW f \in RunFrames
    PROVE  /\ f.kind = "run"
           /\ \A pc : [f EXCEPT !.pc = pc].kind = "run"
           /\ \A pc, tool : [f EXCEPT !.pc = pc, !.tool = tool].kind = "run"
           /\ \A pc, final, by, tool :
                 [f EXCEPT !.pc = pc, !.final = final, !.by = by, !.tool = tool].kind = "run"
           /\ \A turn0, iterations, pc :
                 [[f EXCEPT !.turn = turn0, !.iterations = iterations] EXCEPT !.pc = pc].kind = "run"
           /\ \A turn0, iterations, pc, sub :
                 [[f EXCEPT !.turn = turn0, !.iterations = iterations]
                     EXCEPT !.pc = pc, !.substitute = sub].kind = "run"
           /\ \A acts, iterations, tool, pc :
                 [[f EXCEPT !.acts = acts, !.iterations = iterations, !.tool = tool]
                     EXCEPT !.pc = pc].kind = "run"
  BY DEF RunFrames

LEMMA LegacyKind ==
    ASSUME NEW f \in LegacyFrames
    PROVE  /\ f.kind = "legacy"
           /\ \A pc : [f EXCEPT !.pc = pc].kind = "legacy"
           /\ \A pc, final : [f EXCEPT !.pc = pc, !.final = final].kind = "legacy"
           /\ \A turn0, pc, action, meant, tool :
                 [f EXCEPT !.turn = turn0, !.pc = pc, !.action = action, !.meant = meant,
                           !.tool = tool].kind = "legacy"
           /\ \A acts, pc, action, meant, tool :
                 [f EXCEPT !.acts = acts, !.pc = pc, !.action = action, !.meant = meant,
                           !.tool = tool].kind = "legacy"
  BY DEF LegacyFrames

LEMMA ListKind ==
    ASSUME NEW f \in ListFrames
    PROVE  /\ \A at : [f EXCEPT !.at = at].kind = f.kind
           /\ \A at, last : [f EXCEPT !.at = at, !.last = last].kind = f.kind
           /\ \A at, turn0 : [f EXCEPT !.at = at, !.turn = turn0].kind = f.kind
  BY DEF ListFrames

LEMMA AskRuns ==
    ASSUME LoopInv, NEW t \in Threads, frames[t] # <<>>, Ask(t)
    PROVE  RunsMove(t)
  <1> DEFINE f == Top(t)
             g == [f EXCEPT !.turn = @ + 1, !.iterations = @ + 1]
  <1>1. f.kind = "run" /\ f \in RunFrames
    BY RunFits DEF Ask
  <1>2. \/ Continue(t, [g EXCEPT !.pc = "stream"])
        \/ Continue(t, [g EXCEPT !.pc = "asked", !.substitute = Substituted(g)])
    BY DEF Ask
  <1>3. /\ [g EXCEPT !.pc = "stream"].kind = "run"
        /\ [g EXCEPT !.pc = "asked", !.substitute = Substituted(g)].kind = "run"
    BY <1>1, RunKind
  <1> HIDE DEF g
  <1>4. QED
    BY <1>1, <1>2, <1>3, SomeContinueRuns

LEMMA NoReplyRuns ==
    ASSUME LoopInv, NEW t \in Threads, frames[t] # <<>>, NoReply(t)
    PROVE  RunsMove(t)
  <1>1. Top(t).kind = "run" /\ Top(t) \in RunFrames
    BY RunFits DEF NoReply
  <1>2. \/ Continue(t, [Top(t) EXCEPT !.pc = Summary(Top(t))])
        \/ Leave(t, "text", "llm_error")
    BY DEF NoReply
  <1>3. [Top(t) EXCEPT !.pc = Summary(Top(t))].kind = "run"
    BY <1>1, RunKind
  <1>4. QED
    BY <1>1, <1>2, <1>3, SomeContinueRuns, SomeLeaveRuns

\* A frame hands over to an agent, or hears that there is none.
LEMMA DelegatesRuns ==
    ASSUME LoopInv, NEW t \in Threads, frames[t] # <<>>, NEW w \in AllFrames, Waits(w),
           w.kind = Top(t).kind, w.kind # "parallel", NEW target, Delegates(t, w, target)
    PROVE  RunsMove(t)
  <1>1. CASE target \in DOMAIN profiles
    BY <1>1, StartsRuns DEF Delegates, RunsMove
  <1>2. CASE target \notin DOMAIN profiles
    <2>1. Received(w, "failure").kind = w.kind
      BY ReceivedKind
    <2>2. Continue(t, Received(w, "failure"))
      BY <1>2 DEF Delegates
    <2>3. QED
      BY <2>1, <2>2, SomeContinueRuns
  <1>3. QED
    BY <1>1, <1>2

LEMMA ReplyRuns ==
    ASSUME LoopInv, NEW t \in Threads, frames[t] # <<>>, Reply(t)
    PROVE  RunsMove(t)
  <1> DEFINE f == Top(t)
  <1>1. f.kind = "run" /\ f.pc = "asked"
    BY DEF Reply
  <1>2. f \in RunFrames /\ f.by = "program"
    BY <1>1, RunFits
  <1>3. PICK reply \in Replies :
         LET plain == reply.call = NoTool
             tool == IF plain THEN Parsed(f, reply) ELSE reply.call
         IN  \/ Continue(t, [f EXCEPT !.pc = Summary(f)])
             \/ \E m \in messages : Calls(t, [f EXCEPT !.pc = "legacy"], LegacyFrame(f.agent, m))
             \/ Delegates(t, [f EXCEPT !.pc = "delegated"], reply.text[2])
             \/ Continue(t, [f EXCEPT !.pc = "tool", !.tool = tool])
             \/ Continue(t, [f EXCEPT !.pc = "finish", !.final = Words(reply),
                                 !.by = IF f.substitute THEN "substitute" ELSE "preferred",
                                 !.tool = IF plain THEN NoTool ELSE NoSuchTool])
    BY DEF Reply
  <1>4. ASSUME NEW g, g.kind = "run", Continue(t, g) PROVE RunsMove(t)
    BY <1>1, <1>4, SomeContinueRuns
  <1> DEFINE plain == reply.call = NoTool
             tool == IF plain THEN Parsed(f, reply) ELSE reply.call
             by == IF f.substitute THEN "substitute" ELSE "preferred"
             none == IF plain THEN NoTool ELSE NoSuchTool
             words == Words(reply)
  <1>5. CASE \E m \in messages : Calls(t, [f EXCEPT !.pc = "legacy"], LegacyFrame(f.agent, m))
    <2> DEFINE g == [f EXCEPT !.pc = "legacy"]
    <2>1. PICK m \in messages : Calls(t, g, LegacyFrame(f.agent, m))
      BY <1>5
    <2>2. g.kind = "run"
      BY <1>2, RunKind
    <2>3. LegacyFrame(f.agent, m).kind = "legacy"
      BY DEF LegacyFrame
    <2> DEFINE h == LegacyFrame(f.agent, m)
    <2> HIDE DEF g, h
    <2>4. g.kind = Top(t).kind /\ Calls(t, g, h) /\ h.kind # "run" /\ h.kind # "parallel"
      BY <1>1, <2>1, <2>2, <2>3 DEF h
    <2>5. QED
      BY <2>4, CallsRuns DEF RunsMove
  <1>6. CASE Delegates(t, [f EXCEPT !.pc = "delegated"], reply.text[2])
    <2> DEFINE g == [f EXCEPT !.pc = "delegated"]
    <2>1. g \in Waiting(t)
      BY <1>1, <1>2, RunTurnsTo
    <2>2. g \in AllFrames /\ Waits(g)
      BY <2>1 DEF Waiting, Fitting
    <2>3. g.kind = "run"
      BY <1>2, RunKind
    <2> HIDE DEF g
    <2>4. Delegates(t, g, reply.text[2])
      BY <1>6 DEF g
    <2>5. QED
      BY <1>1, <2>2, <2>3, <2>4, DelegatesRuns
  <1>7. CASE Continue(t, [f EXCEPT !.pc = Summary(f)])
    <2>1. [f EXCEPT !.pc = Summary(f)].kind = "run"
      BY <1>2, RunKind
    <2>2. QED
      BY <1>4, <1>7, <2>1
  <1>8. CASE Continue(t, [f EXCEPT !.pc = "tool", !.tool = tool])
    <2> HIDE DEF tool
    <2>1. [f EXCEPT !.pc = "tool", !.tool = tool].kind = "run"
      BY <1>2, RunKind
    <2>2. QED
      BY <1>4, <1>8, <2>1
  <1>9. CASE Continue(t, [f EXCEPT !.pc = "finish", !.final = words, !.by = by, !.tool = none])
    <2> HIDE DEF words, by, none
    <2>1. [f EXCEPT !.pc = "finish", !.final = words, !.by = by, !.tool = none].kind = "run"
      BY <1>2, RunKind
    <2>2. QED
      BY <1>4, <1>9, <2>1
  <1>10. QED
    BY <1>3, <1>5, <1>6, <1>7, <1>8, <1>9

LEMMA RunToolRuns ==
    ASSUME LoopInv, NEW t \in Threads, frames[t] # <<>>, RunTool(t)
    PROVE  RunsMove(t)
  <1> DEFINE f == Top(t)
  <1>1. f.kind = "run" /\ f \in RunFrames
    BY RunFits DEF RunTool
  <1>2. PICK reads \in BOOLEAN :
         LET g == [f EXCEPT !.acts = Append(@, [tool |-> f.tool, failed |-> reads]),
                            !.iterations = @ + 1, !.tool = NoTool]
         IN  \/ \E text \in Texts : Leave(t, text, status)
             \/ \E pc \in {"web", "ask"} : Continue(t, [g EXCEPT !.pc = pc])
    BY DEF RunTool, Texts, Told
  <1> DEFINE g == [f EXCEPT !.acts = Append(@, [tool |-> f.tool, failed |-> reads]),
                            !.iterations = @ + 1, !.tool = NoTool]
  <1>3. \A pc : [g EXCEPT !.pc = pc].kind = "run"
    BY <1>1, RunKind
  <1> HIDE DEF g
  <1>4. CASE \E text \in Texts : Leave(t, text, status)
    BY <1>4, SomeLeaveRuns
  <1>5. CASE \E pc \in {"web", "ask"} : Continue(t, [g EXCEPT !.pc = pc])
    BY <1>1, <1>3, <1>5, SomeContinueRuns
  <1>6. QED
    BY <1>2, <1>4, <1>5 DEF g

LEMMA FinishRuns ==
    ASSUME LoopInv, NEW t \in Threads, frames[t] # <<>>,
           Finish(t) \/ Synthesize(t) \/ WriteUp(t) \/ Stream(t)
    PROVE  RunsMove(t)
  <1>1. CASE Finish(t)
    <2>1. Top(t).kind = "run" /\ Top(t) \in RunFrames
      BY <1>1, RunFits DEF Finish
    <2>2. \/ \E text, state : Leave(t, text, state)
          \/ Continue(t, [Top(t) EXCEPT !.pc = "synthesize"])
      BY <1>1 DEF Finish
    <2>3. [Top(t) EXCEPT !.pc = "synthesize"].kind = "run"
      BY <2>1, RunKind
    <2>4. QED
      BY <2>1, <2>2, <2>3, SomeContinueRuns, SomeLeaveRuns
  <1>2. CASE Synthesize(t) \/ WriteUp(t) \/ Stream(t)
    <2>1. \E text, state : Leave(t, text, state)
      BY <1>2 DEF Synthesize, WriteUp, Stream
    <2>2. QED
      BY <2>1, SomeLeaveRuns
  <1>3. QED
    BY <1>1, <1>2

LEMMA LegacyRuns ==
    ASSUME LoopInv, NEW t \in Threads, frames[t] # <<>>, LegacyTurn(t) \/ Judge(t) \/ LegacyEnds(t)
    PROVE  RunsMove(t)
  <1> DEFINE f == Top(t)
  <1>1. f.kind = "legacy" /\ f \in LegacyFrames
    BY LegacyFits DEF LegacyTurn, Judge, LegacyEnds
  <1>2. ASSUME NEW g, g.kind = "legacy", Continue(t, g) PROVE RunsMove(t)
    BY <1>1, <1>2, SomeContinueRuns
  <1>3. CASE LegacyTurn(t)
    <2>1. PICK decided, tool :
             Continue(t, [f EXCEPT !.turn = @ + 1, !.pc = "route", !.action = decided.action,
                                   !.meant = decided.tool, !.tool = tool])
      BY <1>3 DEF LegacyTurn
    <2>2. [f EXCEPT !.turn = @ + 1, !.pc = "route", !.action = decided.action,
                    !.meant = decided.tool, !.tool = tool].kind = "legacy"
      BY <1>1, LegacyKind
    <2>3. QED
      BY <1>2, <2>1, <2>2
  <1>4. CASE Judge(t)
    <2> DEFINE acts == Append(f.acts, [tool |-> f.action, failed |-> f.final = "failure"])
               g == [f EXCEPT !.acts = acts, !.pc = "decide",
                       !.action = "none yet", !.meant = NoTool, !.tool = NoTool]
    <2>1. Leave(t, f.final, status) \/ Continue(t, g)
      BY <1>4 DEF Judge
    <2> HIDE DEF acts
    <2>2. g.kind = "legacy"
      BY <1>1, LegacyKind
    <2> HIDE DEF g
    <2>3. QED
      BY <1>2, <2>1, <2>2, SomeLeaveRuns
  <1>5. CASE LegacyEnds(t)
    BY <1>5, SomeLeaveRuns DEF LegacyEnds
  <1>6. QED
    BY <1>3, <1>4, <1>5

LEMMA JudgedRuns ==
    ASSUME LoopInv, NEW t \in Threads, frames[t] # <<>>, NEW action, Routes(t, action),
           NEW text, Judged(t, text)
    PROVE  RunsMove(t)
  <1>1. Top(t).kind = "legacy" /\ Top(t) \in LegacyFrames
    BY LegacyFits DEF Routes
  <1> DEFINE g == [Top(t) EXCEPT !.pc = "judge", !.final = text]
  <1>2. g.kind = "legacy" /\ Continue(t, g)
    BY <1>1, LegacyKind DEF Judged
  <1> HIDE DEF g
  <1>3. QED
    BY <1>1, <1>2, SomeContinueRuns

LEMMA AtOnceRuns ==
    ASSUME LoopInv, NEW t \in Threads, frames[t] # <<>>,
           \/ RouteChat(t) \/ RouteClear(t) \/ RouteForget(t) \/ RouteRemember(t)
           \/ RouteConfigure(t) \/ RouteSimple(t) \/ RouteTool(t)
    PROVE  RunsMove(t)
  <1>1. ASSUME NEW action, NEW text, Routes(t, action) /\ Judged(t, text)
        PROVE  RunsMove(t)
    BY <1>1, JudgedRuns
  <1>2. CASE RouteChat(t) \/ RouteTool(t)
    BY <1>1, <1>2 DEF RouteChat, RouteTool
  <1>3. CASE RouteClear(t) \/ RouteForget(t) \/ RouteRemember(t)
    BY <1>1, <1>3 DEF RouteClear, RouteForget, RouteRemember
  <1>4. CASE RouteConfigure(t) \/ RouteSimple(t)
    BY <1>1, <1>4 DEF RouteConfigure, RouteSimple
  <1>5. QED
    BY <1>2, <1>3, <1>4

LEMMA RouteRuns ==
    ASSUME LoopInv, NEW t \in Threads, frames[t] # <<>>, RouteDelegate(t) \/ RouteOrchestrate(t)
    PROVE  RunsMove(t)
  <1> DEFINE w == [Top(t) EXCEPT !.pc = "wait"]
  <1>1. Top(t).kind = "legacy" /\ Top(t).pc = "route" /\ Top(t) \in LegacyFrames
    BY LegacyFits DEF RouteDelegate, RouteOrchestrate, Routes
  <1>2. w \in AllFrames /\ Waits(w)
    <2>1. w \in Waiting(t)
      BY <1>1, LegacyTurnsTo DEF Texts
    <2>2. QED
      BY <2>1 DEF Waiting, Fitting
  <1>3. w.kind = "legacy"
    BY <1>1, LegacyKind
  <1>4. RouteDelegate(t) => \/ \E target : Delegates(t, w, target)
                            \/ Routes(t, "DELEGATE") /\ Judged(t, "text")
    BY DEF RouteDelegate
  <1>5. RouteOrchestrate(t) =>
          \/ /\ Room(t)
             /\ \E kind \in {"chain", "team", "parallel"}, party \in Parties :
                    (kind = "parallel" => t = Main) /\ Calls(t, w, ListFrame(kind, party))
          \/ Routes(t, "ORCHESTRATE") /\ Judged(t, "text")
    BY DEF RouteOrchestrate
  <1> HIDE DEF w
  <1>6. ASSUME NEW target, Delegates(t, w, target) PROVE RunsMove(t)
    BY <1>1, <1>2, <1>3, <1>6, DelegatesRuns
  <1>7. ASSUME Room(t), NEW kind \in {"chain", "team", "parallel"}, NEW party \in Parties,
               kind = "parallel" => t = Main, Calls(t, w, ListFrame(kind, party))
        PROVE  RunsMove(t)
    <2> DEFINE g == ListFrame(kind, party)
    <2>1. g.kind = kind
      BY DEF ListFrame
    <2>2. Calls(t, w, g)
      BY <1>7
    <2> HIDE DEF g
    <2>3. g.kind # "run" /\ (g.kind = "parallel" => t = Main /\ Room(t)) /\ w.kind = Top(t).kind
      BY <1>1, <1>3, <1>7, <2>1
    <2>4. QED
      BY <2>2, <2>3, CallsRuns DEF RunsMove
  <1>8. ASSUME NEW action, Routes(t, action), Judged(t, "text") PROVE RunsMove(t)
    BY <1>8, JudgedRuns
  <1>9. QED
    BY <1>4, <1>5, <1>6, <1>7, <1>8

LEMMA ListRuns ==
    ASSUME LoopInv, NEW t \in Threads, frames[t] # <<>>,
           ChainStep(t) \/ TeamStep(t) \/ PoolPasses(t) \/ PoolEnds(t)
    PROVE  RunsMove(t)
  <1> DEFINE f == Top(t)
  <1>1. f \in ListFrames
    BY TopFits, Kinds DEF ChainStep, TeamStep, PoolPasses, PoolEnds
  <1>2. ChainStep(t) \/ TeamStep(t) =>
          /\ f.kind # "parallel"
          /\ \/ \E text, state : Leave(t, text, state)
             \/ Continue(t, [f EXCEPT !.at = @ + 1, !.last = "none"])
             \/ Continue(t, [f EXCEPT !.at = @ + 1])
             \/ Continue(t, NextTurn(f))
             \/ \E a : StartsRun(t, f, a)
    BY DEF ChainStep, TeamStep
  <1>3. PoolPasses(t) => Continue(t, [f EXCEPT !.at = @ + 1])
    BY DEF PoolPasses
  <1>4. PoolEnds(t) => \E text, state : Leave(t, text, state)
    BY DEF PoolEnds
  <1>5. /\ [f EXCEPT !.at = @ + 1, !.last = "none"].kind = f.kind
        /\ [f EXCEPT !.at = @ + 1].kind = f.kind
        /\ NextTurn(f).kind = f.kind
    BY <1>1, ListKind DEF NextTurn
  <1>6. ASSUME f.kind # "parallel", NEW a, StartsRun(t, f, a) PROVE RunsMove(t)
    BY <1>6, StartsRuns DEF RunsMove
  <1>7. CASE Continue(t, [f EXCEPT !.at = @ + 1, !.last = "none"])
    BY <1>5, <1>7, SomeContinueRuns
  <1>8. CASE Continue(t, [f EXCEPT !.at = @ + 1])
    BY <1>5, <1>8, SomeContinueRuns
  <1>9. CASE Continue(t, NextTurn(f))
    BY <1>5, <1>9, SomeContinueRuns
  <1>10. CASE \E text, state : Leave(t, text, state)
    BY <1>10, SomeLeaveRuns
  <1>11. QED
    BY <1>2, <1>3, <1>4, <1>6, <1>7, <1>8, <1>9, <1>10

LEMMA LoopStepRuns ==
    ASSUME LoopInv, NEW t \in Threads, LoopStep(t) PROVE RunsMove(t)
  <1>1. frames[t] # <<>>
    BY DEF LoopStep
  <1>2. QED
    BY <1>1, AskRuns, NoReplyRuns, ReplyRuns, RunToolRuns, FinishRuns, LegacyRuns, AtOnceRuns,
       RouteRuns, ListRuns DEF LoopStep

\* There is no more within one another than there is room for; and a pool has
\* room for a run of each of its threads.
RunsInv ==
    /\ RunsOf(Main) <= MaxRuns
    /\ ~Idle /\ Top(Main).kind = "parallel" => RunsOf(Main) < MaxRuns
    /\ \A w \in Busy : RunsOf(w) + RunsOf(Main) <= MaxRuns

LEMMA RunsOfIs ==
    ASSUME LoopInv, NEW t \in Threads
    PROVE  RunsOf(t) = RunsIn(frames[t]) /\ RunsOf(t) \in Nat /\ (frames[t] = <<>> => RunsOf(t) = 0)
  <1>1. RunsOf(t) = RunsIn(frames[t])
    BY DEF RunsOf, RunsIn
  <1>2. CASE frames[t] # <<>>
    BY <1>1, <1>2, TopRuns
  <1>3. CASE frames[t] = <<>>
    BY <1>1, <1>3, NoRuns
  <1>4. QED
    BY <1>1, <1>2, <1>3

LEMMA FramesChange ==
    ASSUME LoopInv, NEW t \in Threads, NEW s, frames' = [frames EXCEPT ![t] = s]
    PROVE  /\ frames'[t] = s /\ RunsOf(t)' = RunsIn(s)
           /\ \A u \in Threads \ {t} : frames'[u] = frames[u] /\ RunsOf(u)' = RunsOf(u)
  <1>1. DOMAIN frames = Threads
    BY DEF LoopInv, FramesFit
  <1>2. frames'[t] = s /\ \A u \in Threads \ {t} : frames'[u] = frames[u]
    BY <1>1
  <1>3. QED
    BY <1>2 DEF RunsOf, RunsIn

LEMMA Threading == Main \in Threads /\ Workers \subseteq Threads /\ Main \notin Workers
  BY LoopAssumption DEF Threads

LEMMA NewRunsFit ==
    ASSUME LoopInv, RunsInv, NEW t \in Threads, frames[t] # <<>>, NewRuns(t)
    PROVE  RunsInv'
  <1>1. PICK s : /\ frames' = [frames EXCEPT ![t] = s] /\ s # <<>> /\ RunsIn(s) \in Nat
                 /\ NoMore(t, s) \/ OneRun(t, s)
    BY DEF NewRuns
  <1>2. /\ frames'[t] = s /\ RunsOf(t)' = RunsIn(s)
        /\ \A u \in Threads \ {t} : frames'[u] = frames[u] /\ RunsOf(u)' = RunsOf(u)
    BY <1>1, FramesChange
  <1>3. MaxRuns \in Nat /\ RunsOf(Main) \in Nat /\ RunsOf(t) \in Nat
    BY LoopAssumption, Threading, RunsOfIs
  <1>4. \A w \in Busy : RunsOf(w) \in Nat
    BY Threading, RunsOfIs DEF Busy
  <1>5. CASE t = Main
    <2>1. ~Idle /\ ~Idle' /\ Top(Main)' = Last(s)
      BY <1>1, <1>2, <1>5 DEF Idle, Top
    <2>2. Busy' = Busy
      BY <1>2, <1>5, Threading DEF Busy
    <2>3. Top(Main).kind # "parallel" => Busy = {}
      BY <2>1 DEF LoopInv, PoolFits
    <2>4. \A w \in Busy : RunsOf(w)' = RunsOf(w)
      BY <1>2, <1>5, Threading DEF Busy
    <2>5. CASE NoMore(t, s)
      <3>1. RunsIn(s) <= RunsOf(Main)
        BY <1>5, <2>5 DEF NoMore
      <3>2. Last(s).kind = "parallel" => RunsOf(Main) < MaxRuns
        <4>1. Top(Main).kind = "parallel" => RunsOf(Main) < MaxRuns
          BY <2>1 DEF RunsInv
        <4>2. Room(Main) => RunsOf(Main) < MaxRuns
          <5>1. Runs(Main) = RunsOf(Main) + 0
            BY DEF Runs
          <5>2. QED
            BY <1>3, <5>1 DEF Room
        <4>3. QED
          BY <1>5, <2>5, <4>1, <4>2 DEF NoMore
      <3>3. RunsOf(Main)' <= MaxRuns /\ (Last(s).kind = "parallel" => RunsOf(Main)' < MaxRuns)
        BY <1>1, <1>2, <1>3, <1>5, <3>1, <3>2 DEF RunsInv
      <3>4. \A w \in Busy : RunsOf(w)' + RunsOf(Main)' <= MaxRuns
        <4> SUFFICES ASSUME NEW w \in Busy PROVE RunsOf(w)' + RunsOf(Main)' <= MaxRuns
          OBVIOUS
        <4>1. RunsOf(w) + RunsOf(Main) <= MaxRuns /\ RunsOf(w)' = RunsOf(w) /\ RunsOf(w) \in Nat
          BY <1>4, <2>4 DEF RunsInv
        <4>2. QED
          BY <1>1, <1>2, <1>3, <1>5, <3>1, <4>1
      <3>5. QED
        BY <2>1, <2>2, <3>3, <3>4 DEF RunsInv
    <2>6. CASE OneRun(t, s)
      <3>1. /\ RunsIn(s) = RunsOf(Main) + 1 /\ RunsOf(Main) < MaxRuns
            /\ Top(Main).kind # "parallel" /\ Last(s).kind # "parallel"
        <4>1. Runs(Main) < MaxRuns /\ Runs(Main) = RunsOf(Main) + 0
          BY <1>5, <2>6 DEF OneRun, Room, Runs
        <4>2. RunsOf(Main) < MaxRuns
          BY <1>3, <4>1
        <4>3. QED
          BY <1>5, <2>6, <4>2 DEF OneRun
      <3>2. RunsOf(Main)' <= MaxRuns
        BY <1>2, <1>3, <1>5, <3>1
      <3>3. QED
        BY <2>1, <2>2, <2>3, <3>1, <3>2 DEF RunsInv
    <2>7. QED
      BY <1>1, <2>5, <2>6
  <1>6. CASE t # Main
    <2>1. t \in Busy /\ frames'[Main] = frames[Main] /\ RunsOf(Main)' = RunsOf(Main)
      BY <1>2, <1>6, Threading DEF Busy, Threads
    <2>2. Idle' = Idle /\ Top(Main)' = Top(Main)
      BY <2>1 DEF Idle, Top
    <2>3. Busy' = Busy
      BY <1>1, <1>2, <2>1, Threading DEF Busy
    <2>4. \A w \in Busy \ {t} : RunsOf(w)' = RunsOf(w)
      BY <1>2, Threading DEF Busy
    <2>5. RunsOf(t) + RunsOf(Main) <= MaxRuns
      BY <2>1 DEF RunsInv
    <2>6. RunsOf(t)' + RunsOf(Main)' <= MaxRuns
      <3>1. CASE NoMore(t, s)
        <4>1. RunsIn(s) <= RunsOf(t)
          BY <3>1 DEF NoMore
        <4>2. QED
          BY <1>1, <1>2, <1>3, <2>1, <2>5, <4>1
      <3>2. CASE OneRun(t, s)
        <4>1. RunsIn(s) = RunsOf(t) + 1 /\ RunsOf(t) + RunsOf(Main) < MaxRuns
          BY <1>6, <3>2 DEF OneRun, Room, Runs
        <4>2. QED
          BY <1>1, <1>2, <1>3, <2>1, <4>1
      <3>3. QED
        BY <1>1, <3>1, <3>2
    <2>7. QED
      BY <2>1, <2>2, <2>3, <2>4, <2>6 DEF RunsInv
  <1>7. QED
    BY <1>5, <1>6


LEMMA DoneFits ==
    ASSUME LoopInv, RunsInv, LoopInv', NEW t \in Threads, frames[t] # <<>>, Done(t)
    PROVE  RunsInv'
  <1>1. MaxRuns \in Nat /\ RunsOf(Main) \in Nat
    BY LoopAssumption, Threading, RunsOfIs
  <1>2. CASE t = Main /\ frames' = [frames EXCEPT ![Main] = <<>>]
    <2>1. frames'[Main] = <<>> /\ RunsOf(Main)' = RunsIn(<<>>)
      BY <1>2, FramesChange, Threading
    <2>2. Idle' /\ RunsOf(Main)' = 0
      BY <2>1, NoRuns DEF Idle
    <2>3. Busy' = {}
      BY <2>2 DEF LoopInv, PoolFits
    <2>4. QED
      BY <1>1, <2>2, <2>3 DEF RunsInv
  <1>3. ASSUME t \in Workers, NEW text,
               frames' = [frames EXCEPT ![t] = <<>>,
                                        ![Main] = Append(Front(@), Received(Last(@), text))]
        PROVE  RunsInv'
    <2> DEFINE r == Front(frames[Main])
               f == Top(Main)
               g == Received(f, text)
               s == Append(r, g)
               S == Fitting(Main) \cup {g}
    <2>1. t \in Busy
      BY <1>3 DEF Busy
    <2>2. ~Idle /\ f.kind = "parallel" /\ frames[Main] # <<>>
      BY <2>1 DEF LoopInv, PoolFits, Idle
    <2>3. r \in Seq(Fitting(Main)) /\ f \in AllFrames /\ RunsIn(r) \in Nat
          /\ RunsOf(Main) = RunsIn(r) + One(f)
      BY <2>2, TopRuns, Threading
    <2>4. g.kind = "parallel"
      BY <2>2, <2>3, ReceivedKind
    <2>5. frames' = [[frames EXCEPT ![t] = <<>>] EXCEPT ![Main] = s]
      BY <1>3, Threading DEF LoopInv, FramesFit, Top
    <2>6. DOMAIN frames = Threads
      BY DEF LoopInv, FramesFit
    <2> HIDE DEF r, f, g
    <2>7. /\ frames'[Main] = s /\ frames'[t] = <<>>
          /\ \A u \in Threads \ {t, Main} : frames'[u] = frames[u]
      BY <1>3, <2>5, <2>6, Threading
    <2>8. r \in Seq(S) /\ g \in S
      BY <2>3, SeqMonotonic
    <2>9. RunsIn(s) = RunsIn(r) + One(g) /\ s # <<>> /\ Last(s) = g
      BY <2>8, OneMore, AppendEnds
    <2>10. One(g) = 0 /\ One(f) = 0
      BY <2>2, <2>4, OneIs
    <2> HIDE DEF s
    <2>11. RunsOf(Main)' = RunsOf(Main)
      <3>1. RunsOf(Main)' = RunsIn(s)
        BY <2>7 DEF RunsOf, RunsIn
      <3>2. QED
        BY <2>3, <2>9, <2>10, <3>1
    <2>12. Busy' = Busy \ {t}
      BY <2>7, Threading DEF Busy
    <2>13. \A w \in Busy \ {t} : RunsOf(w)' = RunsOf(w)
      BY <2>7, Threading DEF Busy, RunsOf
    <2>14. RunsOf(Main) < MaxRuns /\ RunsOf(Main) <= MaxRuns
      BY <2>2 DEF RunsInv, f
    <2>15. QED
      BY <2>11, <2>12, <2>13, <2>14 DEF RunsInv
  <1>4. QED
    BY <1>2, <1>3 DEF Done

LEMMA TakenFits ==
    ASSUME LoopInv, RunsInv, NEW w \in Workers, PoolTakes(w)
    PROVE  RunsInv'
  <1> DEFINE f == Top(Main)
             r == Front(frames[Main])
             g == [f EXCEPT !.at = @ + 1, !.out = @ + 1]
             s == Append(r, g)
             S == Fitting(Main) \cup {g}
             a == f.agents[f.at]
  <1>1. frames[w] = <<>> /\ ~Idle /\ f.kind = "parallel" /\ frames[Main] # <<>>
    BY DEF PoolTakes, Idle
  <1>2. PICK run \in Activations(a, FALSE, FALSE, NoTool) :
          frames' = [frames EXCEPT ![w] = run, ![Main] = Append(Front(@), g)]
    BY DEF PoolTakes
  <1>3. RunsIn(run) = 1 /\ run # <<>>
    <2> DEFINE no == FALSE
               first == NoTool
               n == <<>>
    <2>1. no \in BOOLEAN /\ run \in Activations(a, no, no, first) /\ n \in Seq({})
      BY <1>2, EmptySeq
    <2> HIDE DEF no, first, n, a
    <2>2. RunsIn(n \o run) = RunsIn(n) + 1 /\ RunsIn(run) = 1 /\ run # <<>>
      BY <2>1, ActivationRuns
    <2>3. QED
      BY <2>2
  <1>4. r \in Seq(Fitting(Main)) /\ f \in AllFrames /\ RunsIn(r) \in Nat
        /\ RunsOf(Main) = RunsIn(r) + One(f)
    BY <1>1, TopRuns, Threading
  <1>5. f \in ListFrames
    BY <1>1, <1>4, Kinds
  <1>6. frames' = [[frames EXCEPT ![w] = run] EXCEPT ![Main] = s]
    BY <1>2, Threading DEF LoopInv, FramesFit
  <1>7. DOMAIN frames = Threads
    BY DEF LoopInv, FramesFit
  <1> HIDE DEF f, r, a
  <1>8. g.kind = "parallel"
    BY <1>1, <1>5 DEF ListFrames
  <1> HIDE DEF g
  <1>9. /\ frames'[Main] = s /\ frames'[w] = run
        /\ \A u \in Threads \ {w, Main} : frames'[u] = frames[u]
    BY <1>6, <1>7, Threading
  <1>10. r \in Seq(S) /\ g \in S
    BY <1>4, SeqMonotonic
  <1>11. RunsIn(s) = RunsIn(r) + One(g) /\ s # <<>> /\ Last(s) = g
    BY <1>10, OneMore, AppendEnds
  <1>12. One(g) = 0 /\ One(f) = 0
    BY <1>1, <1>8, OneIs
  <1> HIDE DEF s
  <1>13. RunsOf(Main)' = RunsOf(Main) /\ RunsOf(w)' = 1
    <2>1. RunsOf(Main)' = RunsIn(s) /\ RunsOf(w)' = RunsIn(run)
      BY <1>9 DEF RunsOf, RunsIn
    <2>2. QED
      BY <1>3, <1>4, <1>11, <1>12, <2>1
  <1>14. Busy' = Busy \cup {w} /\ w \notin Busy
    BY <1>1, <1>3, <1>9, Threading DEF Busy
  <1>15. \A u \in Busy : RunsOf(u)' = RunsOf(u)
    BY <1>9, <1>14, Threading DEF Busy, RunsOf
  <1>16. RunsOf(Main) < MaxRuns /\ RunsOf(Main) <= MaxRuns
    BY <1>1 DEF RunsInv, f
  <1>17. RunsOf(w)' + RunsOf(Main)' <= MaxRuns
    <2>1. MaxRuns \in Nat /\ RunsOf(Main) \in Nat
      BY LoopAssumption, Threading, RunsOfIs
    <2>2. QED
      BY <1>13, <1>16, <2>1
  <1>18. QED
    BY <1>13, <1>14, <1>15, <1>16, <1>17 DEF RunsInv

\* What a request begins with.
FewRuns ==
    \E s : /\ frames' = [frames EXCEPT ![Main] = s]
           /\ s # <<>> /\ RunsIn(s) \in {0, 1} /\ Last(s).kind # "parallel"

LEMMA FewFit ==
    ASSUME LoopInv, Idle, FewRuns PROVE RunsInv'
  <1>1. PICK s : /\ frames' = [frames EXCEPT ![Main] = s]
                 /\ s # <<>> /\ RunsIn(s) \in {0, 1} /\ Last(s).kind # "parallel"
    BY DEF FewRuns
  <1>2. /\ frames'[Main] = s /\ RunsOf(Main)' = RunsIn(s)
        /\ \A u \in Threads \ {Main} : frames'[u] = frames[u]
    BY <1>1, FramesChange, Threading
  <1>3. Busy = {}
    BY DEF LoopInv, PoolFits
  <1>4. Busy' = {}
    BY <1>2, <1>3, Threading DEF Busy
  <1>5. ~Idle' /\ Top(Main)' = Last(s)
    BY <1>1, <1>2 DEF Idle, Top
  <1>6. RunsOf(Main)' <= MaxRuns
    <2>1. MaxRuns \in Nat \ {0}
      BY LoopAssumption
    <2>2. RunsOf(Main)' \in {0, 1}
      BY <1>1, <1>2
    <2>3. QED
      BY <2>1, <2>2
  <1>7. QED
    BY <1>1, <1>4, <1>5, <1>6 DEF RunsInv

LEMMA StartedRuns ==
    ASSUME NEW a, NEW stream, stream \in BOOLEAN, NEW first, Started(a, stream, first)
    PROVE  FewRuns
  <1>1. PICK hard : hard \in BOOLEAN /\ \E run \in Activations(a, stream, hard, first) :
          frames' = [frames EXCEPT ![Main] = run]
    BY DEF Started
  <1>2. PICK run : run \in Activations(a, stream, hard, first)
                   /\ frames' = [frames EXCEPT ![Main] = run]
    BY <1>1
  <1> DEFINE n == <<>>
  <1>3. n \in Seq({}) /\ stream \in BOOLEAN /\ hard \in BOOLEAN
    BY <1>1, EmptySeq
  <1> HIDE DEF n
  <1>4. \A V : \A q \in Seq(V) :
           /\ RunsIn(q \o run) = RunsIn(q) + 1
           /\ RunsIn(run) = 1 /\ run # <<>> /\ Last(run).kind # "parallel"
    BY <1>2, <1>3, ActivationRuns
  <1>5. RunsIn(run) = 1 /\ run # <<>> /\ Last(run).kind # "parallel"
    BY <1>3, <1>4
  <1>6. QED
    BY <1>2, <1>5 DEF FewRuns

\* What a step may do to the runs of the threads.
FramesMove ==
    \/ UNCHANGED frames
    \/ \E t \in Threads : frames[t] # <<>> /\ RunsMove(t)
    \/ \E w \in Workers : PoolTakes(w)
    \/ Idle /\ FewRuns
    \/ frames' = [t \in Threads |-> <<>>]

LEMMA CommandsRun ==
    ASSUME WorkInv, Commands PROVE FramesMove
  <1>1. CASE StartAgents
    <2>1. Idle
      BY <1>1 DEF StartAgents, Arrives, Free
    <2>2. CASE \E a \in DOMAIN profiles : Started(a, FALSE, NoTool)
      <3>1. PICK a : Started(a, FALSE, NoTool)
        BY <2>2
      <3> DEFINE no == FALSE
                 first == NoTool
      <3>2. Started(a, no, first) /\ no \in BOOLEAN
        BY <3>1
      <3> HIDE DEF no, first
      <3>3. FewRuns
        BY <3>2, StartedRuns
      <3>4. QED
        BY <2>1, <3>3 DEF FramesMove
    <2>3. ASSUME NEW kind \in {"chain", "team"}, NEW party \in Parties,
                 frames' = [frames EXCEPT ![Main] = <<ListFrame(kind, party)>>]
          PROVE  FramesMove
      <3> DEFINE g == ListFrame(kind, party)
                 n == <<>>
                 s == Append(n, g)
      <3>1. g.kind = kind
        BY DEF ListFrame
      <3>2. frames' = [frames EXCEPT ![Main] = s]
        <4>1. s = <<g>>
          OBVIOUS
        <4>2. QED
          BY <2>3, <4>1
      <3>3. n \in Seq({g}) /\ RunsIn(n) = 0
        BY NoRuns, EmptySeq
      <3> HIDE DEF g, n
      <3>4. RunsIn(s) = RunsIn(n) + One(g) /\ s # <<>> /\ Last(s) = g
        BY <3>3, OneMore, AppendEnds
      <3>5. One(g) = 0 /\ g.kind # "parallel"
        BY <2>3, <3>1, OneIs
      <3>6. RunsIn(s) = 0
        BY <3>3, <3>4, <3>5
      <3> HIDE DEF s
      <3>7. FewRuns
        BY <3>2, <3>4, <3>5, <3>6 DEF FewRuns
      <3>8. QED
        BY <2>1, <3>7 DEF FramesMove
    <2>4. QED
      BY <1>1, <2>2, <2>3 DEF StartAgents
  <1>2. CASE ~StartAgents
    BY <1>2 DEF Commands, StartNewSession, ResumeSession, DeleteSession, UseAgent, Show, UseSkill,
       DropSkill, ReloadSkills, ConfigCommand, Command, CreateAgent, SetAgentTools, SetAgentModel,
       SetAgentPersona, ToSave, Receive, loopVars, FramesMove
  <1>3. QED
    BY <1>1, <1>2

LEMMA ServingRuns ==
    ASSUME WorkInv, Serving PROVE FramesMove
  <1>1. CASE SaveUserRow
    <2>1. Idle /\ request.stream \in BOOLEAN
      BY <1>1 DEF SaveUserRow, WorkInv, StagesFit, RequestsFit, Request
    <2>2. CASE UNCHANGED loopVars
      BY <2>2 DEF loopVars, FramesMove
    <2>3. CASE Started(current.agent, request.stream, request.first)
      <3> DEFINE a == current.agent
                 stream == request.stream
                 first == request.first
      <3>1. Started(a, stream, first) /\ stream \in BOOLEAN
        BY <2>1, <2>3
      <3> HIDE DEF a, stream, first
      <3>2. FewRuns
        BY <3>1, StartedRuns
      <3>3. QED
        BY <2>1, <3>2 DEF FramesMove
    <2>4. QED
      BY <1>1, <2>2, <2>3 DEF SaveUserRow
  <1>2. CASE ~SaveUserRow
    BY <1>2 DEF Serving, ConfigSaved, OpenAgentsFile, WriteAgentsFile, SaveRest, ChatAnswers,
       LoopAnswers, SaveAnswer, Count, Trim, Learn, AgentsAnswer, loopVars, FramesMove
  <1>3. QED
    BY <1>1, <1>2

LEMMA LoopingRuns ==
    ASSUME WorkInv, NEW t \in Threads, Looping(t) PROVE FramesMove
  <1>1. LoopInv /\ frames[t] # <<>>
    BY DEF WorkInv, Looping
  <1>2. CASE LoopSteps(t)
    BY <1>1, <1>2, LoopStepRuns DEF LoopSteps, FramesMove
  <1>3. CASE \/ ChatInLoop(t) \/ ClearInLoop(t) \/ ForgetInLoop(t) \/ RememberInLoop(t)
             \/ ConfigureInLoop(t)
    <2>1. CASE ChatAsks(t) \/ ChatReplies(t) \/ ChatCounts(t)
      BY <2>1 DEF ChatAsks, ChatReplies, ChatCounts, loopVars, FramesMove
    <2>2. CASE ChatRefuses(t)
      <3>1. Routes(t, "CHAT") /\ Judged(t, "text")
        BY <2>2 DEF ChatRefuses
      <3>2. RunsMove(t)
        BY <1>1, <3>1, JudgedRuns
      <3>3. QED
        BY <1>1, <3>2 DEF FramesMove
    <2>3. CASE \/ ChatTrims(t) \/ ClearInLoop(t) \/ ForgetInLoop(t) \/ RememberInLoop(t)
               \/ ConfigureInLoop(t)
      <3>1. \/ RouteChat(t) \/ RouteClear(t) \/ RouteForget(t) \/ RouteRemember(t)
            \/ RouteConfigure(t)
        BY <2>3 DEF ChatTrims, ClearInLoop, ForgetInLoop, RememberInLoop, ConfigureInLoop
      <3>2. RunsMove(t)
        BY <1>1, <3>1, AtOnceRuns
      <3>3. QED
        BY <1>1, <3>2 DEF FramesMove
    <2>4. QED
      BY <1>3, <2>1, <2>2, <2>3 DEF ChatInLoop
  <1>4. CASE RouteBreaks(t)
    <2>1. Done(t)
      BY <1>4 DEF RouteBreaks, Done, Threads
    <2>2. QED
      BY <1>1, <2>1 DEF RunsMove, FramesMove
  <1>5. QED
    BY <1>2, <1>3, <1>4 DEF Looping

LEMMA RunsSteps ==
    ASSUME WorkInv, [Next]_brainVars PROVE FramesMove
  <1>1. CASE UNCHANGED brainVars
    BY <1>1 DEF brainVars, loopVars, FramesMove
  <1>2. ASSUME NEW w \in Workers, PoolSteps(w) PROVE FramesMove
    BY <1>2 DEF PoolSteps, FramesMove
  <1>3. CASE Background \/ FinalizeFails
    BY <1>3 DEF Background, Extract, Summarize, TaskRest, FinalizeFails, loopVars, FramesMove
  <1>4. CASE Leaves
    <2>1. CASE UNCHANGED loopVars
      BY <2>1 DEF loopVars, FramesMove
    <2>2. ASSUME Len(frames[Main]) = 1, NEW text \in Texts, Leave(Main, text, status)
          PROVE  FramesMove
      <3>1. frames[Main] # <<>> /\ LoopInv
        BY <2>2 DEF WorkInv
      <3>2. RunsMove(Main)
        BY <2>2, <3>1, Threading, SomeLeaveRuns
      <3>3. QED
        BY <3>1, <3>2, Threading DEF FramesMove
    <2>3. QED
      BY <1>4, <2>1, <2>2 DEF Leaves
  <1>5. CASE Restart
    BY <1>5 DEF Restart, FramesMove
  <1>6. QED
    BY <1>1, <1>2, <1>3, <1>4, <1>5, CommandsRun, ServingRuns, LoopingRuns DEF Next, Serves

LEMMA RestingRuns ==
    ASSUME frames' = [t \in Threads |-> <<>>] PROVE RunsInv'
  <1>1. Idle' /\ Busy' = {}
    BY Threading DEF Idle, Busy
  <1>2. RunsOf(Main)' = 0
    <2>1. frames'[Main] = <<>>
      BY Threading
    <2>2. RunsOf(Main)' = RunsIn(<<>>)
      BY <2>1 DEF RunsOf, RunsIn
    <2>3. QED
      BY <2>2, NoRuns
  <1>3. 0 <= MaxRuns
    BY LoopAssumption
  <1>4. QED
    BY <1>1, <1>2, <1>3 DEF RunsInv

LEMMA RunsStart ==
    ASSUME LoopInit PROVE RunsInv
  <1>1. Idle /\ Busy = {}
    BY Threading DEF LoopInit, Idle, Busy
  <1>2. RunsOf(Main) = 0
    <2>1. frames[Main] = <<>>
      BY Threading DEF LoopInit
    <2>2. RunsOf(Main) = RunsIn(<<>>)
      BY <2>1 DEF RunsOf, RunsIn
    <2>3. QED
      BY <2>2, NoRuns
  <1>3. 0 <= MaxRuns
    BY LoopAssumption
  <1>4. QED
    BY <1>1, <1>2, <1>3 DEF RunsInv

LEMMA RunsNext ==
    ASSUME LoopInv, LoopInv', RunsInv, FramesMove PROVE RunsInv'
  <1>1. CASE UNCHANGED frames
    <2>1. Idle' = Idle /\ Busy' = Busy /\ Top(Main)' = Top(Main) /\ \A t : RunsOf(t)' = RunsOf(t)
      BY <1>1 DEF Idle, Busy, Top, RunsOf
    <2>2. QED
      BY <2>1 DEF RunsInv
  <1>2. ASSUME NEW t \in Threads, frames[t] # <<>>, RunsMove(t) PROVE RunsInv'
    BY <1>2, NewRunsFit, DoneFits DEF RunsMove
  <1>3. ASSUME NEW w \in Workers, PoolTakes(w) PROVE RunsInv'
    BY <1>3, TakenFits
  <1>4. CASE Idle /\ FewRuns
    BY <1>4, FewFit
  <1>5. CASE frames' = [t \in Threads |-> <<>>]
    BY <1>5, RestingRuns
  <1>6. QED
    BY <1>1, <1>2, <1>3, <1>4, <1>5 DEF FramesMove

LEMMA RunsKept ==
    ASSUME LoopInv, RunsInv PROVE \A t \in Threads : Runs(t) <= MaxRuns
  <1> SUFFICES ASSUME NEW t \in Threads PROVE Runs(t) <= MaxRuns
    OBVIOUS
  <1>1. RunsOf(t) \in Nat /\ RunsOf(Main) \in Nat /\ MaxRuns \in Nat
    BY RunsOfIs, Threading, LoopAssumption
  <1>2. CASE t = Main
    <2>1. Runs(t) = RunsOf(Main) + 0
      BY <1>2 DEF Runs
    <2>2. QED
      BY <1>1, <2>1 DEF RunsInv
  <1>3. CASE t # Main
    <2>1. Runs(t) = RunsOf(t) + RunsOf(Main)
      BY <1>3 DEF Runs
    <2>2. CASE frames[t] = <<>>
      <3>1. RunsOf(t) = 0
        BY <2>2, RunsOfIs
      <3>2. QED
        BY <1>1, <2>1, <3>1 DEF RunsInv
    <2>3. CASE frames[t] # <<>>
      <3>1. t \in Busy
        BY <1>3, <2>3 DEF Busy, Threads
      <3>2. QED
        BY <2>1, <3>1 DEF RunsInv
    <2>4. QED
      BY <2>2, <2>3
  <1>4. QED
    BY <1>2, <1>3

LEMMA TypesOf ==
    ASSUME StoreInv, SettingsInv, RunsInv PROVE BrainTypeOK
  <1>1. StoreParts /\ AgentsFit /\ LoopInv
    BY PartsOf DEF StoreInv, SkillsInv, WorkInv
  <1>2. SettingsTypeOK
    BY DEF SettingsInv
  <1>3. \A a \in DOMAIN profiles : profiles[a].tools \subseteq Tools /\ profiles[a].turns \in Nat
    BY <1>1 DEF AgentsFit, ProfilesFit, Profile
  <1>4. /\ DOMAIN profiles \subseteq Agents /\ personas \subseteq DOMAIN profiles
        /\ current.agent \in DOMAIN profiles
    BY <1>1 DEF AgentsFit
  <1>5. current.session \in DOMAIN sessions /\ skills \subseteq DOMAIN sessions
    BY <1>1 DEF StoreParts, SessionsFit
  <1>6. \A i \in DOMAIN rows :
          /\ rows[i].role \in Roles /\ rows[i].by \in {"brain", "router"}
          /\ rows[i].agent \in Agents /\ rows[i].session \in DOMAIN sessions
    BY <1>1 DEF StoreParts, TableFits
  <1>7. Len(tasks) <= MaxTasks /\ request.stage \in Stages
    BY <1>1 DEF StoreParts, TasksFit, Request
  <1>8. \A t \in Threads : Runs(t) <= MaxRuns
    BY <1>1, RunsKept
  <1>9. chats \in [Threads -> {"nothing", "question", "answer", "counted"}]
    BY DEF StoreInv, ChatsFit
  <1>10. QED
    BY <1>2, <1>3, <1>4, <1>5, <1>6, <1>7, <1>8, <1>9 DEF BrainTypeOK

\* The types of all that Brain keeps, and its bounds: the tasks of the background
\* never are more than the pool takes (brain.py _submit_background), a session,
\* an agent or a skill that is referred to is there, and the runs that delegation,
\* chains, teams and pools start within one another never are more than the bound
\* (orchestrator.py).
THEOREM TypeCorrect == Spec => []BrainTypeOK
  <1>1. Init => SettingsInv /\ RunsInv
    BY SettingsStart, RunsStart DEF Init
  <1>2. StoreInv /\ StoreInv' /\ SettingsInv /\ RunsInv /\ [Next]_brainVars
          => SettingsInv' /\ RunsInv'
    <2> SUFFICES ASSUME StoreInv, StoreInv', SettingsInv, RunsInv, [Next]_brainVars
                 PROVE  SettingsInv' /\ RunsInv'
      OBVIOUS
    <2>1. WorkInv /\ LoopInv /\ LoopInv'
      BY DEF StoreInv, SkillsInv, WorkInv
    <2>2. RunsInv'
      BY <2>1, RunsSteps, RunsNext
    <2>3. SettingsInv'
      BY SettingsSteps, SettingsNext
    <2>4. QED
      BY <2>2, <2>3
  <1>3. StoreInv /\ SettingsInv /\ RunsInv => BrainTypeOK
    BY TypesOf
  <1>4. QED
    BY <1>1, <1>2, <1>3, StoreHolds, PTL DEF Spec
=============================================================================
