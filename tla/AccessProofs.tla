---------------------------- MODULE AccessProofs ----------------------------
(***************************************************************************)
(* What Access promises, for any number of browsers, tabs, addresses,      *)
(* users and configs: each part has an inductive invariant, which every    *)
(* step of Access keeps, because a step of another part leaves the         *)
(* variables of this one alone.                                            *)
(***************************************************************************)
EXTENDS Access, Sequences, FiniteSetTheorems, TLAPS

\* A step of Access as one part sees it.
LEMMA SetupSteps == [AccessNext]_accessVars => [Setup!SetupNext]_setupVars
  BY DEF AccessNext, accessVars

LEMMA SessionSteps == [AccessNext]_accessVars => [SessionsNext]_sessionVars
  BY DEF AccessNext, accessVars

--------------------------------------------------------------------------------
\* The first run.

SetupFile == [pages : {"none", "starter", "own", "broken"}, settings : Nat]

SetupForm ==
    [at : {"idle", "read", "writes", "answered"}, read : SetupFile,
     missed : SUBSET {"idle", "read", "writes", "answered"},
     answer : {"none", "invalid", "conflict", "created", "failed"}]

SetupTypeOK ==
    /\ file \in SetupFile /\ (file.pages = "broken" => file.settings = 0)
    /\ mu \subseteq Browsers /\ done \in BOOLEAN /\ handSaves \in Nat
    /\ form \in [Browsers -> SetupForm]

\* Whoever writes holds mu, and nobody has written before.
OneWriter ==
    /\ \A b \in Browsers : form[b].at = "writes" <=> b \in mu
    /\ \A b, c \in mu : b = c
    /\ mu /= {} => ~done

\* What somebody saves by hand from its look at the file on, the writer missed.
WriterKnowsFile(b) ==
    /\ form[b].at = "writes" /\ "writes" \notin form[b].missed => file.pages = "none"
    /\ ~done /\ form[b].at \in {"read", "writes"} /\ form[b].missed \intersect {"read", "writes"} = {} =>
          file.settings <= form[b].read.settings

\* Who has been told that it created the config did, and answers stay.
OneCreated ==
    /\ \A b \in Browsers : form[b].at /= "answered" => form[b].answer = "none"
    /\ ~done => \A b \in Browsers : form[b].answer /= "created"
    /\ done => \E b \in Browsers : \A c \in Browsers : form[c].answer = "created" <=> c = b
    /\ server \in {"closing", "left"} => done

SetupInv == SetupTypeOK /\ OneWriter /\ OneCreated /\ \A b \in Browsers : WriterKnowsFile(b)

LEMMA SetupStarts == ASSUME Setup!SetupInit PROVE SetupInv
  <1>1. Setup!NoForm \in SetupForm /\ Setup!NoForm.at = "idle" /\ Setup!NoForm.answer = "none"
    BY DEF Setup!NoForm, Setup!Empty, SetupForm, SetupFile
  <1>2. file \in SetupFile /\ file.pages = "none"
    BY DEF Setup!SetupInit, Setup!Empty, SetupFile
  <1>3. SetupTypeOK
    BY <1>1, <1>2 DEF Setup!SetupInit, SetupTypeOK
  <1>4. OneWriter /\ OneCreated
    BY <1>1 DEF Setup!SetupInit, OneWriter, OneCreated
  <1>5. \A b \in Browsers : WriterKnowsFile(b)
    BY <1>1 DEF Setup!SetupInit, WriterKnowsFile
  <1> QED  BY <1>3, <1>4, <1>5 DEF SetupInv

LEMMA FormFacts ==
    ASSUME SetupInv, NEW b \in Browsers
    PROVE  /\ form[b] \in SetupForm /\ form[b].read \in SetupFile /\ file \in SetupFile
           /\ file.settings \in Nat /\ form[b].read.settings \in Nat
           /\ WriterKnowsFile(b) /\ (form[b].at /= "answered" => form[b].answer = "none")
           /\ (form[b].at = "writes" => b \in mu /\ mu = {b} /\ ~done)
  <1>1. form[b] \in SetupForm /\ file \in SetupFile /\ WriterKnowsFile(b)
    BY DEF SetupInv, SetupTypeOK
  <1>2. form[b].read \in SetupFile /\ file.settings \in Nat /\ form[b].read.settings \in Nat
    BY <1>1 DEF SetupForm, SetupFile
  <1>3. form[b].at /= "answered" => form[b].answer = "none"
    BY DEF SetupInv, OneCreated
  <1>4. ASSUME form[b].at = "writes" PROVE b \in mu /\ mu = {b} /\ ~done
    BY <1>4 DEF SetupInv, SetupTypeOK, OneWriter
  <1> QED  BY <1>1, <1>2, <1>3, <1>4

\* A request that neither takes mu nor gives it back, nor writes, nor is told that it
\* created the config.
LEMMA FormMovesKeeps ==
    ASSUME SetupInv, NEW b \in Browsers, NEW f \in SetupForm, form[b].at /= "writes",
           form[b].answer /= "created",
           form' = [form EXCEPT ![b] = f], UNCHANGED <<file, mu, done, server, handSaves>>,
           f.at /= "writes", f.answer /= "created", f.at /= "answered" => f.answer = "none",
           f.at = "read" => file.settings <= f.read.settings
    PROVE  SetupInv'
  <1>1. form'[b] = f /\ \A c \in Browsers \ {b} : form'[c] = form[c]
    BY DEF SetupInv, SetupTypeOK
  <1>2. SetupTypeOK'
    BY DEF SetupInv, SetupTypeOK
  <1>3. OneWriter'
    BY <1>1 DEF SetupInv, OneWriter
  <1>4. OneCreated'
    BY <1>1 DEF SetupInv, OneCreated
  <1>5. \A c \in Browsers : WriterKnowsFile(c)'
    BY <1>1 DEF SetupInv, WriterKnowsFile
  <1> QED  BY <1>2, <1>3, <1>4, <1>5 DEF SetupInv

LEMMA ReadExistingKeeps ==
    ASSUME SetupInv, NEW b \in Browsers, Setup!ReadExisting(b) PROVE SetupInv'
  <1>1. /\ form[b].at = "idle" /\ form[b].answer /= "created"
        /\ UNCHANGED <<file, mu, done, server, handSaves>>
        /\ file \in SetupFile /\ file.settings \in Nat
        /\ file.pages = "broken" => file.settings = 0
    BY FormFacts DEF Setup!ReadExisting, SetupInv, SetupTypeOK
  <1>2. Setup!NoForm \in SetupForm /\ Setup!NoForm.answer = "none" /\ Setup!Empty \in SetupFile
        /\ Setup!Empty.settings = 0
    BY DEF Setup!NoForm, Setup!Empty, SetupForm, SetupFile
  <1>3. CASE file.pages \in {"starter", "own"}
    <2> DEFINE f == [Setup!NoForm EXCEPT !.at = "answered", !.answer = "invalid"]
    <2>1. form' = [form EXCEPT ![b] = f]
      BY <1>3 DEF Setup!ReadExisting
    <2>2. f \in SetupForm /\ f.at = "answered" /\ f.answer = "invalid"
      BY <1>2 DEF SetupForm
    <2> HIDE DEF f
    <2> QED  BY <1>1, <2>1, <2>2, FormMovesKeeps
  <1>4. CASE file.pages \notin {"starter", "own"}
    <2> DEFINE before == IF file.pages = "none" THEN file ELSE Setup!Empty
               f == [Setup!NoForm EXCEPT !.at = "read", !.read = before]
    <2>1. form' = [form EXCEPT ![b] = f]
      BY <1>4 DEF Setup!ReadExisting
    <2>2. before \in SetupFile /\ file.settings <= before.settings
      BY <1>1, <1>2, <1>4 DEF SetupFile
    <2> HIDE DEF before
    <2>3. f \in SetupForm /\ f.at = "read" /\ f.answer = "none" /\ f.read = before
      BY <1>2, <2>2 DEF SetupForm
    <2> HIDE DEF f
    <2> QED  BY <1>1, <2>1, <2>2, <2>3, FormMovesKeeps
  <1> QED  BY <1>3, <1>4

LEMMA AskAgainKeeps ==
    ASSUME SetupInv, NEW b \in Browsers, Setup!AskAgain(b) PROVE SetupInv'
  <1> DEFINE f == Setup!NoForm
  <1>1. /\ form[b].at = "answered" /\ form[b].answer /= "created"
        /\ UNCHANGED <<file, mu, done, server, handSaves>> /\ form' = [form EXCEPT ![b] = f]
    BY FormFacts DEF Setup!AskAgain
  <1>2. f \in SetupForm /\ f.at = "idle" /\ f.answer = "none"
    BY DEF Setup!NoForm, Setup!Empty, SetupForm, SetupFile
  <1> HIDE DEF f
  <1> QED  BY <1>1, <1>2, FormMovesKeeps

LEMMA EnterKeepsSetup ==
    ASSUME SetupInv, NEW b \in Browsers, Setup!Enter(b) PROVE SetupInv'
  <1>1. /\ form[b] \in SetupForm /\ form[b].at = "read" /\ mu = {} /\ form[b].answer = "none"
        /\ UNCHANGED <<file, done, server, handSaves>> /\ WriterKnowsFile(b)
    BY FormFacts DEF Setup!Enter
  <1>2. CASE Setup!StillWanted
    <2> DEFINE f == [form[b] EXCEPT !.at = "writes"]
    <2>1. form' = [form EXCEPT ![b] = f] /\ mu' = {b} /\ ~done /\ file.pages = "none"
      BY <1>2 DEF Setup!Enter, Setup!Moves, Setup!StillWanted, Setup!NeedsFirstRunSetup
    <2>2. /\ f \in SetupForm /\ f.at = "writes" /\ f.answer = "none"
          /\ f.missed = form[b].missed /\ f.read = form[b].read
      BY <1>1 DEF SetupForm
    <2>3. form'[b] = f /\ \A c \in Browsers \ {b} : form'[c] = form[c]
      BY <2>1 DEF SetupInv, SetupTypeOK
    <2>4. SetupTypeOK'
      BY <1>1, <2>1, <2>2 DEF SetupInv, SetupTypeOK
    <2> HIDE DEF f
    <2>5. OneWriter'
      BY <1>1, <2>1, <2>2, <2>3 DEF SetupInv, OneWriter
    <2>6. OneCreated'
      BY <1>1, <2>1, <2>2, <2>3 DEF SetupInv, OneCreated
    <2>7. \A c \in Browsers : WriterKnowsFile(c)'
      BY <1>1, <2>1, <2>2, <2>3 DEF SetupInv, WriterKnowsFile
    <2> QED  BY <2>4, <2>5, <2>6, <2>7 DEF SetupInv
  <1>3. CASE ~Setup!StillWanted
    <2> DEFINE f == [form[b] EXCEPT !.at = "answered", !.answer = "conflict"]
    <2>1. form' = [form EXCEPT ![b] = f] /\ mu' = mu
      BY <1>1, <1>3 DEF Setup!Enter, Setup!Answers
    <2>2. f \in SetupForm /\ f.at = "answered" /\ f.answer = "conflict"
      BY <1>1 DEF SetupForm
    <2> HIDE DEF f
    <2> QED  BY <1>1, <2>1, <2>2, FormMovesKeeps
  <1> QED  BY <1>2, <1>3

\* Whoever ends a write gives mu back; what it leaves in the file is known to nobody
\* who may still write.
LEMMA WriteEndsKeeps ==
    ASSUME SetupInv, NEW b \in Browsers, Setup!WriteStarter(b) \/ Setup!FailStarter(b)
    PROVE  SetupInv'
  <1>1. /\ form[b] \in SetupForm /\ form[b].at = "writes" /\ mu = {b} /\ ~done /\ mu' = {}
        /\ form[b].read.settings \in Nat /\ file \in SetupFile
        /\ UNCHANGED handSaves
    BY FormFacts DEF Setup!WriteStarter, Setup!FailStarter
  <1>2. PICK answer \in {"created", "failed"} :
              /\ form' = [form EXCEPT ![b].at = "answered", ![b].answer = answer]
              /\ answer = "created" => /\ file' = [pages |-> "starter", settings |-> form[b].read.settings]
                                       /\ done' = TRUE /\ server' = "closing"
              /\ answer = "failed" =>
                    /\ file' \in {file, Setup!Empty, [Setup!Empty EXCEPT !.pages = "broken"]}
                    /\ UNCHANGED <<done, server>>
    BY DEF Setup!WriteStarter, Setup!FailStarter, Setup!Answers
  <1> DEFINE f == [form[b] EXCEPT !.at = "answered", !.answer = answer]
  <1>3. f \in SetupForm /\ f.at = "answered" /\ f.answer = answer
    BY <1>1 DEF SetupForm
  <1>4. form'[b] = f /\ \A c \in Browsers \ {b} : form'[c] = form[c]
    BY <1>2 DEF SetupInv, SetupTypeOK
  <1>5. form' \in [Browsers -> SetupForm]
    BY <1>2, <1>3, <1>4 DEF SetupInv, SetupTypeOK
  <1> HIDE DEF f
  <1>6. /\ file' \in SetupFile /\ (file'.pages = "broken" => file'.settings = 0)
        /\ answer = "failed" => file'.settings = 0 \/ file' = file
    BY <1>1, <1>2 DEF Setup!Empty, SetupFile, SetupInv, SetupTypeOK
  <1>7. done' \in BOOLEAN
    BY <1>2 DEF SetupInv, SetupTypeOK
  <1>8. SetupTypeOK'
    BY <1>1, <1>5, <1>6, <1>7 DEF SetupInv, SetupTypeOK
  <1>9. \A c \in Browsers \ {b} : form[c].at /= "writes"
    BY <1>1 DEF SetupInv, OneWriter
  <1>10. OneWriter'
    BY <1>1, <1>3, <1>4, <1>9 DEF OneWriter
  <1>11. OneCreated'
    <2>1. CASE answer = "created"
      <3>1. \A c \in Browsers : form'[c].answer = "created" <=> c = b
        BY <1>1, <1>3, <1>4, <2>1 DEF SetupInv, OneCreated
      <3>2. \A c \in Browsers : form'[c].at /= "answered" => form'[c].answer = "none"
        BY <1>3, <1>4 DEF SetupInv, OneCreated
      <3> QED  BY <1>2, <2>1, <3>1, <3>2 DEF OneCreated
    <2>2. CASE answer = "failed"
      <3>1. \A c \in Browsers : form'[c].answer /= "created"
        BY <1>1, <1>3, <1>4, <2>2 DEF SetupInv, OneCreated
      <3>2. \A c \in Browsers : form'[c].at /= "answered" => form'[c].answer = "none"
        BY <1>3, <1>4 DEF SetupInv, OneCreated
      <3>3. ~done' /\ server' \notin {"closing", "left"}
        BY <1>1, <1>2, <2>2 DEF SetupInv, OneCreated
      <3> QED  BY <3>1, <3>2, <3>3 DEF OneCreated
    <2> QED  BY <1>2, <2>1, <2>2
  <1>12. ASSUME NEW c \in Browsers PROVE WriterKnowsFile(c)'
    <2>1. /\ WriterKnowsFile(c) /\ form[c].read.settings \in Nat /\ file.settings \in Nat
          /\ c /= b => form'[c] = form[c] /\ form[c].at /= "writes"
      BY <1>4, <1>9, FormFacts
    <2>2. CASE c = b
      BY <1>3, <1>4, <2>2 DEF WriterKnowsFile
    <2>3. CASE c /= b
      <3>1. form'[c] = form[c] /\ form[c].at /= "writes"
        BY <2>1, <2>3
      <3>2. ~done' => file'.settings = 0 \/ file' = file
        BY <1>2, <1>6
      <3> QED  BY <1>1, <2>1, <3>1, <3>2 DEF WriterKnowsFile
    <2> QED  BY <2>2, <2>3
  <1> QED  BY <1>8, <1>10, <1>11, <1>12 DEF SetupInv

\* A save by hand changes nothing but the file and what everybody missed.
LEMMA HandSaveKeeps == ASSUME SetupInv, Setup!HandSave PROVE SetupInv'
  <1>1. /\ UNCHANGED <<mu, done, server>> /\ handSaves \in Nat /\ handSaves' = handSaves + 1
        /\ \E pages \in {"none", "own"} : file' = [pages |-> pages, settings |-> handSaves + 2]
    BY DEF Setup!HandSave, SetupInv, SetupTypeOK
  <1>2. form' = [b \in Browsers |-> [form[b] EXCEPT !.missed = @ \union {form[b].at}]]
    BY DEF Setup!HandSave
  <1>3. ASSUME NEW b \in Browsers
        PROVE  /\ form'[b] \in SetupForm /\ form'[b].at = form[b].at
               /\ form'[b].answer = form[b].answer
               /\ form[b].at \in form'[b].missed
    <2>1. form[b] \in SetupForm
      BY FormFacts
    <2>2. form'[b] = [form[b] EXCEPT !.missed = @ \union {form[b].at}]
      BY <1>2
    <2> QED  BY <2>1, <2>2 DEF SetupForm
  <1>4. form' \in [Browsers -> SetupForm]
    BY <1>2, <1>3
  <1>5. SetupTypeOK'
    BY <1>1, <1>4 DEF SetupInv, SetupTypeOK, SetupFile
  <1>6. OneWriter'
    BY <1>1, <1>3 DEF SetupInv, OneWriter, SetupTypeOK
  <1>7. OneCreated'
    BY <1>1, <1>3 DEF SetupInv, OneCreated
  <1>8. \A b \in Browsers : WriterKnowsFile(b)'
    BY <1>3 DEF WriterKnowsFile
  <1> QED  BY <1>5, <1>6, <1>7, <1>8 DEF SetupInv

LEMMA SetupStepKeeps == ASSUME SetupInv, [Setup!SetupNext]_setupVars PROVE SetupInv'
  <1>1. ASSUME NEW b \in Browsers,
               \/ Setup!ReadExisting(b) \/ Setup!Enter(b) \/ Setup!AskAgain(b)
               \/ Setup!WriteStarter(b) \/ Setup!FailStarter(b)
        PROVE  SetupInv'
    BY <1>1, ReadExistingKeeps, EnterKeepsSetup, AskAgainKeeps, WriteEndsKeeps
  <1>2. CASE Setup!LeaveSetup \/ UNCHANGED setupVars
    <2>1. UNCHANGED <<file, mu, done, form, handSaves>>
          /\ (server' \in {"closing", "left"} => server \in {"closing", "left"})
      BY <1>2 DEF Setup!LeaveSetup, setupVars
    <2> QED  BY <2>1 DEF SetupInv, SetupTypeOK, OneWriter, OneCreated, WriterKnowsFile
  <1>3. CASE Setup!HandSave
    BY <1>3, HandSaveKeeps
  <1> QED  BY <1>1, <1>2, <1>3 DEF Setup!SetupNext

\* An instance has its own name for what FiniteSets defines.
LEMMA SetupCardinality == \A S : Setup!Cardinality(S) = Cardinality(S)
  BY DEF Setup!Cardinality, Cardinality

LEMMA SetupStepIsAllowed ==
    ASSUME SetupInv, SetupInv', Setup!SetupNext PROVE Setup!SetupStep
  <1>1. ASSUME NEW b \in mu, file' /= file, handSaves' = handSaves
        PROVE  /\ file.pages = "own" => "writes" \in form[b].missed
               /\ file'.settings < file.settings =>
                    \/ form[b].missed \intersect {"read", "writes"} /= {}
                    \/ form'[b].answer = "failed"
    <2>1. ~Setup!HandSave
      <3>1. handSaves \in Nat
        BY DEF SetupInv, SetupTypeOK
      <3> QED  BY <1>1, <3>1 DEF Setup!HandSave
    <2>2. PICK c \in Browsers : Setup!WriteStarter(c) \/ Setup!FailStarter(c)
      BY <1>1, <2>1 DEF Setup!SetupNext, Setup!ReadExisting, Setup!Enter, Setup!AskAgain,
                        Setup!LeaveSetup
    <2>3. form[c].at = "writes" /\ c \in mu /\ c = b /\ ~done /\ WriterKnowsFile(b)
      BY <1>1, <2>2, FormFacts DEF Setup!WriteStarter, Setup!FailStarter
    <2>4. file.settings \in Nat /\ form[b].read.settings \in Nat
      BY <2>3, FormFacts
    <2>5. CASE Setup!WriteStarter(b)
      BY <2>3, <2>4, <2>5 DEF WriterKnowsFile, Setup!WriteStarter
    <2>6. CASE Setup!FailStarter(b)
      <3>1. form'[b].answer = "failed"
        BY <2>3, <2>6 DEF Setup!FailStarter, Setup!Answers, SetupInv, SetupTypeOK
      <3> QED  BY <2>3, <3>1 DEF WriterKnowsFile
    <2> QED  BY <2>2, <2>3, <2>5, <2>6
  <1>2. ASSUME server' = "left" PROVE Cardinality(Setup!Told("created")) = 1
    <2>1. done
      BY <1>2 DEF Setup!SetupNext, Setup!ReadExisting, Setup!Enter, Setup!AskAgain,
                  Setup!LeaveSetup, Setup!HandSave, Setup!WriteStarter, Setup!FailStarter,
                  SetupInv, OneCreated
    <2>2. PICK b \in Browsers : \A c \in Browsers : form[c].answer = "created" <=> c = b
      BY <2>1 DEF SetupInv, OneCreated
    <2>3. Setup!Told("created") = {b}
      BY <2>2 DEF Setup!Told
    <2> QED  BY <2>3, FS_Singleton
  <1> QED  BY <1>1, <1>2, SetupCardinality DEF Setup!SetupStep

\* The first run (setup.go): for any number of browsers, however their requests and
\* saves with a text editor are interleaved, the program goes on after exactly one
\* was told that it created the config, and no write replaces pages or settings that
\* were saved by hand but those it could not have seen.
THEOREM SetupWritesOnceHolds == AccessSpec => SetupWritesOnce
  <1>1. AccessInit => SetupInv
    BY SetupStarts DEF AccessInit
  <1>2. SetupInv /\ [AccessNext]_accessVars => SetupInv'
    BY SetupSteps, SetupStepKeeps
  <1>3. /\ SetupInv /\ SetupInv' /\ [AccessNext]_accessVars
        => [part = "setup" => Setup!SetupStep]_accessVars
    <2>1. ASSUME AccessNext, part = "setup" PROVE Setup!SetupNext
      BY <2>1 DEF AccessNext
    <2> QED  BY <2>1, SetupStepIsAllowed
  <1> QED  BY <1>1, <1>2, <1>3, PTL DEF AccessSpec, SetupWritesOnce

--------------------------------------------------------------------------------
\* Logins and sessions.

Token == [user : PwUsers, cred : Creds, expires : Int]

SessionTypes ==
    /\ now \in Nat /\ flows \in Nat /\ config \in Configs \union {FirstConfig}
    /\ used \subseteq Nat /\ DOMAIN sessions \subseteq used
    /\ \A id \in DOMAIN sessions :
          sessions[id].user \in OidcUsers /\ sessions[id].created \in Int /\ sessions[id].created <= now
    /\ proved \in [PwUsers \X Creds -> Int] /\ (\A p \in PwUsers \X Creds : proved[p] <= now)
    /\ signedIn \in [OidcUsers -> Int]
    /\ jar = [c \in Cookies |-> jar[c]] /\ tab = [t \in Tabs |-> tab[t]]

\* A token the browser has, or is about to get, was proved when it was issued.
ProvedToken(x) == x \in Token /\ proved[<<x.user, x.cred>>] >= x.expires - Valid

\* So was a session, unless it is gone.
SignedIn(id) == id \in DOMAIN sessions => signedIn[sessions[id].user] >= sessions[id].created

\* What a tab may be doing, and which cookies are on their way to it: those of now.
TabOK(x) ==
    /\ "set" \in DOMAIN x => x.at \in {"renewed", "token", "session", "out", "begun", "failed"}
    /\ x.at \in {"renewed", "token"} =>
          /\ DOMAIN x.set = {"token"} /\ ProvedToken(x.set["token"].value)
          /\ x.set["token"].value.expires = now + Valid /\ x.set["token"].expires = now + Valid
    /\ x.at = "session" =>
          /\ DOMAIN x.set = {"state", "pkce", "oidc"} /\ SignedIn(x.set["oidc"].value)
          /\ x.set["oidc"].expires = now + Valid
    /\ x.at = "out" =>
          /\ DOMAIN x.set = {"token", "oidc"}
          /\ x.set["token"].value = None /\ x.set["oidc"].value = None
    /\ x.at = "begun" =>
          /\ DOMAIN x.set = {"state", "pkce"}
          /\ x.set["state"].value \in Nat /\ x.set["pkce"] = x.set["state"]
    /\ x.at = "failed" => DOMAIN x.set = {"state", "pkce"}
    /\ x.at \in {"provider", "returns", "exchange"} => x.flow \in Nat
    /\ x.at = "returns" => x.user \in OidcUsers \union {None}
    /\ x.at = "exchange" => x.user \in OidcUsers

JarOK ==
    /\ jar["token"].value /= None =>
          ProvedToken(jar["token"].value) /\ jar["token"].expires = jar["token"].value.expires
    /\ SignedIn(jar["oidc"].value)

\* Whoever was accepted has a token that is good for a while.
SeenOK ==
    \/ seen = Never
    \/ /\ seen \in Int /\ jar["token"].value /= None
       /\ jar["token"].value.expires >= seen + RegenBefore

\* A session that was given is kept, and its cookie with it, while it is not old.
GivenOK ==
    given /= None =>
        /\ jar["oidc"].value = given.id /\ given.at \in Int
        /\ jar["oidc"].expires \in Int /\ jar["oidc"].expires >= given.at + Valid
        /\ \/ /\ given.id \in DOMAIN sessions
              /\ sessions[given.id].user = given.user /\ sessions[given.id].created = given.at
           \/ now - given.at >= Valid

\* Nothing that is on its way clears the cookies of the last login.
FlowOK ==
    IF lastFlow.value = None THEN lastFlow = Gone
    ELSE /\ jar["state"] = lastFlow /\ jar["pkce"] = lastFlow
         /\ \A t \in Tabs : tab[t].at \notin {"exchange", "failed", "session"}

SessionsInv ==
    /\ SessionTypes /\ (\A t \in Tabs : TabOK(tab[t]))
    /\ JarOK /\ SeenOK /\ GivenOK /\ FlowOK

LEMMA SessionsStart == SessionsInit => SessionsInv
<1> SUFFICES ASSUME SessionsInit PROVE SessionsInv
  OBVIOUS
<1> USE DEF SessionsInit
<1>1. \A c \in Cookies : jar[c] = Gone
  OBVIOUS
<1>2. /\ jar["token"] = Gone /\ jar["oidc"] = Gone /\ Gone.value = None
  BY <1>1 DEF Cookies, Gone
<1>3. SessionTypes
  BY PeriodsAssumption DEF SessionTypes, Never
<1>4. \A t \in Tabs : TabOK(tab[t])
  BY DEF TabOK, Idle
<1>5. JarOK
  <2>1. jar["token"].value = None /\ jar["oidc"].value = None
    BY <1>2
  <2>2. DOMAIN sessions = {}
    OBVIOUS
  <2> QED BY <2>1, <2>2 DEF JarOK, SignedIn
<1>6. SeenOK /\ GivenOK
  BY DEF SeenOK, GivenOK
<1>7. FlowOK
  BY DEF FlowOK, Gone
<1> QED BY <1>3, <1>4, <1>5, <1>6, <1>7 DEF SessionsInv

\* While the clock stands still, what is proved stays proved, and sessions are
\* only lost, a tab that is left alone is as good as before.
LEMMA TabStays ==
    ASSUME NEW x, TabOK(x), now' = now,
           \A y : ProvedToken(y) => ProvedToken(y)', \A id : SignedIn(id) => SignedIn(id)'
    PROVE  TabOK(x)'
  BY DEF TabOK

LEMMA OtherTabsStay ==
    ASSUME NEW t \in Tabs, NEW x, \A s \in Tabs : TabOK(tab[s]), SessionTypes,
           tab' = [tab EXCEPT ![t] = x], TabOK(x)', now' = now,
           \A y : ProvedToken(y) => ProvedToken(y)', \A id : SignedIn(id) => SignedIn(id)'
    PROVE  (\A s \in Tabs : TabOK(tab[s]))'
<1>1. \A s \in Tabs : tab'[s] = IF s = t THEN x ELSE tab[s]
  BY DEF SessionTypes
<1> SUFFICES ASSUME NEW s \in Tabs PROVE TabOK(tab[s])'
  OBVIOUS
<1> DEFINE y == tab'[s]
<1>2. CASE s = t
  BY <1>1, <1>2 DEF TabOK
<1>3. CASE s /= t
  <2>1. tab'[s] = tab[s]
    BY <1>1, <1>3
  <2>2. TabOK(tab[s])
    OBVIOUS
  <2> QED BY <2>1, <2>2 DEF TabOK
<1> QED BY <1>2, <1>3

\* What is proved stays proved when only the time of a proof may move up.
LEMMA ProofsGrow ==
    ASSUME SessionTypes, NEW u \in PwUsers, NEW c \in Creds, Proof(u, c)
    PROVE  /\ proved' \in [PwUsers \X Creds -> Int]
           /\ proved'[<<u, c>>] = now
           /\ \A p \in PwUsers \X Creds : proved'[p] >= proved[p] /\ proved'[p] <= now
           /\ \A y : ProvedToken(y) => ProvedToken(y)'
<1> USE DEF SessionTypes, Proof
<1>1. now \in Int /\ <<u, c>> \in PwUsers \X Creds
  OBVIOUS
<1>2. proved' \in [PwUsers \X Creds -> Int] /\ proved'[<<u, c>>] = now
  BY <1>1
<1>3. \A p \in PwUsers \X Creds : proved'[p] = IF p = <<u, c>> THEN now ELSE proved[p]
  BY <1>1
<1>4. \A p \in PwUsers \X Creds : proved'[p] >= proved[p] /\ proved'[p] <= now
  BY <1>1, <1>3
<1>5. ASSUME NEW y, ProvedToken(y) PROVE ProvedToken(y)'
  <2>1. y.expires \in Int /\ <<y.user, y.cred>> \in PwUsers \X Creds
    BY <1>5 DEF ProvedToken, Token
  <2>2. proved'[<<y.user, y.cred>>] >= proved[<<y.user, y.cred>>]
    BY <2>1, <1>4
  <2>3. proved[<<y.user, y.cred>>] \in Int /\ proved'[<<y.user, y.cred>>] \in Int
    BY <2>1, <1>2
  <2> QED BY <1>5, <2>1, <2>2, <2>3, PeriodsAssumption DEF ProvedToken
<1> QED BY <1>2, <1>4, <1>5

\* A session that is left keeps its user and its time.
LEMMA SessionsShrink ==
    ASSUME SessionTypes, NEW ids, sessions' = Without(ids), signedIn' = signedIn
    PROVE  /\ DOMAIN sessions' = DOMAIN sessions \ ids
           /\ \A id \in DOMAIN sessions' : sessions'[id] = sessions[id]
           /\ \A id : SignedIn(id) => SignedIn(id)'
<1>1. DOMAIN sessions' = DOMAIN sessions \ ids /\ \A id \in DOMAIN sessions' : sessions'[id] = sessions[id]
  BY DEF Without
<1>2. ASSUME NEW id, SignedIn(id) PROVE SignedIn(id)'
  BY <1>1, <1>2 DEF SignedIn
<1> QED BY <1>1, <1>2

LEMMA JarStays ==
    ASSUME JarOK, jar' = jar,
           \A y : ProvedToken(y) => ProvedToken(y)', \A id : SignedIn(id) => SignedIn(id)'
    PROVE  JarOK'
  BY DEF JarOK

LEMMA FlowStays ==
    ASSUME SessionTypes, FlowOK, NEW t \in Tabs, NEW x, tab' = [tab EXCEPT ![t] = x],
           jar' = jar, lastFlow' = lastFlow,
           lastFlow.value = None \/ x.at \notin {"exchange", "failed", "session"}
    PROVE  FlowOK'
<1>1. \A s \in Tabs : tab'[s] = IF s = t THEN x ELSE tab[s]
  BY DEF SessionTypes
<1> QED BY <1>1 DEF FlowOK

\* A step that proves nothing and takes no session, and leaves the cookies of the
\* browser alone, keeps everything but what a tab does.
LEMMA TabTurns ==
    ASSUME SessionsInv, NEW t \in Tabs, NEW x, tab' = [tab EXCEPT ![t] = x], TabOK(x), FlowOK',
           UNCHANGED <<now, config, jar, sessions, proved, signedIn, seen, given>>,
           flows' \in Nat, used \subseteq used', used' \subseteq Nat
    PROVE  SessionsInv'
<1> USE DEF SessionsInv
<1>1. (\A y : ProvedToken(y) => ProvedToken(y)') /\ (\A id : SignedIn(id) => SignedIn(id)')
  BY DEF ProvedToken, SignedIn
<1>2. TabOK(x)'
  BY <1>1, TabStays
<1>3. (\A s \in Tabs : TabOK(tab[s]))'
  BY <1>1, <1>2, OtherTabsStay
<1>4. JarOK'
  BY <1>1, JarStays
<1>5. SeenOK' /\ GivenOK'
  BY DEF SeenOK, GivenOK
<1>6. SessionTypes'
  BY DEF SessionTypes
<1> QED BY <1>3, <1>4, <1>5, <1>6

LEMMA TabMoves ==
    ASSUME SessionsInv, NEW t \in Tabs, NEW x, tab' = [tab EXCEPT ![t] = x], TabOK(x),
           lastFlow.value = None \/ x.at \notin {"exchange", "failed", "session"},
           UNCHANGED <<now, config, jar, sessions, proved, signedIn, seen, given, lastFlow>>,
           flows' \in Nat, used \subseteq used', used' \subseteq Nat
    PROVE  SessionsInv'
<1>1. FlowOK'
  BY FlowStays DEF SessionsInv
<1> QED BY <1>1, TabTurns

LEMMA OidcLoginKeeps == ASSUME SessionsInv, NEW t \in Tabs, OidcLogin(t) PROVE SessionsInv'
<1> DEFINE set == [c \in {"state", "pkce"} |-> Cookie(flows + 1, StateValid)]
           x == [at |-> "begun", set |-> set]
<1> USE DEF OidcLogin, SessionsInv, Answer, history
<1>1. flows \in Nat /\ flows + 1 \in Nat /\ used \subseteq Nat
  BY DEF SessionTypes
<1>2. DOMAIN set = {"state", "pkce"} /\ set["state"].value \in Nat /\ set["pkce"] = set["state"]
  BY <1>1 DEF Cookie
<1>3. TabOK(x)
  BY <1>2 DEF TabOK
<1>4. tab' = [tab EXCEPT ![t] = x] /\ x.at = "begun"
  OBVIOUS
<1> HIDE DEF x, set
<1> QED BY <1>1, <1>3, <1>4, TabMoves

LEMMA AuthenticateKeeps ==
    ASSUME SessionsInv, NEW t \in Tabs, NEW u \in OidcUsers \union {None}, Authenticate(t, u)
    PROVE  SessionsInv'
<1> DEFINE x == [at |-> "returns", flow |-> tab[t].flow, user |-> u]
<1> USE DEF Authenticate, SessionsInv, history
<1>1. flows \in Nat /\ used \subseteq Nat /\ TabOK(tab[t])
  BY DEF SessionTypes
<1>2. x.flow \in Nat
  BY <1>1 DEF TabOK
<1>3. TabOK(x)
  BY <1>2 DEF TabOK
<1>4. tab' = [tab EXCEPT ![t] = x] /\ x.at = "returns"
  OBVIOUS
<1> HIDE DEF x
<1> QED BY <1>1, <1>3, <1>4, TabMoves

LEMMA TabRests ==
    ASSUME SessionsInv, NEW t \in Tabs, Mismatch(t) \/ Lose(t)
    PROVE  SessionsInv'
<1> USE DEF Mismatch, Lose, SessionsInv, history
<1>1. flows \in Nat /\ used \subseteq Nat
  BY DEF SessionTypes
<1>2. TabOK(Idle) /\ Idle.at = "idle"
  BY DEF TabOK, Idle
<1>3. tab' = [tab EXCEPT ![t] = Idle]
  OBVIOUS
<1> QED BY <1>1, <1>2, <1>3, TabMoves

LEMMA RejectKeeps == ASSUME SessionsInv, NEW t \in Tabs, Reject(t) PROVE SessionsInv'
<1> DEFINE x == [at |-> "failed", set |-> Cleared({"state", "pkce"})]
<1> USE DEF Reject, SessionsInv, Answer, history
<1>1. flows \in Nat /\ used \subseteq Nat /\ TabOK(tab[t])
  BY DEF SessionTypes
<1>2. tab[t].flow \in Nat
  BY <1>1 DEF TabOK
<1>3. TabOK(x)
  BY DEF TabOK, Cleared
<1>4. tab' = [tab EXCEPT ![t] = x] /\ lastFlow.value = None
  BY DEF FlowOK
<1>5. used \subseteq used' /\ used' \subseteq Nat
  BY <1>1, <1>2
<1> HIDE DEF x
<1> QED BY <1>1, <1>3, <1>4, <1>5, TabMoves

LEMMA CallbackKeeps == ASSUME SessionsInv, NEW t \in Tabs, Callback(t) PROVE SessionsInv'
<1> DEFINE x == IF tab[t].user = None THEN [at |-> "failed", set |-> Cleared({"state", "pkce"})]
                ELSE [at |-> "exchange", flow |-> tab[t].flow, user |-> tab[t].user,
                      verifier |-> Sent("pkce"), config |-> config]
<1> USE DEF SessionsInv
<1>1. tab[t].at = "returns" /\ TabOK(tab[t]) /\ tab' = [tab EXCEPT ![t] = x]
  BY DEF Callback, Answer
<1>2. tab[t].flow \in Nat /\ tab[t].user \in OidcUsers \union {None}
  BY <1>1 DEF TabOK
<1>3. TabOK(x)
  <2>1. CASE tab[t].user = None
    BY <2>1 DEF TabOK, Cleared
  <2>2. CASE tab[t].user /= None
    BY <1>2, <2>2 DEF TabOK
  <2> QED BY <2>1, <2>2
<1>4. jar["state"].value = tab[t].flow
  BY <1>2, NamesAssumption DEF Callback, Accepts, StateMatches, Sent
<1>5. lastFlow' = Gone
  <2>1. CASE lastFlow.value = None
    BY <2>1 DEF FlowOK, Callback
  <2>2. CASE lastFlow.value /= None
    BY <1>4, <2>2 DEF FlowOK, Callback
  <2> QED BY <2>1, <2>2
<1>6. FlowOK'
  BY <1>5 DEF FlowOK, Gone
<1>7. UNCHANGED <<now, config, jar, sessions, flows, used, proved, signedIn, seen, given>>
  BY DEF Callback
<1>8. flows' \in Nat /\ used \subseteq used' /\ used' \subseteq Nat
  BY <1>7 DEF SessionTypes
<1> HIDE DEF x
<1> QED BY <1>1, <1>3, <1>6, <1>7, <1>8, TabTurns

\* A token that is renewed, or issued, is proved now.
LEMMA IssuedOK ==
    ASSUME SessionTypes, NEW u \in PwUsers, config.cred[u] \in Creds,
           Proof(u, config.cred[u]), NEW set, set = [c \in {"token"} |-> Cookie(Issue(u), Valid)],
           NEW at \in {"renewed", "token"}, now' = now
    PROVE  TabOK([at |-> at, set |-> set])'
<1>1. now \in Int /\ now + Valid \in Int /\ now + Valid - Valid = now
  BY PeriodsAssumption DEF SessionTypes
<1>2. /\ DOMAIN set = {"token"} /\ set["token"].expires = now + Valid
      /\ set["token"].value = [user |-> u, cred |-> config.cred[u], expires |-> now + Valid]
  BY DEF Cookie, Issue
<1> DEFINE v == set["token"].value
<1>3. /\ v \in Token /\ v.user = u /\ v.cred = config.cred[u] /\ v.expires = now + Valid
  BY <1>1, <1>2 DEF Token
<1> HIDE DEF v
<1>4. proved'[<<u, config.cred[u]>>] = now
  BY ProofsGrow
<1>5. proved'[<<v.user, v.cred>>] >= v.expires - Valid
  <2>1. <<v.user, v.cred>> = <<u, config.cred[u]>>
    BY <1>3
  <2>2. proved'[<<v.user, v.cred>>] = now
    BY <1>4, <2>1
  <2>3. v.expires - Valid = now
    BY <1>1, <1>3, PeriodsAssumption
  <2> QED BY <1>1, <2>2, <2>3
<1>6. ProvedToken(v)'
  BY <1>3, <1>5 DEF ProvedToken
<1>7. ProvedToken(set["token"].value)' /\ set["token"].value.expires = now + Valid
  BY <1>3, <1>6 DEF v
<1> QED BY <1>2, <1>7 DEF TabOK

LEMMA LogInKeeps ==
    ASSUME SessionsInv, NEW t \in Tabs, NEW u \in PwUsers, LogIn(t, u)
    PROVE  SessionsInv'
<1> USE DEF SessionsInv
<1>1. PICK set : set = [c \in {"token"} |-> Cookie(Issue(u), Valid)]
  OBVIOUS
<1>2. tab' = [tab EXCEPT ![t] = [at |-> "token", set |-> set]]
  BY <1>1 DEF LogIn, Answer
<1>3. config.cred[u] \in Creds
  BY NamesAssumption DEF LogIn, SessionTypes
<1>4. Proof(u, config.cred[u])
  BY DEF LogIn
<1>5. UNCHANGED <<now, config, jar, sessions, flows, used, signedIn, seen, given, lastFlow>>
  BY DEF LogIn
<1>6. TabOK([at |-> "token", set |-> set])'
  BY <1>1, <1>3, <1>4, <1>5, IssuedOK
<1>7. /\ proved' \in [PwUsers \X Creds -> Int] /\ \A p \in PwUsers \X Creds : proved'[p] <= now
      /\ \A y : ProvedToken(y) => ProvedToken(y)'
  BY <1>3, <1>4, ProofsGrow
<1>8. \A id : SignedIn(id) => SignedIn(id)'
  BY <1>5 DEF SignedIn
<1>9. (\A s \in Tabs : TabOK(tab[s]))'
  BY <1>2, <1>5, <1>6, <1>7, <1>8, OtherTabsStay
<1>10. JarOK'
  BY <1>5, <1>7, <1>8, JarStays
<1>11. SeenOK' /\ GivenOK'
  BY <1>5 DEF SeenOK, GivenOK
<1>12. FlowOK'
  BY <1>2, <1>5, FlowStays
<1>13. SessionTypes'
  BY <1>2, <1>5, <1>7 DEF SessionTypes
<1> QED BY <1>9, <1>10, <1>11, <1>12, <1>13

\* What is known of a browser that is accepted with its token.
LEMMA AcceptedToken ==
    ASSUME SessionsInv, ByToken
    PROVE  /\ Sent("token") = jar["token"].value /\ Sent("token") /= None
           /\ ProvedToken(Sent("token")) /\ Sent("token").user \in PwUsers
           /\ Sent("token").expires \in Int /\ now <= Sent("token").expires
           /\ config.cred[Sent("token").user] = Sent("token").cred
           /\ Sent("token").cred \in Creds
<1> USE DEF SessionsInv
<1>1. Sent("token") /= None /\ NotExpired(Sent("token")) /\ HashMatches(Sent("token"))
  BY DEF ByToken, TokenHolds
<1>2. Sent("token") = jar["token"].value
  BY <1>1 DEF Sent
<1>3. ProvedToken(Sent("token"))
  BY <1>1, <1>2 DEF JarOK
<1> QED BY <1>1, <1>2, <1>3 DEF ProvedToken, Token, NotExpired, HashMatches

\* A session that was given is still one, or is too old.
LEMMA GivenStays ==
    ASSUME SessionsInv, NEW ids, sessions' = Without(ids), signedIn' = signedIn, jar' = jar,
           now' = now, given' = given \/ given' = None,
           given' = given /\ given /= None /\ given.id \in ids => now - given.at >= Valid
    PROVE  GivenOK'
<1>1. DOMAIN sessions' = DOMAIN sessions \ ids /\ \A id \in DOMAIN sessions' : sessions'[id] = sessions[id]
  BY SessionsShrink DEF SessionsInv
<1>2. CASE given' = None
  BY <1>2 DEF GivenOK
<1>3. CASE given' = given /\ given /= None
  <2>1. CASE given.id \in ids
    BY <1>3, <2>1 DEF GivenOK, SessionsInv
  <2>2. CASE given.id \notin ids
    BY <1>1, <1>3, <2>2 DEF GivenOK, SessionsInv
  <2> QED BY <2>1, <2>2
<1> QED BY <1>2, <1>3

LEMMA VisitProves ==
    ASSUME SessionsInv, NEW t \in Tabs, Visit(t)
    PROVE  /\ proved' \in [PwUsers \X Creds -> Int] /\ \A p \in PwUsers \X Creds : proved'[p] <= now
           /\ \A y : ProvedToken(y) => ProvedToken(y)'
<1> USE DEF SessionsInv
<1>1. now' = now
  BY DEF Visit
<1>2. CASE ByToken
  BY <1>2, AcceptedToken, ProofsGrow DEF Visit
<1>3. CASE ~ByToken
  <2>1. proved' = proved
    BY <1>3 DEF Visit
  <2> QED BY <2>1, <1>1 DEF ProvedToken, SessionTypes
<1> QED BY <1>2, <1>3

LEMMA VisitTab ==
    ASSUME SessionsInv, NEW t \in Tabs, Visit(t)
    PROVE  (\A s \in Tabs : TabOK(tab[s]))' /\ FlowOK' /\ tab' = [s \in Tabs |-> tab'[s]]
<1> USE DEF SessionsInv
<1>1. UNCHANGED <<now, config, jar, signedIn, lastFlow>> /\ sessions' = Without(Forgotten)
  BY DEF Visit
<1>2. \A y : ProvedToken(y) => ProvedToken(y)'
  BY VisitProves
<1>3. \A id : SignedIn(id) => SignedIn(id)'
  BY <1>1, SessionsShrink
<1>4. CASE Renewal = NoChange
  <2>1. tab' = tab
    BY <1>4 DEF Visit
  <2>2. (\A s \in Tabs : TabOK(tab[s]))'
    <3> SUFFICES ASSUME NEW s \in Tabs PROVE TabOK(tab[s])'
      OBVIOUS
    <3>1. TabOK(tab[s])
      OBVIOUS
    <3> QED BY <1>1, <1>2, <1>3, <2>1, <3>1 DEF TabOK
  <2> QED BY <1>1, <2>1, <2>2 DEF FlowOK, SessionTypes
<1>5. CASE Renewal /= NoChange
  <2>1. ByToken
    BY <1>5 DEF Renewal
  <2>2. PICK u \in PwUsers : u = Sent("token").user /\ config.cred[u] = Sent("token").cred
                             /\ config.cred[u] \in Creds
    BY <2>1, AcceptedToken
  <2>3. PICK set : set = [c \in {"token"} |-> Cookie(Issue(u), Valid)]
    OBVIOUS
  <2>4. tab' = [tab EXCEPT ![t] = [at |-> "renewed", set |-> set]]
    BY <1>5, <2>2, <2>3 DEF Visit, Renewal, Answer
  <2>5. Proof(u, config.cred[u])
    BY <2>1, <2>2 DEF Visit
  <2>6. TabOK([at |-> "renewed", set |-> set])'
    BY <1>1, <2>2, <2>3, <2>5, IssuedOK
  <2>7. (\A s \in Tabs : TabOK(tab[s]))'
    BY <1>1, <1>2, <1>3, <2>4, <2>6, OtherTabsStay
  <2>8. FlowOK'
    BY <1>1, <2>4, FlowStays
  <2> QED BY <2>4, <2>7, <2>8 DEF SessionTypes
<1> QED BY <1>4, <1>5

LEMMA VisitKeeps == ASSUME SessionsInv, NEW t \in Tabs, Visit(t) PROVE SessionsInv'
<1> USE DEF SessionsInv
<1>1. UNCHANGED <<now, config, jar, flows, used, signedIn, lastFlow>> /\ sessions' = Without(Forgotten)
  BY DEF Visit
<1>2. \A y : ProvedToken(y) => ProvedToken(y)'
  BY VisitProves
<1>3. /\ \A id : SignedIn(id) => SignedIn(id)'
      /\ DOMAIN sessions' = DOMAIN sessions \ Forgotten
      /\ \A id \in DOMAIN sessions' : sessions'[id] = sessions[id]
  BY <1>1, SessionsShrink
<1>4. JarOK'
  BY <1>1, <1>2, <1>3, JarStays
<1>5. SeenOK'
  <2>1. CASE ByToken /\ Renewal = NoChange
    <3>1. ~Regenerates(Sent("token"))
      <4>1. ASSUME Regenerates(Sent("token")) PROVE FALSE
        <5>1. DOMAIN Renewal = {"token"} /\ DOMAIN NoChange = {}
          BY <2>1, <4>1 DEF Renewal, NoChange
        <5> QED BY <2>1, <5>1
      <4> QED BY <4>1
    <3>2. /\ Sent("token").expires \in Int /\ jar["token"].value = Sent("token")
          /\ Sent("token") /= None /\ now \in Int
      BY <2>1, AcceptedToken DEF SessionTypes
    <3>3. Sent("token").expires >= now + RegenBefore
      BY <3>1, <3>2, PeriodsAssumption DEF Regenerates
    <3>4. seen' = now
      BY <2>1 DEF Visit
    <3> QED BY <1>1, <3>2, <3>3, <3>4 DEF SeenOK
  <2>2. CASE ~(ByToken /\ Renewal = NoChange)
    BY <1>1, <2>2 DEF SeenOK, Visit
  <2> QED BY <2>1, <2>2
<1>6. GivenOK'
  <2>1. given' = given \/ given' = None
    BY DEF Visit, Kept
  <2>2. ASSUME given' = given, given /= None, given.id \in Forgotten PROVE now - given.at >= Valid
    <3>1. \/ given /= None /\ now - given.at < Valid /\ OidcUserAllowed(config, given.user)
          \/ given' = Kept(Forgotten)
      BY DEF Visit
    <3>2. CASE given' = Kept(Forgotten)
      BY <2>2, <3>2 DEF Kept
    <3>3. CASE now - given.at < Valid /\ OidcUserAllowed(config, given.user)
      <4>1. given.id = Sent("oidc") /\ ~SessionHolds(given.id)
        BY <2>2 DEF Forgotten
      <4>2. now \in Int /\ given.at \in Int
        BY <2>2 DEF GivenOK, SessionTypes
      <4>3. /\ given.id \in DOMAIN sessions
            /\ sessions[given.id].user = given.user /\ sessions[given.id].created = given.at
        BY <2>2, <3>3, <4>2, PeriodsAssumption DEF GivenOK
      <4> QED BY <3>3, <4>1, <4>3 DEF SessionHolds, NotTooOld
    <3> QED BY <3>1, <3>2, <3>3
  <2> QED BY <1>1, <2>1, <2>2, GivenStays
<1>7. SessionTypes'
  BY <1>1, <1>3, VisitProves, VisitTab DEF SessionTypes
<1> QED BY <1>4, <1>5, <1>6, <1>7, VisitTab

LEMMA LogOutKeeps == ASSUME SessionsInv, NEW t \in Tabs, LogOut(t) PROVE SessionsInv'
<1> DEFINE x == [at |-> "out", set |-> Cleared({"token", "oidc"})]
<1> USE DEF SessionsInv
<1>1. /\ UNCHANGED <<now, config, jar, flows, used, proved, signedIn, seen, lastFlow>>
      /\ sessions' = Without({Sent("oidc")})
      /\ tab' = [tab EXCEPT ![t] = x]
  BY DEF LogOut, Answer
<1>2. \A y : ProvedToken(y) => ProvedToken(y)'
  BY <1>1 DEF ProvedToken
<1>3. /\ \A id : SignedIn(id) => SignedIn(id)'
      /\ DOMAIN sessions' = DOMAIN sessions \ {Sent("oidc")}
      /\ \A id \in DOMAIN sessions' : sessions'[id] = sessions[id]
  BY <1>1, SessionsShrink
<1>4. TabOK(x) /\ x.at = "out"
  BY DEF TabOK, Cleared, Gone
<1> HIDE DEF x
<1>5. TabOK(x)'
  BY <1>1, <1>2, <1>3, <1>4, TabStays DEF x, Cleared, Gone, Never
<1>6. (\A s \in Tabs : TabOK(tab[s]))'
  BY <1>1, <1>2, <1>3, <1>5, OtherTabsStay DEF x, Cleared, Gone, Never
<1>7. JarOK'
  BY <1>1, <1>2, <1>3, JarStays
<1>8. GivenOK'
  <2>1. given' = Kept({Sent("oidc")})
    BY DEF LogOut
  <2>2. given' = given \/ given' = None
    BY <2>1 DEF Kept
  <2>3. ~(given' = given /\ given /= None /\ given.id \in {Sent("oidc")})
    BY <2>1 DEF Kept
  <2> QED BY <1>1, <2>2, <2>3, GivenStays
<1>9. SeenOK'
  BY <1>1 DEF SeenOK
<1>10. FlowOK'
  BY <1>1, <1>4, FlowStays
<1>11. SessionTypes'
  BY <1>1, <1>3 DEF SessionTypes
<1> QED BY <1>6, <1>7, <1>8, <1>9, <1>10, <1>11

LEMMA ExchangeKeeps == ASSUME SessionsInv, NEW t \in Tabs, Exchange(t) PROVE SessionsInv'
<1> USE DEF SessionsInv
<1>1. PICK id, u : id = tab[t].flow /\ u = tab[t].user
  OBVIOUS
<1>2. tab[t].at = "exchange" /\ id \notin used /\ id \in Nat /\ u \in OidcUsers
  BY <1>1 DEF Exchange, TabOK
<1>3. /\ UNCHANGED <<now, config, jar, flows, proved, seen, given, lastFlow>>
      /\ sessions' = [i \in DOMAIN sessions \union {id} |->
                         IF i = id THEN [user |-> u, created |-> now] ELSE sessions[i]]
      /\ used' = used \union {id}
      /\ signedIn' = [signedIn EXCEPT ![u] = now]
  BY <1>1 DEF Exchange
<1>4. id \notin DOMAIN sessions /\ now \in Int
  BY <1>2 DEF SessionTypes
<1>5. /\ DOMAIN sessions' = DOMAIN sessions \union {id}
      /\ sessions'[id].user = u /\ sessions'[id].created = now
      /\ \A i \in DOMAIN sessions : sessions'[i] = sessions[i]
  BY <1>3, <1>4
<1>6. /\ signedIn' \in [OidcUsers -> Int] /\ signedIn'[u] = now
      /\ \A v \in OidcUsers \ {u} : signedIn'[v] = signedIn[v]
  BY <1>2, <1>3, <1>4 DEF SessionTypes
<1>7. ASSUME NEW i, SignedIn(i) PROVE SignedIn(i)'
  <2> SUFFICES ASSUME i \in DOMAIN sessions' PROVE signedIn'[sessions'[i].user] >= sessions'[i].created
    BY DEF SignedIn
  <2>1. CASE i = id
    BY <1>4, <1>5, <1>6, <2>1
  <2>2. CASE i /= id
    <3>1. i \in DOMAIN sessions /\ sessions'[i] = sessions[i]
      BY <1>5, <2>2
    <3>2. /\ signedIn[sessions[i].user] >= sessions[i].created /\ sessions[i].user \in OidcUsers
          /\ sessions[i].created <= now
      BY <1>7, <3>1 DEF SignedIn, SessionTypes
    <3>3. CASE sessions[i].user = u
      BY <1>6, <3>1, <3>2, <3>3
    <3>4. CASE sessions[i].user /= u
      BY <1>6, <3>1, <3>2, <3>4
    <3> QED BY <3>3, <3>4
  <2> QED BY <2>1, <2>2
<1>8. \A y : ProvedToken(y) => ProvedToken(y)'
  BY <1>3 DEF ProvedToken
<1>9. PICK set : set = Both(Cleared({"state", "pkce"}), [c \in {"oidc"} |-> Cookie(id, Valid)])
  OBVIOUS
<1>10. tab' = [tab EXCEPT ![t] = [at |-> "session", set |-> set]]
  BY <1>1, <1>9 DEF Exchange, Answer
<1>11. DOMAIN set = {"state", "pkce", "oidc"}
  BY <1>9 DEF Both, Cleared
<1>12. set["oidc"] = Cookie(id, Valid)
  BY <1>9 DEF Both, Cleared
<1>13. set["oidc"].value = id /\ set["oidc"].expires = now + Valid
  BY <1>12 DEF Cookie
<1>14. SignedIn(id)'
  BY <1>4, <1>5, <1>6 DEF SignedIn
<1>15. SignedIn(set["oidc"].value)'
  BY <1>13, <1>14
<1>16. TabOK([at |-> "session", set |-> set])'
  BY <1>3, <1>11, <1>13, <1>15 DEF TabOK
<1>17. (\A s \in Tabs : TabOK(tab[s]))'
  BY <1>3, <1>7, <1>8, <1>10, <1>16, OtherTabsStay
<1>18. JarOK'
  BY <1>3, <1>7, <1>8, JarStays
<1>19. SeenOK'
  BY <1>3 DEF SeenOK
<1>20. GivenOK'
  BY <1>3, <1>5 DEF GivenOK
<1>21. FlowOK'
  <2>1. lastFlow.value = None
    BY <1>2 DEF FlowOK
  <2> QED BY <1>3, <1>10, <2>1, FlowStays
<1>22. SessionTypes'
  <2>1. used' \subseteq Nat /\ DOMAIN sessions' \subseteq used'
    BY <1>2, <1>3, <1>5 DEF SessionTypes
  <2>2. ASSUME NEW i \in DOMAIN sessions'
        PROVE  sessions'[i].user \in OidcUsers /\ sessions'[i].created \in Int /\ sessions'[i].created <= now
    BY <1>2, <1>4, <1>5 DEF SessionTypes
  <2> QED BY <1>3, <1>6, <1>10, <2>1, <2>2 DEF SessionTypes
<1> QED BY <1>17, <1>18, <1>19, <1>20, <1>21, <1>22

LEMMA ReloadKeeps == ASSUME SessionsInv, NEW c \in Configs, Reload(c) PROVE SessionsInv'
<1> USE DEF SessionsInv
<1>1. /\ UNCHANGED <<now, jar, sessions, flows, used, tab, proved, signedIn, seen, given, lastFlow>>
      /\ config' = c
  BY DEF Reload, history
<1>2. SessionTypes'
  BY <1>1 DEF SessionTypes
<1>3. (\A s \in Tabs : TabOK(tab[s]))'
  BY <1>1 DEF TabOK, ProvedToken, SignedIn
<1>4. JarOK' /\ SeenOK' /\ GivenOK' /\ FlowOK'
  BY <1>1 DEF JarOK, SeenOK, GivenOK, FlowOK, ProvedToken, SignedIn
<1> QED BY <1>2, <1>3, <1>4

LEMMA SweepKeeps == ASSUME SessionsInv, Sweep PROVE SessionsInv'
<1> USE DEF SessionsInv
<1>1. PICK ids : ids = {id \in DOMAIN sessions : Expired(sessions[id])}
  OBVIOUS
<1>2. /\ UNCHANGED <<now, config, jar, flows, used, tab, proved, signedIn, seen, given, lastFlow>>
      /\ sessions' = Without(ids)
  BY <1>1 DEF Sweep, history
<1>3. /\ \A id : SignedIn(id) => SignedIn(id)'
      /\ DOMAIN sessions' = DOMAIN sessions \ ids
      /\ \A id \in DOMAIN sessions' : sessions'[id] = sessions[id]
  BY <1>2, SessionsShrink
<1>4. \A y : ProvedToken(y) => ProvedToken(y)'
  BY <1>2 DEF ProvedToken
<1>5. (\A s \in Tabs : TabOK(tab[s]))'
  <2> SUFFICES ASSUME NEW s \in Tabs PROVE TabOK(tab[s])'
    OBVIOUS
  <2>1. TabOK(tab[s])
    OBVIOUS
  <2> QED BY <1>2, <1>3, <1>4, <2>1 DEF TabOK
<1>6. JarOK'
  BY <1>2, <1>3, <1>4, JarStays
<1>7. SeenOK' /\ FlowOK'
  BY <1>2 DEF SeenOK, FlowOK
<1>8. GivenOK'
  <2>1. ASSUME given /= None, given.id \in ids PROVE now - given.at >= Valid
    <3>1. given.id \in DOMAIN sessions /\ now - sessions[given.id].created > Valid
      BY <1>1, <2>1 DEF Expired
    <3>2. given.at \in Int /\ now \in Int
      BY <2>1 DEF GivenOK, SessionTypes
    <3> QED BY <2>1, <3>1, <3>2, PeriodsAssumption DEF GivenOK
  <2> QED BY <1>2, <2>1, GivenStays
<1>9. SessionTypes'
  BY <1>2, <1>3 DEF SessionTypes
<1> QED BY <1>5, <1>6, <1>7, <1>8, <1>9

LEMMA TickKeeps == ASSUME SessionsInv, Tick PROVE SessionsInv'
<1> USE DEF SessionsInv
<1>1. /\ UNCHANGED <<config, jar, sessions, flows, used, tab, proved, signedIn, seen, given, lastFlow>>
      /\ now' = now + 1
      /\ \A t \in Tabs : tab[t].at \in {"idle", "provider", "returns"}
  BY DEF Tick, history
<1>2. now \in Nat /\ now' \in Nat /\ now' > now
  BY <1>1 DEF SessionTypes
<1>3. (\A y : ProvedToken(y) => ProvedToken(y)') /\ (\A id : SignedIn(id) => SignedIn(id)')
  BY <1>1 DEF ProvedToken, SignedIn
<1>4. (\A s \in Tabs : TabOK(tab[s]))'
  <2> SUFFICES ASSUME NEW s \in Tabs PROVE TabOK(tab[s])'
    OBVIOUS
  <2>1. TabOK(tab[s]) /\ tab[s].at \in {"idle", "provider", "returns"}
    BY <1>1
  <2> QED BY <1>1, <2>1 DEF TabOK
<1>5. JarOK'
  BY <1>1, <1>3, JarStays
<1>6. SeenOK' /\ FlowOK'
  BY <1>1 DEF SeenOK, FlowOK
<1>7. GivenOK'
  <2>1. ASSUME given /= None, now - given.at >= Valid PROVE now' - given.at >= Valid
    BY <1>2, <2>1, PeriodsAssumption DEF GivenOK
  <2> QED BY <1>1, <2>1 DEF GivenOK
<1>8. SessionTypes'
  <2>1. \A id \in DOMAIN sessions : sessions[id].created <= now'
    BY <1>2 DEF SessionTypes
  <2>2. \A p \in PwUsers \X Creds : proved[p] <= now'
    BY <1>2 DEF SessionTypes
  <2> QED BY <1>1, <1>2, <2>1, <2>2 DEF SessionTypes
<1> QED BY <1>4, <1>5, <1>6, <1>7, <1>8

\* What an answer is, and what it leaves of the rest.
LEMMA Received ==
    ASSUME SessionsInv, NEW t \in Tabs, Receive(t)
    PROVE  /\ tab[t].at \in {"renewed", "token", "session", "out", "begun", "failed"} /\ TabOK(tab[t])
           /\ UNCHANGED <<now, config, reloads, sessions, flows, used>>
           /\ DOMAIN tab[t].set \subseteq Cookies
           /\ \A s \in Tabs \ {t} : tab'[s] = tab[s]
           /\ tab' = [s \in Tabs |-> tab'[s]]
           /\ tab'[t] = IF tab[t].at = "begun"
                        THEN [at |-> "provider", flow |-> tab[t].set["state"].value] ELSE Idle
<1>1. TabOK(tab[t])
  BY DEF SessionsInv
<1>2. tab[t].at \in {"renewed", "token", "session", "out", "begun", "failed"}
  BY <1>1 DEF TabOK, Receive
<1>3. DOMAIN tab[t].set \subseteq Cookies
  BY <1>1, <1>2 DEF TabOK, Cookies
<1>4. tab = [s \in Tabs |-> tab[s]]
  BY DEF SessionsInv, SessionTypes
<1> QED BY <1>1, <1>2, <1>3, <1>4 DEF Receive

\* The cookies an answer sets are in the jar once it is received, the others stay.
LEMMA ReceivedCookies ==
    ASSUME SessionsInv, NEW t \in Tabs, Receive(t)
    PROVE  /\ jar' = [c \in Cookies |-> jar'[c]]
           /\ \A c \in Cookies :
                 jar'[c] = IF c \in DOMAIN tab[t].set THEN tab[t].set[c] ELSE jar[c]
<1>1. jar' = Both(jar, tab[t].set) /\ DOMAIN jar = Cookies
  BY DEF Receive, SessionsInv, SessionTypes
<1>2. DOMAIN tab[t].set \subseteq Cookies
  BY Received
<1> QED BY <1>1, <1>2 DEF Both

\* A logout with no other answer under way.
CleanOut(t) == tab[t].at = "out" /\ Others(t) = {}

LEMMA ReceivedProofs ==
    ASSUME SessionsInv, NEW t \in Tabs, Receive(t)
    PROVE  /\ ~CleanOut(t) => proved' = proved /\ signedIn' = signedIn
           /\ proved' \in [PwUsers \X Creds -> Int] /\ \A p \in PwUsers \X Creds : proved'[p] <= now
           /\ signedIn' \in [OidcUsers -> Int]
<1>1. proved' = IF CleanOut(t) THEN [p \in DOMAIN proved |-> Never] ELSE proved
  BY DEF Receive, CleanOut
<1>2. signedIn' = IF CleanOut(t) THEN [u \in OidcUsers |-> Never] ELSE signedIn
  BY DEF Receive, CleanOut
<1>3. now \in Nat /\ Never \in Int /\ Never <= now
  BY PeriodsAssumption DEF SessionsInv, SessionTypes, Never
<1>4. DOMAIN proved = PwUsers \X Creds
  BY DEF SessionsInv, SessionTypes
<1> QED BY <1>1, <1>2, <1>3, <1>4 DEF SessionsInv, SessionTypes

LEMMA ReceivedTabs ==
    ASSUME SessionsInv, NEW t \in Tabs, Receive(t)
    PROVE  (\A s \in Tabs : TabOK(tab[s]))'
<1> SUFFICES ASSUME NEW s \in Tabs PROVE TabOK(tab[s])'
  OBVIOUS
<1>1. now' = now /\ sessions' = sessions /\ TabOK(tab[s])
  BY Received DEF SessionsInv
<1>2. CASE s = t
  <2>1. CASE tab[t].at = "begun"
    <3>1. tab'[s] = [at |-> "provider", flow |-> tab[t].set["state"].value]
      BY <1>2, <2>1, Received
    <3>2. tab[t].set["state"].value \in Nat
      BY <2>1, Received DEF TabOK
    <3> QED BY <3>1, <3>2 DEF TabOK
  <2>2. CASE tab[t].at /= "begun"
    <3>1. tab'[s] = [at |-> "idle"]
      BY <1>2, <2>2, Received DEF Idle
    <3> QED BY <3>1 DEF TabOK
  <2> QED BY <2>1, <2>2
<1>3. CASE s /= t /\ ~CleanOut(t)
  <2>1. tab'[s] = tab[s] /\ proved' = proved /\ signedIn' = signedIn
    BY <1>3, Received, ReceivedProofs
  <2>2. (\A y : ProvedToken(y) => ProvedToken(y)') /\ (\A id : SignedIn(id) => SignedIn(id)')
    BY <1>1, <2>1 DEF ProvedToken, SignedIn
  <2> QED BY <1>1, <2>1, <2>2 DEF TabOK
<1>4. CASE s /= t /\ CleanOut(t)
  <2>1. tab'[s] = tab[s]
    BY <1>4, Received
  <2>2. tab[s].at \notin {"renewed", "token", "session"}
    BY <1>4 DEF CleanOut, Others
  <2> QED BY <1>1, <2>1, <2>2 DEF TabOK
<1> QED BY <1>2, <1>3, <1>4

LEMMA ReceivedJar == ASSUME SessionsInv, NEW t \in Tabs, Receive(t) PROVE JarOK'
<1> DEFINE what == tab[t].at
           set == tab[t].set
<1> USE DEF SessionsInv
<1>1. /\ now' = now /\ sessions' = sessions /\ TabOK(tab[t])
      /\ what \in {"renewed", "token", "session", "out", "begun", "failed"}
  BY Received
<1>2. /\ jar'["token"] = IF "token" \in DOMAIN set THEN set["token"] ELSE jar["token"]
      /\ jar'["oidc"] = IF "oidc" \in DOMAIN set THEN set["oidc"] ELSE jar["oidc"]
  BY ReceivedCookies DEF Cookies
<1>3. CASE what = "out"
  <2>1. jar'["token"].value = None /\ jar'["oidc"].value = None
    BY <1>1, <1>2, <1>3 DEF TabOK
  <2>2. None \notin DOMAIN sessions
    BY NamesAssumption DEF SessionTypes
  <2> QED BY <1>1, <2>1, <2>2 DEF JarOK, SignedIn
<1>4. CASE what /= "out"
  <2>1. proved' = proved /\ signedIn' = signedIn
    BY <1>4, ReceivedProofs DEF CleanOut
  <2>2. (\A y : ProvedToken(y) => ProvedToken(y)') /\ (\A id : SignedIn(id) => SignedIn(id)')
    BY <1>1, <2>1 DEF ProvedToken, SignedIn
  <2>3. CASE what \in {"renewed", "token"}
    <3>1. /\ jar'["token"] = set["token"] /\ jar'["oidc"] = jar["oidc"]
          /\ ProvedToken(set["token"].value) /\ set["token"].expires = set["token"].value.expires
      BY <1>1, <1>2, <2>3 DEF TabOK
    <3> QED BY <2>2, <3>1 DEF JarOK
  <2>4. CASE what = "session"
    <3>1. /\ jar'["token"] = jar["token"] /\ jar'["oidc"] = set["oidc"]
          /\ SignedIn(set["oidc"].value)
      BY <1>1, <1>2, <2>4 DEF TabOK
    <3> QED BY <2>2, <3>1 DEF JarOK
  <2>5. CASE what \in {"begun", "failed"}
    <3>1. jar'["token"] = jar["token"] /\ jar'["oidc"] = jar["oidc"]
      BY <1>1, <1>2, <2>5 DEF TabOK
    <3> QED BY <2>2, <3>1 DEF JarOK
  <2> QED BY <1>1, <1>4, <2>3, <2>4, <2>5
<1> QED BY <1>3, <1>4

LEMMA ReceivedSeen == ASSUME SessionsInv, NEW t \in Tabs, Receive(t) PROVE SeenOK'
<1> DEFINE what == tab[t].at
           set == tab[t].set
<1> USE DEF SessionsInv
<1>1. /\ TabOK(tab[t]) /\ what \in {"renewed", "token", "session", "out", "begun", "failed"}
  BY Received
<1>2. jar'["token"] = IF "token" \in DOMAIN set THEN set["token"] ELSE jar["token"]
  BY ReceivedCookies DEF Cookies
<1>3. seen' = IF what \in {"renewed", "token"} THEN now ELSE IF what = "out" THEN Never ELSE seen
  BY <1>1 DEF Receive
<1>4. CASE what \in {"renewed", "token"}
  <2>1. /\ jar'["token"] = set["token"] /\ seen' = now /\ now \in Int
        /\ set["token"].value \in Token /\ set["token"].value.expires = now + Valid
    BY <1>1, <1>2, <1>3, <1>4 DEF TabOK, ProvedToken, SessionTypes
  <2>2. set["token"].value /= None
    BY <2>1, NamesAssumption DEF Token
  <2> QED BY <2>1, <2>2, PeriodsAssumption DEF SeenOK
<1>5. CASE what = "out"
  BY <1>3, <1>5 DEF SeenOK, Never
<1>6. CASE what \in {"session", "begun", "failed"}
  <2>1. jar'["token"] = jar["token"] /\ seen' = seen
    BY <1>1, <1>2, <1>3, <1>6 DEF TabOK
  <2> QED BY <2>1 DEF SeenOK, Never
<1> QED BY <1>1, <1>4, <1>5, <1>6

LEMMA ReceivedGiven == ASSUME SessionsInv, NEW t \in Tabs, Receive(t) PROVE GivenOK'
<1> DEFINE what == tab[t].at
           set == tab[t].set
<1> USE DEF SessionsInv
<1>1. /\ TabOK(tab[t]) /\ what \in {"renewed", "token", "session", "out", "begun", "failed"}
      /\ now' = now /\ sessions' = sessions
  BY Received
<1>2. jar'["oidc"] = IF "oidc" \in DOMAIN set THEN set["oidc"] ELSE jar["oidc"]
  BY ReceivedCookies DEF Cookies
<1>3. given' = IF what = "session" THEN Session(set["oidc"].value)
               ELSE IF what = "out" THEN None ELSE given
  BY <1>1 DEF Receive
<1>4. CASE what = "session"
  <2>1. PICK id : id = set["oidc"].value
    OBVIOUS
  <2>2. jar'["oidc"].value = id /\ jar'["oidc"].expires = now + Valid
    BY <1>1, <1>2, <1>4, <2>1 DEF TabOK
  <2>3. CASE id \in DOMAIN sessions
    <3>1. /\ given' = [id |-> id, user |-> sessions[id].user, at |-> sessions[id].created]
          /\ sessions[id].created \in Int /\ sessions[id].created <= now /\ now \in Int
      BY <1>3, <1>4, <2>1, <2>3 DEF Session, SessionTypes
    <3>2. /\ given'.id = id /\ given'.user = sessions[id].user
          /\ given'.at = sessions[id].created
      BY <3>1
    <3>3. now + Valid \in Int /\ now + Valid >= given'.at + Valid
      BY <3>1, <3>2, PeriodsAssumption
    <3> QED BY <1>1, <2>2, <2>3, <3>1, <3>2, <3>3 DEF GivenOK
  <2>4. CASE id \notin DOMAIN sessions
    <3>1. given' = None
      BY <1>3, <1>4, <2>1, <2>4 DEF Session
    <3> QED BY <3>1 DEF GivenOK
  <2> QED BY <2>3, <2>4
<1>5. CASE what = "out"
  BY <1>3, <1>5 DEF GivenOK
<1>6. CASE what \in {"renewed", "token", "begun", "failed"}
  <2>1. jar'["oidc"] = jar["oidc"] /\ given' = given
    BY <1>1, <1>2, <1>3, <1>6 DEF TabOK
  <2> QED BY <1>1, <2>1 DEF GivenOK
<1> QED BY <1>1, <1>4, <1>5, <1>6

LEMMA ReceivedFlow == ASSUME SessionsInv, NEW t \in Tabs, Receive(t) PROVE FlowOK'
<1> DEFINE what == tab[t].at
           set == tab[t].set
<1> USE DEF SessionsInv
<1>1. /\ TabOK(tab[t]) /\ what \in {"renewed", "token", "session", "out", "begun", "failed"}
      /\ \A s \in Tabs \ {t} : tab'[s] = tab[s]
      /\ tab'[t] = IF what = "begun" THEN [at |-> "provider", flow |-> set["state"].value] ELSE Idle
  BY Received
<1>2. /\ jar'["state"] = IF "state" \in DOMAIN set THEN set["state"] ELSE jar["state"]
      /\ jar'["pkce"] = IF "pkce" \in DOMAIN set THEN set["pkce"] ELSE jar["pkce"]
  BY ReceivedCookies DEF Cookies
<1>3. lastFlow' = IF what /= "begun" THEN lastFlow
                  ELSE IF Ending(t) THEN Gone ELSE set["state"]
  BY DEF Receive
<1>4. tab'[t].at \in {"idle", "provider"}
  BY <1>1 DEF Idle
<1>5. CASE what = "begun" /\ Ending(t)
  BY <1>3, <1>5 DEF FlowOK, Gone, Never
<1>6. CASE what = "begun" /\ ~Ending(t)
  <2>1. jar'["state"] = set["state"] /\ jar'["pkce"] = set["state"] /\ lastFlow' = set["state"]
    BY <1>1, <1>2, <1>3, <1>6 DEF TabOK
  <2>2. lastFlow'.value /= None
    BY <1>1, <1>6, <2>1, NamesAssumption DEF TabOK
  <2>3. \A s \in Tabs : tab'[s].at \notin {"exchange", "failed", "session"}
    BY <1>1, <1>4, <1>6 DEF Ending
  <2> QED BY <2>1, <2>2, <2>3 DEF FlowOK
<1>7. CASE what /= "begun" /\ lastFlow.value = None
  BY <1>3, <1>7 DEF FlowOK, Gone, Never
<1>8. CASE what /= "begun" /\ lastFlow.value /= None
  <2>1. what \in {"renewed", "token", "out"}
    BY <1>1, <1>8 DEF FlowOK
  <2>2. jar'["state"] = jar["state"] /\ jar'["pkce"] = jar["pkce"] /\ lastFlow' = lastFlow
    BY <1>1, <1>2, <1>3, <2>1 DEF TabOK
  <2>3. \A s \in Tabs : tab'[s].at \notin {"exchange", "failed", "session"}
    BY <1>1, <1>4, <1>8 DEF FlowOK
  <2> QED BY <1>8, <2>2, <2>3 DEF FlowOK
<1> QED BY <1>5, <1>6, <1>7, <1>8

LEMMA ReceiveKeeps == ASSUME SessionsInv, NEW t \in Tabs, Receive(t) PROVE SessionsInv'
<1>1. SessionTypes'
  <2>1. SessionTypes
    BY DEF SessionsInv
  <2>2. jar' = [d \in Cookies |-> jar'[d]]
    BY <2>1, Received, ReceivedCookies DEF Cookies
  <2>3. /\ UNCHANGED <<now, config, reloads, sessions, flows, used>>
        /\ tab' = [s \in Tabs |-> tab'[s]]
    BY Received
  <2> QED BY <2>1, <2>2, <2>3, ReceivedProofs DEF SessionTypes
<1> QED BY <1>1, ReceivedTabs, ReceivedJar, ReceivedSeen, ReceivedGiven, ReceivedFlow DEF SessionsInv

LEMMA SessionsStep == ASSUME SessionsInv, [SessionsNext]_sessionVars PROVE SessionsInv'
<1>1. CASE UNCHANGED sessionVars
  <2>1. UNCHANGED <<now, config, reloads, jar, sessions, flows, used, tab, proved, signedIn, seen,
                    given, lastFlow>>
    BY <1>1 DEF sessionVars
  <2>2. SessionTypes' /\ JarOK' /\ SeenOK' /\ GivenOK' /\ FlowOK'
    BY <2>1 DEF SessionsInv, SessionTypes, JarOK, SeenOK, GivenOK, FlowOK, ProvedToken, SignedIn
  <2>3. (\A t \in Tabs : TabOK(tab[t]))'
    BY <2>1 DEF SessionsInv, TabOK, ProvedToken, SignedIn
  <2> QED BY <2>2, <2>3 DEF SessionsInv
<1>2. ASSUME NEW t \in Tabs, Visit(t) \/ LogOut(t) \/ OidcLogin(t) PROVE SessionsInv'
  BY <1>2, VisitKeeps, LogOutKeeps, OidcLoginKeeps
<1>3. ASSUME NEW t \in Tabs, Mismatch(t) \/ Callback(t) \/ Reject(t) \/ Exchange(t) PROVE SessionsInv'
  BY <1>3, TabRests, CallbackKeeps, RejectKeeps, ExchangeKeeps
<1>4. ASSUME NEW t \in Tabs, Receive(t) \/ Lose(t) PROVE SessionsInv'
  BY <1>4, ReceiveKeeps, TabRests
<1>5. ASSUME NEW t \in Tabs, NEW u \in PwUsers, LogIn(t, u) PROVE SessionsInv'
  BY <1>5, LogInKeeps
<1>6. ASSUME NEW t \in Tabs, NEW u \in OidcUsers \union {None}, Authenticate(t, u) PROVE SessionsInv'
  BY <1>6, AuthenticateKeeps
<1>7. ASSUME NEW c \in Configs, Reload(c) PROVE SessionsInv'
  BY <1>7, ReloadKeeps
<1>8. CASE Sweep \/ Tick
  BY <1>8, SweepKeeps, TickKeeps
<1> QED BY <1>1, <1>2, <1>3, <1>4, <1>5, <1>6, <1>7, <1>8 DEF SessionsNext

LEMMA SessionsAlways == AccessSpec => []SessionsInv
<1>1. AccessInit => SessionsInv
  BY SessionsStart DEF AccessInit
<1>2. SessionsInv /\ [AccessNext]_accessVars => SessionsInv'
  BY SessionsStep, SessionSteps
<1> QED BY <1>1, <1>2, PTL DEF AccessSpec

\* Whoever the server takes this browser for proved it from this browser within
\* Valid, with the password of the config that serves now or at the provider
\* (getAuthenticatedUser, for any number of tabs, users and reloads), and sees
\* only pages whose lists have it.
THEOREM GrantsAreDeservedHolds == AccessSpec => []GrantsAreDeserved
<1>1. SessionsInv => GrantsAreDeserved
  <2> SUFFICES ASSUME SessionsInv, User /= Nobody PROVE GrantsAreDeserved
    BY DEF GrantsAreDeserved
  <2>1. \A p \in DOMAIN Pages : CanAccess(User, p) /\ Restricted(p) =>
            \/ User \in Pages[p].users
            \/ User \in OidcUsers /\ Pages[p].groups \intersect GroupsOf[User] /= {}
    BY DEF CanAccess, AllowedOnPage
  <2>2. now \in Int
    BY DEF SessionsInv, SessionTypes
  <2>3. CASE ByToken
    <3>1. PICK x : x = Sent("token")
      OBVIOUS
    <3>2. /\ User = x.user /\ x.user \in PwUsers /\ config.cred[x.user] = x.cred
          /\ x.cred \in Creds /\ ProvedToken(x) /\ x.expires \in Int /\ now <= x.expires
      BY <2>3, <3>1, AcceptedToken DEF User, ByToken
    <3>3. proved[<<x.user, x.cred>>] >= x.expires - Valid /\ proved[<<x.user, x.cred>>] \in Int
      BY <3>2 DEF ProvedToken, SessionsInv, SessionTypes
    <3>4. proved[<<x.user, x.cred>>] >= now - Valid
      BY <2>2, <3>2, <3>3, PeriodsAssumption
    <3>5. x.cred /= None
      BY <3>2, NamesAssumption
    <3>6. /\ User \in PwUsers /\ config.cred[User] /= None
          /\ proved[<<User, config.cred[User]>>] >= now - Valid
      BY <3>2, <3>4, <3>5
    <3> QED BY <2>1, <3>6 DEF GrantsAreDeserved
  <2>4. CASE ~ByToken
    <3>1. PICK id : id = Sent("oidc")
      OBVIOUS
    <3>2. User = sessions[id].user /\ SessionHolds(id)
      BY <2>4, <3>1 DEF User, ByToken
    <3>3. id \in DOMAIN sessions /\ now - sessions[id].created < Valid /\ OidcUserAllowed(config, User)
      BY <3>2 DEF SessionHolds, NotTooOld
    <3>4. /\ User \in OidcUsers /\ sessions[id].created \in Int /\ signedIn[User] \in Int
      BY <3>2, <3>3 DEF SessionsInv, SessionTypes
    <3>5. SignedIn(id)
      <4>1. id = None \/ id = jar["oidc"].value
        BY <3>1 DEF Sent
      <4>2. None \notin DOMAIN sessions
        BY NamesAssumption DEF SessionsInv, SessionTypes
      <4> QED BY <3>3, <4>1, <4>2 DEF SessionsInv, JarOK
    <3>6. signedIn[User] > now - Valid
      BY <2>2, <3>2, <3>3, <3>4, <3>5, PeriodsAssumption DEF SignedIn
    <3> QED BY <2>1, <3>3, <3>4, <3>6 DEF GrantsAreDeserved
  <2> QED BY <2>3, <2>4
<1> QED BY <1>1, SessionsAlways, PTL

\* A browser that was accepted with its token within RegenBefore is not asked to
\* log in while the password is the same, and one that was given a session is
\* not before Valid, while its user is allowed: neither answers that arrive in
\* another order nor the sweeper take either away (getAuthenticatedUser,
\* cleanupExpiredSessions).
THEOREM RefusedOnlyWhenDueHolds == AccessSpec => []RefusedOnlyWhenDue
<1>1. SessionsInv => RefusedOnlyWhenDue
  <2> SUFFICES ASSUME SessionsInv, User = Nobody PROVE RefusedOnlyWhenDue
    BY DEF RefusedOnlyWhenDue
  <2>1. now \in Nat
    BY DEF SessionsInv, SessionTypes
  <2>2. ~ByToken
    <3>1. ASSUME ByToken PROVE FALSE
      <4>1. User \in PwUsers
        BY <3>1, AcceptedToken DEF User, ByToken
      <4> QED BY <4>1, NamesAssumption
    <3> QED BY <3>1
  <2>3. ~SessionHolds(Sent("oidc"))
    <3>1. ASSUME SessionHolds(Sent("oidc")) PROVE FALSE
      <4>1. User = sessions[Sent("oidc")].user /\ Sent("oidc") \in DOMAIN sessions
        BY <2>2, <3>1 DEF User, ByToken, SessionHolds
      <4>2. User \in OidcUsers
        BY <4>1 DEF SessionsInv, SessionTypes
      <4> QED BY <4>2, NamesAssumption
    <3> QED BY <3>1
  <2>4. ASSUME now - seen <= RegenBefore PROVE ~HashMatches(jar["token"].value)
    <3>1. seen /= Never
      BY <2>1, <2>4, PeriodsAssumption DEF Never
    <3>2. PICK x : x = jar["token"].value
      OBVIOUS
    <3>3. seen \in Int /\ x /= None /\ x.expires >= seen + RegenBefore
      BY <3>1, <3>2 DEF SessionsInv, SeenOK
    <3>4. x.expires \in Int /\ jar["token"].expires = x.expires
      BY <3>2, <3>3 DEF SessionsInv, JarOK, ProvedToken, Token
    <3>5. now <= x.expires
      BY <2>1, <2>4, <3>3, <3>4, PeriodsAssumption
    <3>6. Sent("token") = x
      BY <3>2, <3>4, <3>5 DEF Sent
    <3> QED BY <2>2, <3>2, <3>3, <3>5, <3>6 DEF ByToken, TokenHolds, NotExpired
  <2>5. ASSUME given /= None, ~(now - given.at >= Valid) PROVE ~OidcUserAllowed(config, given.user)
    <3>1. /\ jar["oidc"].value = given.id /\ given.at \in Int
          /\ jar["oidc"].expires \in Int /\ jar["oidc"].expires >= given.at + Valid
          /\ given.id \in DOMAIN sessions
          /\ sessions[given.id].user = given.user /\ sessions[given.id].created = given.at
      BY <2>5 DEF SessionsInv, GivenOK
    <3>2. now <= jar["oidc"].expires /\ now - given.at < Valid
      BY <2>1, <2>5, <3>1, PeriodsAssumption
    <3>3. Sent("oidc") = given.id
      BY <3>1, <3>2 DEF Sent
    <3> QED BY <2>3, <3>1, <3>2, <3>3 DEF SessionHolds, NotTooOld
  <2> QED BY <2>4, <2>5 DEF RefusedOnlyWhenDue
<1> QED BY <1>1, SessionsAlways, PTL

\* Of several logins at the provider, the one whose cookies the browser received
\* last is accepted when the provider sends it back in time (handleOIDCCallback).
THEOREM LastFlowGoesThroughHolds == AccessSpec => []LastFlowGoesThrough
<1>1. SessionsInv => LastFlowGoesThrough
  <2> SUFFICES ASSUME SessionsInv, NEW t \in Tabs, tab[t].at = "returns",
                      tab[t].flow = lastFlow.value, now <= lastFlow.expires
               PROVE  Accepts(t)
    BY DEF LastFlowGoesThrough
  <2>1. tab[t].flow \in Nat
    BY DEF SessionsInv, TabOK
  <2>2. lastFlow.value /= None
    BY <2>1, NamesAssumption
  <2>3. jar["state"] = lastFlow /\ jar["pkce"] = lastFlow
    BY <2>2 DEF SessionsInv, FlowOK
  <2>4. Sent("state") = tab[t].flow /\ Sent("pkce") = tab[t].flow
    BY <2>3 DEF Sent
  <2> QED BY <2>1, <2>2, <2>4 DEF Accepts, StateMatches
<1> QED BY <1>1, SessionsAlways, PTL

--------------------------------------------------------------------------------
\* How often an address may ask.  First, sets of times and how many are in them.

From(S, lo) == {t \in S : t >= lo}
Between(S, lo, hi) == {t \in S : lo <= t /\ t < hi}

LEMMA FewerTimes ==
    ASSUME NEW S, NEW T, IsFiniteSet(T), S \subseteq T
    PROVE  /\ IsFiniteSet(S) /\ Cardinality(S) \in Nat /\ Cardinality(T) \in Nat
           /\ Cardinality(S) <= Cardinality(T)
<1>1. IsFiniteSet(S) /\ Cardinality(S) <= Cardinality(T)
  BY FS_Subset
<1> QED BY <1>1, FS_CardinalityType

LEMMA OneMoreTime ==
    ASSUME NEW S, NEW x, IsFiniteSet(S)
    PROVE  /\ IsFiniteSet(S \union {x}) /\ Cardinality(S \union {x}) <= Cardinality(S) + 1
           /\ x \notin S => Cardinality(S \union {x}) = Cardinality(S) + 1
           /\ Cardinality(S) \in Nat
<1>1. Cardinality(S) \in Nat
  BY FS_CardinalityType
<1>2. /\ IsFiniteSet(S \union {x})
      /\ Cardinality(S \union {x}) = IF x \in S THEN Cardinality(S) ELSE Cardinality(S) + 1
  BY FS_AddElement
<1> QED BY <1>1, <1>2

LEMMA BothTimes ==
    ASSUME NEW S, NEW T, IsFiniteSet(S), IsFiniteSet(T)
    PROVE  /\ IsFiniteSet(S \union T)
           /\ Cardinality(S \union T) <= Cardinality(S) + Cardinality(T)
           /\ Cardinality(S) \in Nat /\ Cardinality(T) \in Nat
<1>1. IsFiniteSet(S \intersect T) /\ Cardinality(S \intersect T) \in Nat
  BY FewerTimes
<1>2. Cardinality(S) \in Nat /\ Cardinality(T) \in Nat
  BY FS_CardinalityType
<1>3. /\ IsFiniteSet(S \union T)
      /\ Cardinality(S \union T) = Cardinality(S) + Cardinality(T) - Cardinality(S \intersect T)
  BY FS_Union
<1> QED BY <1>1, <1>2, <1>3

\* The times before the clock.
Past(S, c) == \A t \in S : t \in Nat /\ t < c

LEMMA PastIsFinite ==
    ASSUME NEW S, NEW c \in Nat, Past(S, c)
    PROVE  /\ IsFiniteSet(S) /\ Cardinality(S) \in Nat
           /\ \A T \in SUBSET S : IsFiniteSet(T) /\ Cardinality(T) \in Nat
<1>1. S \in SUBSET Nat /\ \A s \in S : s <= c
  BY DEF Past
<1>2. IsFiniteSet(S)
  BY <1>1, FS_BoundedSetOfNaturals
<1> QED BY <1>2, FewerTimes, FS_CardinalityType

\* The times of a pass at c, where only those of the window before it are kept.
LEMMA PassedNow ==
    ASSUME NEW S, NEW c \in Nat, Past(S, c), NEW w \in Nat
    PROVE  /\ Past(From(S, c - w) \union {c}, c + 1)
           /\ Past(From(S, c - w), c + 1)
           /\ Past(S, c + 1)
  BY DEF Past, From

--------------------------------------------------------------------------------
\* Password checks of one address that passed, at the times of S: while it is
\* known, with attempts since first, and while it is not.

Known(S, first, attempts, c) ==
    /\ Cardinality(Between(S, first + 1, first + LoginWindow)) <= attempts - 1
    /\ Cardinality(Between(S, first + 1, first + LoginWindow)) <= MaxAttempts - 1
    /\ \A t \in S : t <= first + LoginWindow
    /\ Cardinality(Between(S, first + 1 - LoginWindow, first)) <= MaxAttempts + 1
    /\ c - first <= LoginWindow => Cardinality(From(S, first)) >= attempts

Unknown(S, c) == Cardinality(From(S, c - LoginWindow)) <= MaxAttempts + 1

LEMMA FirstAttempt ==
    ASSUME NEW S, NEW c \in Nat, Past(S, c), Unknown(S, c)
    PROVE  Known(From(S, c - LoginWindow) \union {c}, c, 1, c + 1)
<1> DEFINE T == From(S, c - LoginWindow) \union {c}
<1> USE WindowsAssumption DEF Limits!LimitsAssumption
<1>1. Between(T, c + 1, c + LoginWindow) = {}
  BY DEF Between, From, Past
<1>2. \A t \in T : t <= c + LoginWindow
  BY DEF From, Past
<1>3. Between(T, c + 1 - LoginWindow, c) \subseteq From(S, c - LoginWindow)
  BY DEF Between, From, Past
<1>4. IsFiniteSet(From(S, c - LoginWindow))
  BY PastIsFinite DEF From
<1>5. Cardinality(Between(T, c + 1 - LoginWindow, c)) <= MaxAttempts + 1
  <2>1. /\ Cardinality(Between(T, c + 1 - LoginWindow, c)) <= Cardinality(From(S, c - LoginWindow))
        /\ Cardinality(Between(T, c + 1 - LoginWindow, c)) \in Nat
        /\ Cardinality(From(S, c - LoginWindow)) \in Nat
    BY <1>3, <1>4, FewerTimes
  <2> HIDE DEF T
  <2> QED BY <2>1 DEF Unknown
<1>6. From(T, c) = {c}
  BY DEF From, Past
<1>7. Cardinality(From(T, c)) = 1 /\ Cardinality(Between(T, c + 1, c + LoginWindow)) = 0
  BY <1>1, <1>6, FS_Singleton, FS_EmptySet
<1> QED BY <1>2, <1>5, <1>7 DEF Known

LEMMA NextAttempt ==
    ASSUME NEW S, NEW c \in Nat, Past(S, c), NEW first \in Nat, NEW attempts \in Nat \ {0},
           first < c, Known(S, first, attempts, c), c - first <= LoginWindow,
           c - first < LoginWindow => attempts < MaxAttempts
    PROVE  Known(From(S, c - LoginWindow) \union {c}, first, attempts + 1, c + 1)
<1> DEFINE T == From(S, c - LoginWindow) \union {c}
           A == Between(S, first + 1, first + LoginWindow)
           B == Between(T, first + 1, first + LoginWindow)
<1> USE WindowsAssumption DEF Limits!LimitsAssumption
<1>1. IsFiniteSet(A) /\ Cardinality(A) \in Nat
  BY PastIsFinite DEF Between
<1>2. Cardinality(B) <= attempts /\ Cardinality(B) <= MaxAttempts - 1 /\ Cardinality(B) \in Nat
  <2>1. CASE c - first < LoginWindow
    <3>1. B \subseteq A \union {c}
      BY DEF Between, From
    <3>2. IsFiniteSet(A \union {c}) /\ Cardinality(A \union {c}) <= Cardinality(A) + 1
      BY <1>1, OneMoreTime
    <3>3. Cardinality(B) <= Cardinality(A \union {c}) /\ Cardinality(B) \in Nat
          /\ Cardinality(A \union {c}) \in Nat
      BY <3>1, <3>2, FewerTimes
    <3>4. Cardinality(B) <= Cardinality(A) + 1
      BY <1>1, <3>2, <3>3
    <3>5. Cardinality(A) <= attempts - 1
      BY DEF Known
    <3> HIDE DEF A, B
    <3> QED BY <1>1, <2>1, <3>3, <3>4, <3>5
  <2>2. CASE c - first = LoginWindow
    <3>1. B \subseteq A
      BY <2>2 DEF Between, From
    <3>2. Cardinality(B) <= Cardinality(A) /\ Cardinality(B) \in Nat
      BY <1>1, <3>1, FewerTimes
    <3>3. Cardinality(A) <= attempts - 1 /\ Cardinality(A) <= MaxAttempts - 1
      BY DEF Known
    <3> HIDE DEF A, B
    <3> QED BY <1>1, <3>2, <3>3
  <2> QED BY <2>1, <2>2
<1>3. \A t \in T : t <= first + LoginWindow
  BY DEF From, Known
<1>4. Cardinality(Between(T, first + 1 - LoginWindow, first)) <= MaxAttempts + 1
  <2>1. Between(T, first + 1 - LoginWindow, first) \subseteq Between(S, first + 1 - LoginWindow, first)
    BY DEF Between, From
  <2>2. IsFiniteSet(Between(S, first + 1 - LoginWindow, first))
    BY PastIsFinite DEF Between
  <2> QED BY <2>1, <2>2, FewerTimes DEF Known
<1>5. Cardinality(From(T, first)) >= attempts + 1
  <2>1. From(T, first) = From(S, first) \union {c} /\ c \notin From(S, first)
    BY DEF From, Past
  <2>2. IsFiniteSet(From(S, first)) /\ Cardinality(From(S, first)) \in Nat
    BY PastIsFinite DEF From
  <2>3. Cardinality(From(T, first)) = Cardinality(From(S, first)) + 1
    BY <2>1, <2>2, OneMoreTime
  <2>4. Cardinality(From(S, first)) >= attempts
    BY DEF Known
  <2> HIDE DEF T
  <2> QED BY <2>2, <2>3, <2>4
<1>6. attempts + 1 - 1 = attempts
  OBVIOUS
<1> QED BY <1>2, <1>3, <1>4, <1>5, <1>6 DEF Known

\* What is left of the times of a window that is over.
LEMMA WindowLeft ==
    ASSUME NEW S, NEW c \in Nat, Past(S, c), NEW first \in Nat, NEW attempts \in Nat \ {0},
           Known(S, first, attempts, c), NEW lo \in Int, lo > first
    PROVE  Cardinality(From(S, lo)) <= MaxAttempts /\ Cardinality(From(S, lo)) \in Nat
           /\ IsFiniteSet(From(S, lo))
<1> DEFINE A == Between(S, first + 1, first + LoginWindow)
<1> USE WindowsAssumption DEF Limits!LimitsAssumption
<1>1. IsFiniteSet(A) /\ Cardinality(A) \in Nat
  BY PastIsFinite DEF Between
<1>2. From(S, lo) \subseteq A \union {first + LoginWindow}
  BY DEF From, Between, Known, Past
<1>3. /\ IsFiniteSet(A \union {first + LoginWindow})
      /\ Cardinality(A \union {first + LoginWindow}) <= Cardinality(A) + 1
  BY <1>1, OneMoreTime
<1>4. /\ Cardinality(From(S, lo)) <= Cardinality(A \union {first + LoginWindow})
      /\ Cardinality(From(S, lo)) \in Nat /\ IsFiniteSet(From(S, lo))
      /\ Cardinality(A \union {first + LoginWindow}) \in Nat
  BY <1>2, <1>3, FewerTimes
<1>5. Cardinality(A) <= MaxAttempts - 1
  BY DEF Known
<1> HIDE DEF A
<1> QED BY <1>1, <1>3, <1>4, <1>5

\* The check that ends a window is counted in none.
LEMMA LateAttempt ==
    ASSUME NEW S, NEW c \in Nat, Past(S, c), NEW first \in Nat, NEW attempts \in Nat \ {0},
           Known(S, first, attempts, c), c - first > LoginWindow
    PROVE  Unknown(From(S, c - LoginWindow) \union {c}, c + 1) /\ Unknown(S, c + 1)
<1> DEFINE T == From(S, c - LoginWindow) \union {c}
           old == From(S, c + 1 - LoginWindow)
<1> USE WindowsAssumption DEF Limits!LimitsAssumption
<1>1. Cardinality(old) <= MaxAttempts /\ Cardinality(old) \in Nat /\ IsFiniteSet(old)
  BY WindowLeft
<1>2. From(T, c + 1 - LoginWindow) \subseteq old \union {c}
  BY DEF From
<1>3. IsFiniteSet(old \union {c}) /\ Cardinality(old \union {c}) <= Cardinality(old) + 1
  BY <1>1, OneMoreTime
<1>4. /\ Cardinality(From(T, c + 1 - LoginWindow)) <= Cardinality(old \union {c})
      /\ Cardinality(From(T, c + 1 - LoginWindow)) \in Nat /\ Cardinality(old \union {c}) \in Nat
  BY <1>2, <1>3, FewerTimes
<1>5. Cardinality(From(T, c + 1 - LoginWindow)) <= MaxAttempts + 1
  <2> HIDE DEF T, old
  <2> QED BY <1>1, <1>3, <1>4
<1>6. Cardinality(old) <= MaxAttempts + 1
  <2> HIDE DEF old
  <2> QED BY <1>1
<1> QED BY <1>5, <1>6 DEF Unknown

LEMMA LoginTimePasses ==
    ASSUME NEW S, NEW c \in Nat, Past(S, c)
    PROVE  /\ Unknown(S, c) => Unknown(S, c + 1)
           /\ \A first, attempts \in Nat : Known(S, first, attempts, c) => Known(S, first, attempts, c + 1)
<1> USE WindowsAssumption DEF Limits!LimitsAssumption
<1>1. ASSUME Unknown(S, c) PROVE Unknown(S, c + 1)
  <2>1. From(S, c + 1 - LoginWindow) \subseteq From(S, c - LoginWindow)
    BY DEF From, Past
  <2>2. IsFiniteSet(From(S, c - LoginWindow))
    BY PastIsFinite DEF From
  <2>3. /\ Cardinality(From(S, c + 1 - LoginWindow)) <= Cardinality(From(S, c - LoginWindow))
        /\ Cardinality(From(S, c + 1 - LoginWindow)) \in Nat /\ Cardinality(From(S, c - LoginWindow)) \in Nat
    BY <2>1, <2>2, FewerTimes
  <2> QED BY <1>1, <2>3 DEF Unknown
<1>2. ASSUME NEW first \in Nat, NEW attempts \in Nat, Known(S, first, attempts, c)
      PROVE  Known(S, first, attempts, c + 1)
  BY <1>2 DEF Known
<1> QED BY <1>1, <1>2

\* So many password checks fit in the last window.
LEMMA LoginBound ==
    ASSUME NEW S, NEW c \in Nat, Past(S, c)
    PROVE  /\ Unknown(S, c) => Cardinality(From(S, c - LoginWindow)) <= 2 * MaxAttempts + 1
           /\ \A first \in Nat, attempts \in Nat \ {0} :
                 Known(S, first, attempts, c) /\ first < c =>
                    /\ Cardinality(From(S, c - LoginWindow)) <= 2 * MaxAttempts + 1
                    /\ c - first < LoginWindow => Cardinality(From(S, c - LoginWindow)) >= attempts
<1> DEFINE all == From(S, c - LoginWindow)
<1> USE WindowsAssumption DEF Limits!LimitsAssumption
<1>0. IsFiniteSet(all) /\ Cardinality(all) \in Nat
  BY PastIsFinite DEF From
<1>1. ASSUME Unknown(S, c) PROVE Cardinality(all) <= 2 * MaxAttempts + 1
  <2>1. Cardinality(all) <= MaxAttempts + 1
    BY <1>1 DEF Unknown
  <2> HIDE DEF all
  <2> QED BY <1>0, <2>1
<1>2. ASSUME NEW first \in Nat, NEW attempts \in Nat \ {0}, Known(S, first, attempts, c), first < c
      PROVE  Cardinality(all) <= 2 * MaxAttempts + 1
  <2>1. CASE c - first > LoginWindow
    <3>1. Cardinality(all) <= MaxAttempts
      BY <1>2, <2>1, WindowLeft
    <3> HIDE DEF all
    <3> QED BY <1>0, <3>1
  <2>2. CASE c - first <= LoginWindow
    <3> DEFINE A == Between(S, first + 1, first + LoginWindow)
               C == Between(S, first + 1 - LoginWindow, first)
    <3>1. all \subseteq (A \union C) \union {first}
      BY <1>2, <2>2 DEF From, Between, Past
    <3>2. IsFiniteSet(A) /\ IsFiniteSet(C)
      BY PastIsFinite DEF Between
    <3>3. /\ IsFiniteSet(A \union C) /\ Cardinality(A \union C) <= Cardinality(A) + Cardinality(C)
          /\ Cardinality(A) \in Nat /\ Cardinality(C) \in Nat
      BY <3>2, BothTimes
    <3>4. /\ IsFiniteSet((A \union C) \union {first})
          /\ Cardinality((A \union C) \union {first}) <= Cardinality(A \union C) + 1
          /\ Cardinality(A \union C) \in Nat
      BY <3>3, OneMoreTime
    <3>5. /\ Cardinality(all) <= Cardinality((A \union C) \union {first})
          /\ Cardinality((A \union C) \union {first}) \in Nat
      BY <3>1, <3>4, FewerTimes
    <3>6. Cardinality(A) <= MaxAttempts - 1 /\ Cardinality(C) <= MaxAttempts + 1
      BY <1>2 DEF Known
    <3> HIDE DEF A, C, all
    <3> QED BY <1>0, <3>3, <3>4, <3>5, <3>6
  <2> QED BY <2>1, <2>2
<1>3. ASSUME NEW first \in Nat, NEW attempts \in Nat \ {0}, Known(S, first, attempts, c), first < c,
             c - first < LoginWindow
      PROVE  Cardinality(all) >= attempts
  <2>1. From(S, first) \subseteq all
    BY <1>3 DEF From, Past
  <2>2. Cardinality(From(S, first)) <= Cardinality(all) /\ Cardinality(From(S, first)) \in Nat
    BY <1>0, <2>1, FewerTimes
  <2>3. Cardinality(From(S, first)) >= attempts
    BY <1>3 DEF Known
  <2> HIDE DEF all
  <2> QED BY <1>0, <2>2, <2>3
<1> QED BY <1>1, <1>2, <1>3

--------------------------------------------------------------------------------
\* Requests of one address to the API that passed, likewise.

Counting(S, first, requests, c) ==
    /\ Cardinality(From(S, first + 1)) <= requests - 1
    /\ Cardinality(From(S, first + 1)) <= ApiLimit - 1
    /\ Cardinality(Between(S, first + 1 - ApiWindow, first)) <= ApiLimit - 1
    /\ c - first <= ApiWindow =>
          Cardinality(From(S, first)) >= requests \/ Cardinality(From(S, first)) >= ApiLimit

NotCounting(S, c) == Cardinality(From(S, c - ApiWindow)) <= ApiLimit - 1

\* A window begins when there is none, or when the one there is is over.
LEMMA FirstRequest ==
    ASSUME NEW S, NEW c \in Nat, Past(S, c),
           \/ NotCounting(S, c)
           \/ \E first \in Nat, requests \in Nat : Counting(S, first, requests, c) /\ c - first >= ApiWindow
    PROVE  Counting(From(S, c - ApiWindow) \union {c}, c, 1, c + 1)
<1> DEFINE T == From(S, c - ApiWindow) \union {c}
           before == Between(T, c + 1 - ApiWindow, c)
<1> USE WindowsAssumption DEF Limits!LimitsAssumption
<1>1. From(T, c + 1) = {} /\ From(T, c) = {c}
  BY DEF From, Past
<1>2. Cardinality(From(T, c + 1)) = 0 /\ Cardinality(From(T, c)) = 1
  BY <1>1, FS_EmptySet, FS_Singleton
<1>3. PICK lo \in Int : /\ before \subseteq From(S, lo) /\ Cardinality(From(S, lo)) <= ApiLimit - 1
  <2>1. CASE NotCounting(S, c)
    <3>1. before \subseteq From(S, c - ApiWindow)
      BY DEF Between, From, Past
    <3>2. c - ApiWindow \in Int /\ Cardinality(From(S, c - ApiWindow)) <= ApiLimit - 1
      BY <2>1 DEF NotCounting
    <3> HIDE DEF before
    <3> QED BY <3>1, <3>2
  <2>2. ASSUME NEW first \in Nat, NEW requests \in Nat, Counting(S, first, requests, c),
               c - first >= ApiWindow
        PROVE  before \subseteq From(S, first + 1) /\ Cardinality(From(S, first + 1)) <= ApiLimit - 1
    BY <2>2 DEF Between, From, Past, Counting
  <2>3. ASSUME NEW first \in Nat, NEW requests \in Nat, Counting(S, first, requests, c),
               c - first >= ApiWindow
        PROVE  \E lo \in Int : before \subseteq From(S, lo) /\ Cardinality(From(S, lo)) <= ApiLimit - 1
    <3>1. first + 1 \in Int
      OBVIOUS
    <3> HIDE DEF before
    <3> QED BY <2>2, <2>3, <3>1
  <2> QED BY <2>1, <2>3
<1>4. IsFiniteSet(From(S, lo))
  BY PastIsFinite DEF From
<1>5. /\ Cardinality(before) <= Cardinality(From(S, lo)) /\ Cardinality(before) \in Nat
      /\ Cardinality(From(S, lo)) \in Nat
  BY <1>3, <1>4, FewerTimes
<1>6. Cardinality(before) <= ApiLimit - 1
  <2> HIDE DEF before
  <2> QED BY <1>3, <1>5
<1> QED BY <1>2, <1>6 DEF Counting

LEMMA NextRequest ==
    ASSUME NEW S, NEW c \in Nat, Past(S, c), NEW first \in Nat, NEW requests \in Nat \ {0},
           first < c, Counting(S, first, requests, c), c - first < ApiWindow
    PROVE  LET T == From(S, c - ApiWindow) \union (IF requests + 1 > ApiLimit THEN {} ELSE {c})
           IN Counting(T, first, requests + 1, c + 1)
<1> DEFINE T == From(S, c - ApiWindow) \union (IF requests + 1 > ApiLimit THEN {} ELSE {c})
           A == From(S, first + 1)
           B == From(T, first + 1)
           before == Between(S, first + 1 - ApiWindow, first)
           kept == Between(T, first + 1 - ApiWindow, first)
<1> USE WindowsAssumption DEF Limits!LimitsAssumption
<1>1. /\ IsFiniteSet(A) /\ Cardinality(A) \in Nat /\ IsFiniteSet(before)
      /\ IsFiniteSet(From(S, first)) /\ Cardinality(From(S, first)) \in Nat
  BY PastIsFinite DEF From, Between
<1>2. /\ Cardinality(A) <= requests - 1 /\ Cardinality(A) <= ApiLimit - 1
      /\ Cardinality(before) <= ApiLimit - 1
  BY DEF Counting
<1>3. Cardinality(From(S, first)) >= requests \/ Cardinality(From(S, first)) >= ApiLimit
  BY DEF Counting
<1>4. kept \subseteq before
  BY DEF Between, From
<1>5. Cardinality(kept) <= Cardinality(before) /\ Cardinality(kept) \in Nat /\ Cardinality(before) \in Nat
  BY <1>1, <1>4, FewerTimes
<1>6. Cardinality(kept) <= ApiLimit - 1
  <2> HIDE DEF kept, before
  <2> QED BY <1>2, <1>5
<1>7. CASE requests + 1 > ApiLimit
  <2>1. B \subseteq A
    BY <1>7 DEF From
  <2>2. Cardinality(B) <= Cardinality(A) /\ Cardinality(B) \in Nat
    BY <1>1, <2>1, FewerTimes
  <2>3. Cardinality(B) <= requests /\ Cardinality(B) <= ApiLimit - 1
    <3> HIDE DEF A, B
    <3> QED BY <1>1, <1>2, <2>2
  <2>4. From(T, first) = From(S, first)
    BY <1>7 DEF From, Past
  <2>5. Cardinality(From(T, first)) >= ApiLimit
    <3> HIDE DEF T
    <3> QED BY <1>1, <1>3, <1>7, <2>4
  <2>6. requests + 1 - 1 = requests
    OBVIOUS
  <2> QED BY <1>6, <2>3, <2>5, <2>6 DEF Counting
<1>8. CASE requests + 1 <= ApiLimit
  <2>1. B \subseteq A \union {c}
    BY <1>8 DEF From
  <2>2. IsFiniteSet(A \union {c}) /\ Cardinality(A \union {c}) <= Cardinality(A) + 1
    BY <1>1, OneMoreTime
  <2>3. /\ Cardinality(B) <= Cardinality(A \union {c}) /\ Cardinality(B) \in Nat
        /\ Cardinality(A \union {c}) \in Nat
    BY <2>1, <2>2, FewerTimes
  <2>4. Cardinality(B) <= requests /\ Cardinality(B) <= ApiLimit - 1
    <3> HIDE DEF A, B
    <3> QED BY <1>1, <1>2, <1>8, <2>2, <2>3
  <2>5. From(T, first) = From(S, first) \union {c} /\ c \notin From(S, first)
    BY <1>8 DEF From, Past
  <2>6. Cardinality(From(T, first)) = Cardinality(From(S, first)) + 1
    BY <1>1, <2>5, OneMoreTime
  <2>7. Cardinality(From(T, first)) >= requests + 1 \/ Cardinality(From(T, first)) >= ApiLimit
    <3> HIDE DEF T
    <3> QED BY <1>1, <1>3, <1>8, <2>6
  <2>8. requests + 1 - 1 = requests
    OBVIOUS
  <2> QED BY <1>6, <2>4, <2>7, <2>8 DEF Counting
<1>9. requests + 1 > ApiLimit \/ requests + 1 <= ApiLimit
  OBVIOUS
<1> QED BY <1>7, <1>8, <1>9

LEMMA RequestTimePasses ==
    ASSUME NEW S, NEW c \in Nat, Past(S, c)
    PROVE  /\ NotCounting(S, c) => NotCounting(S, c + 1)
           /\ \A first, requests \in Nat :
                 Counting(S, first, requests, c) =>
                    /\ Counting(S, first, requests, c + 1)
                    /\ c - first >= ApiWindow => NotCounting(S, c + 1)
<1> DEFINE new == From(S, c + 1 - ApiWindow)
<1> USE WindowsAssumption DEF Limits!LimitsAssumption
<1>1. ASSUME NEW lo \in Int, lo <= c + 1 - ApiWindow, Cardinality(From(S, lo)) <= ApiLimit - 1
      PROVE  NotCounting(S, c + 1)
  <2>1. new \subseteq From(S, lo)
    BY <1>1 DEF From, Past
  <2>2. IsFiniteSet(From(S, lo))
    BY PastIsFinite DEF From
  <2>3. Cardinality(new) <= Cardinality(From(S, lo)) /\ Cardinality(new) \in Nat
        /\ Cardinality(From(S, lo)) \in Nat
    BY <2>1, <2>2, FewerTimes
  <2>4. Cardinality(new) <= ApiLimit - 1
    <3> HIDE DEF new
    <3> QED BY <1>1, <2>3
  <2> QED BY <2>4 DEF NotCounting
<1>2. NotCounting(S, c) => NotCounting(S, c + 1)
  BY <1>1 DEF NotCounting
<1>3. ASSUME NEW first \in Nat, NEW requests \in Nat, Counting(S, first, requests, c)
      PROVE  /\ Counting(S, first, requests, c + 1)
             /\ c - first >= ApiWindow => NotCounting(S, c + 1)
  <2>1. Counting(S, first, requests, c + 1)
    BY <1>3 DEF Counting
  <2>2. ASSUME c - first >= ApiWindow PROVE NotCounting(S, c + 1)
    <3>1. first + 1 \in Int /\ first + 1 <= c + 1 - ApiWindow
      BY <2>2
    <3>2. Cardinality(From(S, first + 1)) <= ApiLimit - 1
      BY <1>3 DEF Counting
    <3> QED BY <1>1, <3>1, <3>2
  <2> QED BY <2>1, <2>2
<1> QED BY <1>2, <1>3

\* So many requests fit in the last window.
LEMMA RequestBound ==
    ASSUME NEW S, NEW c \in Nat, Past(S, c)
    PROVE  /\ NotCounting(S, c) => Cardinality(From(S, c - ApiWindow)) < 2 * ApiLimit
           /\ \A first \in Nat, requests \in Nat \ {0} :
                 Counting(S, first, requests, c) /\ first < c =>
                    /\ Cardinality(From(S, c - ApiWindow)) < 2 * ApiLimit
                    /\ c - first < ApiWindow /\ requests + 1 > ApiLimit =>
                          Cardinality(From(S, c - ApiWindow)) >= ApiLimit
<1> DEFINE all == From(S, c - ApiWindow)
<1> USE WindowsAssumption DEF Limits!LimitsAssumption
<1>0. IsFiniteSet(all) /\ Cardinality(all) \in Nat
  BY PastIsFinite DEF From
<1>1. ASSUME NotCounting(S, c) PROVE Cardinality(all) < 2 * ApiLimit
  <2>1. Cardinality(all) <= ApiLimit - 1
    BY <1>1 DEF NotCounting
  <2> HIDE DEF all
  <2> QED BY <1>0, <2>1
<1>2. ASSUME NEW first \in Nat, NEW requests \in Nat \ {0}, Counting(S, first, requests, c), first < c
      PROVE  Cardinality(all) < 2 * ApiLimit
  <2> DEFINE A == From(S, first + 1)
             C == Between(S, first + 1 - ApiWindow, first)
  <2>1. all \subseteq (A \union C) \union {first}
    BY <1>2 DEF From, Between, Past
  <2>2. IsFiniteSet(A) /\ IsFiniteSet(C)
    BY PastIsFinite DEF From, Between
  <2>3. /\ IsFiniteSet(A \union C) /\ Cardinality(A \union C) <= Cardinality(A) + Cardinality(C)
        /\ Cardinality(A) \in Nat /\ Cardinality(C) \in Nat
    BY <2>2, BothTimes
  <2>4. /\ IsFiniteSet((A \union C) \union {first})
        /\ Cardinality((A \union C) \union {first}) <= Cardinality(A \union C) + 1
        /\ Cardinality(A \union C) \in Nat
    BY <2>3, OneMoreTime
  <2>5. /\ Cardinality(all) <= Cardinality((A \union C) \union {first})
        /\ Cardinality((A \union C) \union {first}) \in Nat
    BY <2>1, <2>4, FewerTimes
  <2>6. Cardinality(A) <= ApiLimit - 1 /\ Cardinality(C) <= ApiLimit - 1
    BY <1>2 DEF Counting
  <2> HIDE DEF A, C, all
  <2> QED BY <1>0, <2>3, <2>4, <2>5, <2>6
<1>3. ASSUME NEW first \in Nat, NEW requests \in Nat \ {0}, Counting(S, first, requests, c), first < c,
             c - first < ApiWindow, requests + 1 > ApiLimit
      PROVE  Cardinality(all) >= ApiLimit
  <2>1. From(S, first) \subseteq all
    BY <1>3 DEF From, Past
  <2>2. Cardinality(From(S, first)) <= Cardinality(all) /\ Cardinality(From(S, first)) \in Nat
    BY <1>0, <2>1, FewerTimes
  <2>3. Cardinality(From(S, first)) >= ApiLimit
    <3>1. Cardinality(From(S, first)) >= requests \/ Cardinality(From(S, first)) >= ApiLimit
      BY <1>3 DEF Counting
    <3> HIDE DEF all
    <3> QED BY <1>3, <2>2, <3>1
  <2> HIDE DEF all
  <2> QED BY <1>0, <2>2, <2>3
<1> QED BY <1>1, <1>2, <1>3

--------------------------------------------------------------------------------

\* What is known of one address: of its password checks, and of its requests to
\* the API.
LoginOK(a) ==
    /\ Past(passed[a], clock)
    /\ a \in DOMAIN failed =>
          /\ failed[a] \in [attempts : Nat \ {0}, first : Nat] /\ failed[a].first < clock
          /\ Known(passed[a], failed[a].first, failed[a].attempts, clock)
    /\ a \notin DOMAIN failed => Unknown(passed[a], clock)

ApiOK(a) ==
    /\ Past(asked[a], clock)
    /\ a \in DOMAIN windows =>
          /\ windows[a] \in [requests : Nat \ {0}, first : Nat] /\ windows[a].first < clock
          /\ Counting(asked[a], windows[a].first, windows[a].requests, clock)
    /\ a \notin DOMAIN windows => NotCounting(asked[a], clock)

LimitsInv ==
    /\ clock \in Nat
    /\ check \in [Checks -> SUBSET Addresses]
    /\ passed = [a \in Addresses |-> passed[a]] /\ asked = [a \in Addresses |-> asked[a]]
    /\ \A a \in Addresses : LoginOK(a) /\ ApiOK(a)

LEMMA LimitsStart == Limits!LimitsInit => LimitsInv
<1> SUFFICES ASSUME Limits!LimitsInit PROVE LimitsInv
  OBVIOUS
<1> USE WindowsAssumption DEF Limits!LimitsAssumption, Limits!LimitsInit
<1>1. clock = 0 /\ DOMAIN failed = {} /\ DOMAIN windows = {}
  OBVIOUS
<1>2. \A a \in Addresses : passed[a] = {} /\ asked[a] = {}
  OBVIOUS
<1>3. \A lo : From({}, lo) = {}
  BY DEF From
<1>4. \A lo : Cardinality(From({}, lo)) = 0
  BY <1>3, FS_EmptySet
<1>5. Unknown({}, clock) /\ NotCounting({}, clock) /\ Past({}, clock)
  BY <1>1, <1>4 DEF Unknown, NotCounting, Past
<1> QED BY <1>1, <1>2, <1>5 DEF LimitsInv, LoginOK, ApiOK

\* An address that does not ask keeps its entry, unless it is dropped as too old.
LEMMA LoginOfOthers ==
    ASSUME clock \in Nat, NEW a, LoginOK(a), passed'[a] = passed[a],
           clock' = clock \/ clock' = clock + 1,
           a \in DOMAIN failed' => a \in DOMAIN failed /\ failed'[a] = failed[a],
           a \in DOMAIN failed /\ a \notin DOMAIN failed' =>
               clock - failed[a].first > LoginWindow /\ clock' = clock + 1
    PROVE  LoginOK(a)'
<1>1. Past(passed[a], clock) /\ Past(passed'[a], clock')
  BY DEF LoginOK, Past
<1>2. CASE a \in DOMAIN failed'
  <2>1. /\ a \in DOMAIN failed /\ failed'[a] = failed[a]
        /\ failed[a] \in [attempts : Nat \ {0}, first : Nat] /\ failed[a].first < clock
        /\ Known(passed[a], failed[a].first, failed[a].attempts, clock)
    BY <1>2 DEF LoginOK
  <2>2. failed[a].attempts \in Nat /\ failed[a].first \in Nat /\ failed[a].first < clock'
    BY <2>1
  <2>3. Known(passed[a], failed[a].first, failed[a].attempts, clock')
    BY <1>1, <2>1, <2>2, LoginTimePasses
  <2> QED BY <1>1, <1>2, <2>1, <2>2, <2>3 DEF LoginOK
<1>3. CASE a \notin DOMAIN failed'
  <2>1. CASE a \notin DOMAIN failed
    <3>1. Unknown(passed[a], clock')
      BY <1>1, <2>1, LoginTimePasses DEF LoginOK
    <3> QED BY <1>1, <1>3, <3>1 DEF LoginOK
  <2>2. CASE a \in DOMAIN failed
    <3>1. /\ failed[a] \in [attempts : Nat \ {0}, first : Nat]
          /\ Known(passed[a], failed[a].first, failed[a].attempts, clock)
          /\ clock - failed[a].first > LoginWindow /\ clock' = clock + 1
      BY <1>3, <2>2 DEF LoginOK
    <3>2. failed[a].attempts \in Nat \ {0} /\ failed[a].first \in Nat
      BY <3>1
    <3>3. Unknown(passed[a], clock')
      BY <1>1, <3>1, <3>2, LateAttempt
    <3> QED BY <1>1, <1>3, <3>3 DEF LoginOK
  <2> QED BY <2>1, <2>2
<1> QED BY <1>2, <1>3

LEMMA ApiOfOthers ==
    ASSUME clock \in Nat, NEW a, ApiOK(a), asked'[a] = asked[a],
           clock' = clock \/ clock' = clock + 1,
           a \in DOMAIN windows' => a \in DOMAIN windows /\ windows'[a] = windows[a],
           a \in DOMAIN windows /\ a \notin DOMAIN windows' =>
               clock - windows[a].first >= ApiWindow /\ clock' = clock + 1
    PROVE  ApiOK(a)'
<1>1. Past(asked[a], clock) /\ Past(asked'[a], clock')
  BY DEF ApiOK, Past
<1>2. CASE a \in DOMAIN windows'
  <2>1. /\ a \in DOMAIN windows /\ windows'[a] = windows[a]
        /\ windows[a] \in [requests : Nat \ {0}, first : Nat] /\ windows[a].first < clock
        /\ Counting(asked[a], windows[a].first, windows[a].requests, clock)
    BY <1>2 DEF ApiOK
  <2>2. windows[a].requests \in Nat /\ windows[a].first \in Nat /\ windows[a].first < clock'
    BY <2>1
  <2>3. Counting(asked[a], windows[a].first, windows[a].requests, clock')
    BY <1>1, <2>1, <2>2, RequestTimePasses
  <2> QED BY <1>1, <1>2, <2>1, <2>2, <2>3 DEF ApiOK
<1>3. CASE a \notin DOMAIN windows'
  <2>1. CASE a \notin DOMAIN windows
    <3>1. NotCounting(asked[a], clock')
      BY <1>1, <2>1, RequestTimePasses DEF ApiOK
    <3> QED BY <1>1, <1>3, <3>1 DEF ApiOK
  <2>2. CASE a \in DOMAIN windows
    <3>1. /\ windows[a] \in [requests : Nat \ {0}, first : Nat]
          /\ Counting(asked[a], windows[a].first, windows[a].requests, clock)
          /\ clock - windows[a].first >= ApiWindow /\ clock' = clock + 1
      BY <1>3, <2>2 DEF ApiOK
    <3>2. windows[a].requests \in Nat /\ windows[a].first \in Nat
      BY <3>1
    <3>3. NotCounting(asked[a], clock')
      BY <1>1, <3>1, <3>2, RequestTimePasses
    <3> QED BY <1>1, <1>3, <3>3 DEF ApiOK
  <2> QED BY <2>1, <2>2
<1> QED BY <1>2, <1>3

LEMMA CheckPasswordKeeps ==
    ASSUME LimitsInv, NEW r \in Checks, NEW a \in Addresses, Limits!CheckPassword(r, a)
    PROVE  LimitsInv'
<1>1. /\ clock \in Nat /\ clock' = clock + 1 /\ windows' = windows /\ asked' = asked
      /\ check' = [check EXCEPT ![r] = {a}]
      /\ passed' = [passed EXCEPT ![a] = Limits!Since(passed[a], LoginWindow) \union {clock}]
      /\ failed' = Limits!Counted(a) /\ ~Limits!Exhausted(a)
  BY DEF LimitsInv, Limits!CheckPassword, Limits!Advance
<1>2. /\ passed' = [x \in Addresses |-> passed'[x]]
      /\ \A x \in Addresses \ {a} : passed'[x] = passed[x]
      /\ passed'[a] = From(passed[a], clock - LoginWindow) \union {clock}
  BY <1>1 DEF LimitsInv, Limits!Since, From
<1>3. \A x \in Addresses : LoginOK(x) /\ ApiOK(x)
  BY DEF LimitsInv
<1>4. \A x \in Addresses : ApiOK(x)'
  BY <1>1, <1>3, ApiOfOthers
<1>5. Past(passed[a], clock) /\ Past(passed'[a], clock')
  BY <1>1, <1>2, <1>3, PassedNow, WindowsAssumption DEF LoginOK, Limits!LimitsAssumption
<1>6. \A x \in Addresses : LoginOK(x)'
  <2>1. CASE a \notin DOMAIN failed
    <3>1. failed' = Limits!Put(failed, a, [attempts |-> 1, first |-> clock])
      BY <1>1, <2>1 DEF Limits!Counted
    <3>2. /\ DOMAIN failed' = DOMAIN failed \union {a}
          /\ failed'[a] = [attempts |-> 1, first |-> clock]
          /\ \A x \in DOMAIN failed : failed'[x] = failed[x]
      BY <2>1, <3>1 DEF Limits!Put
    <3>3. LoginOK(a)'
      <4>1. Known(passed'[a], clock, 1, clock')
        BY <1>1, <1>2, <1>3, <1>5, <2>1, FirstAttempt DEF LoginOK
      <4> QED BY <1>1, <1>5, <3>2, <4>1 DEF LoginOK
    <3>4. \A x \in Addresses \ {a} : LoginOK(x)'
      BY <1>1, <1>2, <1>3, <3>2, LoginOfOthers
    <3> QED BY <3>3, <3>4
  <2>2. CASE a \in DOMAIN failed
    <3>1. failed' = Limits!Dropped([failed EXCEPT ![a].attempts = @ + 1], Limits!AgedOut(failed))
      BY <1>1, <2>2 DEF Limits!Counted
    <3>2. /\ failed[a] \in [attempts : Nat \ {0}, first : Nat] /\ failed[a].first < clock
          /\ Known(passed[a], failed[a].first, failed[a].attempts, clock)
      BY <1>3, <2>2 DEF LoginOK
    <3>3. failed[a].attempts \in Nat \ {0} /\ failed[a].first \in Nat
      BY <3>2
    <3>4. Limits!AgedOut(failed) = {x \in DOMAIN failed : clock - failed[x].first > LoginWindow}
      BY DEF Limits!AgedOut, Limits!Elapsed
    <3>5. DOMAIN failed' = DOMAIN failed \ Limits!AgedOut(failed)
      BY <3>1 DEF Limits!Dropped
    <3>6. \A x \in DOMAIN failed' \ {a} : failed'[x] = failed[x]
      BY <3>1, <3>5 DEF Limits!Dropped
    <3>7. \A x \in Addresses \ {a} : LoginOK(x)'
      BY <1>1, <1>2, <1>3, <3>4, <3>5, <3>6, LoginOfOthers
    <3>8. CASE a \in DOMAIN failed'
      <4>1. /\ failed'[a] = [attempts |-> failed[a].attempts + 1, first |-> failed[a].first]
            /\ ~(clock - failed[a].first > LoginWindow)
        BY <2>2, <3>1, <3>2, <3>4, <3>5, <3>8 DEF Limits!Dropped
      <4>2. clock - failed[a].first <= LoginWindow
        BY <1>1, <3>3, <4>1, WindowsAssumption DEF Limits!LimitsAssumption
      <4>3. clock - failed[a].first < LoginWindow => failed[a].attempts < MaxAttempts
        BY <1>1, <2>2, <3>3, WindowsAssumption DEF Limits!Exhausted, Limits!Elapsed, Limits!LimitsAssumption
      <4>4. Known(passed'[a], failed[a].first, failed[a].attempts + 1, clock')
        BY <1>1, <1>2, <1>5, <3>2, <3>3, <4>2, <4>3, NextAttempt
      <4>5. /\ failed'[a] \in [attempts : Nat \ {0}, first : Nat] /\ failed'[a].first < clock'
            /\ failed'[a].first = failed[a].first /\ failed'[a].attempts = failed[a].attempts + 1
        BY <1>1, <3>2, <3>3, <4>1
      <4>6. LoginOK(a)'
        BY <1>5, <3>8, <4>4, <4>5 DEF LoginOK
      <4> QED BY <3>7, <4>6
    <3>9. CASE a \notin DOMAIN failed'
      <4>1. clock - failed[a].first > LoginWindow
        BY <2>2, <3>4, <3>5, <3>9
      <4>2. Unknown(passed'[a], clock')
        BY <1>1, <1>2, <1>5, <3>2, <3>3, <4>1, LateAttempt
      <4>3. LoginOK(a)'
        BY <1>5, <3>9, <4>2 DEF LoginOK
      <4> QED BY <3>7, <4>3
    <3> QED BY <3>8, <3>9
  <2> QED BY <2>1, <2>2
<1>7. check' \in [Checks -> SUBSET Addresses]
  BY <1>1 DEF LimitsInv
<1> QED BY <1>1, <1>2, <1>4, <1>6, <1>7 DEF LimitsInv

LEMMA AnsweredKeeps ==
    ASSUME LimitsInv, NEW r \in Checks, Limits!WrongPassword(r) \/ Limits!RightPassword(r)
    PROVE  LimitsInv'
<1>1. /\ clock \in Nat /\ clock' = clock /\ windows' = windows /\ asked' = asked
      /\ check' = [check EXCEPT ![r] = {}]
      /\ \A a \in Addresses : LoginOK(a) /\ ApiOK(a)
  BY DEF LimitsInv, Limits!WrongPassword, Limits!RightPassword
<1>2. \A a \in Addresses : ApiOK(a)'
  BY <1>1, ApiOfOthers
<1>3. CASE Limits!WrongPassword(r)
  <2>1. passed' = passed /\ failed' = failed
    BY <1>3 DEF Limits!WrongPassword
  <2>2. \A a \in Addresses : LoginOK(a)'
    BY <1>1, <2>1, LoginOfOthers
  <2> QED BY <1>1, <1>2, <2>1, <2>2 DEF LimitsInv
<1>4. CASE Limits!RightPassword(r)
  <2>1. /\ failed' = Limits!Dropped(failed, check[r])
        /\ passed' = [a \in Addresses |-> IF a \in check[r] THEN {} ELSE passed[a]]
    BY <1>4 DEF Limits!RightPassword
  <2>2. /\ DOMAIN failed' = DOMAIN failed \ check[r]
        /\ \A a \in DOMAIN failed' : failed'[a] = failed[a]
    BY <2>1 DEF Limits!Dropped
  <2>3. ASSUME NEW a \in Addresses PROVE LoginOK(a)'
    <3>1. CASE a \in check[r]
      <4>1. passed'[a] = {} /\ a \notin DOMAIN failed'
        BY <2>1, <2>2, <3>1
      <4>2. \A lo : From({}, lo) = {}
        BY DEF From
      <4>3. Cardinality(From({}, clock - LoginWindow)) = 0
        BY <4>2, FS_EmptySet
      <4>4. Unknown({}, clock) /\ Past({}, clock)
        BY <4>3, WindowsAssumption DEF Unknown, Past, Limits!LimitsAssumption
      <4> QED BY <1>1, <4>1, <4>4 DEF LoginOK
    <3>2. CASE a \notin check[r]
      <4>1. /\ passed'[a] = passed[a]
            /\ a \in DOMAIN failed' <=> a \in DOMAIN failed
            /\ a \in DOMAIN failed => failed'[a] = failed[a]
        BY <2>1, <2>2, <3>2
      <4> QED BY <1>1, <4>1, LoginOfOthers
    <3> QED BY <3>1, <3>2
  <2> QED BY <1>1, <1>2, <2>1, <2>3 DEF LimitsInv
<1> QED BY <1>3, <1>4

LEMMA AskApiPageKeeps ==
    ASSUME LimitsInv, NEW a \in Addresses, Limits!AskApiPage(a)
    PROVE  LimitsInv'
<1>1. /\ clock \in Nat /\ clock' = clock + 1 /\ failed' = failed /\ passed' = passed
      /\ check' = check /\ \A x \in Addresses : LoginOK(x) /\ ApiOK(x)
      /\ asked' = [asked EXCEPT ![a] = Limits!Since(asked[a], ApiWindow)
                                          \union (IF Limits!OverLimit(a) THEN {} ELSE {clock})]
      /\ windows' = IF Limits!WindowOver(a) THEN Limits!NewWindow(a)
                    ELSE [windows EXCEPT ![a].requests = @ + 1]
  BY DEF LimitsInv, Limits!AskApiPage, Limits!Advance
<1> DEFINE old == From(asked[a], clock - ApiWindow)
<1>2. /\ asked' = [x \in Addresses |-> asked'[x]]
      /\ \A x \in Addresses \ {a} : asked'[x] = asked[x]
      /\ asked'[a] = old \union (IF Limits!OverLimit(a) THEN {} ELSE {clock})
  BY <1>1 DEF LimitsInv, Limits!Since, From
<1>3. \A x \in Addresses : LoginOK(x)'
  BY <1>1, LoginOfOthers
<1>4. Past(asked[a], clock) /\ Past(asked'[a], clock')
  <2>1. Past(asked[a], clock)
    BY <1>1 DEF ApiOK
  <2>2. Past(old, clock') /\ Past(old \union {clock}, clock')
    BY <1>1, <2>1, PassedNow, WindowsAssumption DEF Limits!LimitsAssumption
  <2> QED BY <1>2, <2>1, <2>2
<1>5. CASE Limits!WindowOver(a)
  <2>1. ~Limits!OverLimit(a) /\ asked'[a] = old \union {clock}
    BY <1>2, <1>5 DEF Limits!OverLimit
  <2>2. PICK with : with = Limits!Put(windows, a, [requests |-> 1, first |-> clock])
    OBVIOUS
  <2>3. /\ DOMAIN with = DOMAIN windows \union {a}
        /\ with[a] = [requests |-> 1, first |-> clock]
        /\ \A x \in DOMAIN windows \ {a} : with[x] = windows[x]
    BY <2>2 DEF Limits!Put
  <2>4. windows' = Limits!Dropped(with, {x \in DOMAIN with : clock - with[x].first >= ApiWindow})
    BY <1>1, <1>5, <2>2 DEF Limits!NewWindow, Limits!Elapsed
  <2>5. /\ DOMAIN windows' = DOMAIN with \ {x \in DOMAIN with : clock - with[x].first >= ApiWindow}
        /\ \A x \in DOMAIN windows' : windows'[x] = with[x]
    BY <2>4 DEF Limits!Dropped
  <2>6. \A x \in Addresses \ {a} : ApiOK(x)'
    BY <1>1, <1>2, <2>3, <2>5, ApiOfOthers
  <2>7. a \in DOMAIN windows' /\ windows'[a] = [requests |-> 1, first |-> clock]
    BY <1>1, <2>3, <2>5, WindowsAssumption DEF Limits!LimitsAssumption
  <2>8. Counting(asked'[a], clock, 1, clock')
    <3>1. CASE a \notin DOMAIN windows
      BY <1>1, <1>4, <2>1, <3>1, FirstRequest DEF ApiOK
    <3>2. CASE a \in DOMAIN windows
      <4>1. /\ windows[a] \in [requests : Nat \ {0}, first : Nat]
            /\ Counting(asked[a], windows[a].first, windows[a].requests, clock)
        BY <1>1, <3>2 DEF ApiOK
      <4>2. windows[a].first \in Nat /\ windows[a].requests \in Nat
        BY <4>1
      <4>3. clock - windows[a].first >= ApiWindow
        BY <1>5, <3>2 DEF Limits!WindowOver, Limits!Elapsed
      <4> QED BY <1>1, <1>4, <2>1, <4>1, <4>2, <4>3, FirstRequest
    <3> QED BY <3>1, <3>2
  <2>9. ApiOK(a)'
    BY <1>1, <1>4, <2>7, <2>8 DEF ApiOK
  <2> QED BY <1>1, <1>2, <1>3, <2>6, <2>9 DEF LimitsInv
<1>6. CASE ~Limits!WindowOver(a)
  <2>1. a \in DOMAIN windows /\ ~(clock - windows[a].first >= ApiWindow)
    BY <1>6 DEF Limits!WindowOver, Limits!Elapsed
  <2>2. /\ windows[a] \in [requests : Nat \ {0}, first : Nat] /\ windows[a].first < clock
        /\ Counting(asked[a], windows[a].first, windows[a].requests, clock)
    BY <1>1, <2>1 DEF ApiOK
  <2>3. windows[a].first \in Nat /\ windows[a].requests \in Nat \ {0}
    BY <2>2
  <2>4. clock - windows[a].first < ApiWindow
    BY <1>1, <2>1, <2>3, WindowsAssumption DEF Limits!LimitsAssumption
  <2>5. windows' = [windows EXCEPT ![a].requests = @ + 1]
    BY <1>1, <1>6
  <2>6. /\ DOMAIN windows' = DOMAIN windows
        /\ windows'[a] = [requests |-> windows[a].requests + 1, first |-> windows[a].first]
        /\ \A x \in DOMAIN windows \ {a} : windows'[x] = windows[x]
    BY <2>1, <2>2, <2>5
  <2>7. \A x \in Addresses \ {a} : ApiOK(x)'
    BY <1>1, <1>2, <2>6, ApiOfOthers
  <2>8. Limits!OverLimit(a) <=> windows[a].requests + 1 > ApiLimit
    BY <1>6 DEF Limits!OverLimit
  <2>9. asked'[a] = old \union (IF windows[a].requests + 1 > ApiLimit THEN {} ELSE {clock})
    BY <1>2, <2>8
  <2>10. Counting(asked'[a], windows[a].first, windows[a].requests + 1, clock')
    BY <1>1, <1>4, <2>2, <2>3, <2>4, <2>9, NextRequest
  <2>11. /\ windows'[a] \in [requests : Nat \ {0}, first : Nat] /\ windows'[a].first < clock'
         /\ windows'[a].first = windows[a].first /\ windows'[a].requests = windows[a].requests + 1
    BY <1>1, <2>2, <2>3, <2>6
  <2>12. ApiOK(a)'
    BY <1>4, <2>1, <2>6, <2>10, <2>11 DEF ApiOK
  <2> QED BY <1>1, <1>2, <1>3, <2>7, <2>12 DEF LimitsInv
<1> QED BY <1>5, <1>6

LEMMA LimitsStepKeeps ==
    ASSUME LimitsInv, Limits!LoginLimitNext \/ Limits!ApiLimitNext \/ UNCHANGED limitVars
    PROVE  LimitsInv'
<1>1. CASE Limits!Wait \/ UNCHANGED limitVars
  <2>1. /\ UNCHANGED <<failed, windows, check, passed, asked>> /\ clock \in Nat
        /\ clock' = clock \/ clock' = clock + 1
        /\ \A a \in Addresses : LoginOK(a) /\ ApiOK(a)
    BY <1>1 DEF Limits!Wait, Limits!Advance, limitVars, LimitsInv
  <2>2. \A a \in Addresses : LoginOK(a)' /\ ApiOK(a)'
    BY <2>1, LoginOfOthers, ApiOfOthers
  <2> QED BY <2>1, <2>2 DEF LimitsInv
<1>2. ASSUME NEW r \in Checks,
             (\E a \in Addresses : Limits!CheckPassword(r, a))
                \/ Limits!WrongPassword(r) \/ Limits!RightPassword(r)
      PROVE  LimitsInv'
  BY <1>2, CheckPasswordKeeps, AnsweredKeeps
<1>3. ASSUME NEW a \in Addresses, Limits!AskApiPage(a) PROVE LimitsInv'
  BY <1>3, AskApiPageKeeps
<1> QED BY <1>1, <1>2, <1>3 DEF Limits!LoginLimitNext, Limits!ApiLimitNext

LEMMA LimitSteps ==
    [AccessNext]_accessVars =>
        Limits!LoginLimitNext \/ Limits!ApiLimitNext \/ UNCHANGED limitVars
  BY DEF AccessNext, accessVars

LEMMA LimitsAlways == AccessSpec => []LimitsInv
<1>1. AccessInit => LimitsInv
  BY LimitsStart DEF AccessInit
<1>2. LimitsInv /\ [AccessNext]_accessVars => LimitsInv'
  BY LimitsStepKeeps, LimitSteps
<1> QED BY <1>1, <1>2, PTL DEF AccessSpec

LEMMA LimitsCardinality == \A S : Limits!Cardinality(S) = Cardinality(S)
  BY DEF Limits!Cardinality, Cardinality

\* What the bounds of an address are, in the words of RequestLimits.
LEMMA LimitsOf ==
    ASSUME LimitsInv, NEW a \in Addresses
    PROVE  /\ Limits!Cardinality(Limits!Since(passed[a], LoginWindow)) <= 2 * MaxAttempts + 1
           /\ Limits!Cardinality(Limits!Since(asked[a], ApiWindow)) < 2 * ApiLimit
           /\ Limits!Exhausted(a) =>
                 Limits!Cardinality(Limits!Since(passed[a], LoginWindow)) >= MaxAttempts
           /\ Limits!OverLimit(a) =>
                 Limits!Cardinality(Limits!Since(asked[a], ApiWindow)) >= ApiLimit
<1> DEFINE logins == From(passed[a], clock - LoginWindow)
           requests == From(asked[a], clock - ApiWindow)
<1>1. /\ Limits!Cardinality(Limits!Since(passed[a], LoginWindow)) = Cardinality(logins)
      /\ Limits!Cardinality(Limits!Since(asked[a], ApiWindow)) = Cardinality(requests)
  BY LimitsCardinality DEF Limits!Since, From
<1>2. clock \in Nat /\ Past(passed[a], clock) /\ Past(asked[a], clock) /\ LoginOK(a) /\ ApiOK(a)
  BY DEF LimitsInv, LoginOK, ApiOK
<1>3. Cardinality(logins) \in Nat /\ Cardinality(requests) \in Nat
  BY <1>2, PastIsFinite DEF From
<1>4. /\ Cardinality(logins) <= 2 * MaxAttempts + 1
      /\ Limits!Exhausted(a) => Cardinality(logins) >= MaxAttempts
  <2>1. CASE a \notin DOMAIN failed
    BY <1>2, <2>1, LoginBound DEF LoginOK, Limits!Exhausted
  <2>2. CASE a \in DOMAIN failed
    <3>1. /\ failed[a].attempts \in Nat \ {0} /\ failed[a].first \in Nat /\ failed[a].first < clock
          /\ Known(passed[a], failed[a].first, failed[a].attempts, clock)
      BY <1>2, <2>2 DEF LoginOK
    <3>2. /\ Cardinality(logins) <= 2 * MaxAttempts + 1
          /\ clock - failed[a].first < LoginWindow => Cardinality(logins) >= failed[a].attempts
      BY <1>2, <3>1, LoginBound
    <3>3. Limits!Exhausted(a) => clock - failed[a].first < LoginWindow /\ failed[a].attempts >= MaxAttempts
      BY DEF Limits!Exhausted, Limits!Elapsed
    <3> HIDE DEF logins
    <3> QED BY <1>3, <3>1, <3>2, <3>3, WindowsAssumption DEF Limits!LimitsAssumption
  <2> QED BY <2>1, <2>2
<1>5. /\ Cardinality(requests) < 2 * ApiLimit
      /\ Limits!OverLimit(a) => Cardinality(requests) >= ApiLimit
  <2>1. CASE a \notin DOMAIN windows
    BY <1>2, <2>1, RequestBound DEF ApiOK, Limits!OverLimit, Limits!WindowOver
  <2>2. CASE a \in DOMAIN windows
    <3>1. /\ windows[a].requests \in Nat \ {0} /\ windows[a].first \in Nat /\ windows[a].first < clock
          /\ Counting(asked[a], windows[a].first, windows[a].requests, clock)
      BY <1>2, <2>2 DEF ApiOK
    <3>2. Limits!OverLimit(a) => ~(clock - windows[a].first >= ApiWindow) /\ windows[a].requests + 1 > ApiLimit
      BY <2>2 DEF Limits!OverLimit, Limits!WindowOver, Limits!Elapsed
    <3>3. Limits!OverLimit(a) => clock - windows[a].first < ApiWindow
      BY <1>2, <3>1, <3>2, WindowsAssumption DEF Limits!LimitsAssumption
    <3> QED BY <1>2, <3>1, <3>2, <3>3, RequestBound
  <2> QED BY <2>1, <2>2
<1> QED BY <1>1, <1>4, <1>5

\* An address gets at most twice MaxAttempts and one more password checks in any
\* LoginWindow without a login, and fewer than twice the limit of the API in any
\* ApiWindow, however many requests overlap and whatever other addresses ask
\* (checkAuthRateLimit, apiExceededRateLimit).
THEOREM LimitsHoldHolds == AccessSpec => []LimitsHold
<1>1. LimitsInv => LimitsHold
  BY LimitsOf DEF LimitsHold, Limits!LimitsHold
<1> QED BY <1>1, LimitsAlways, PTL

LEMMA WholeSeconds ==
    ASSUME NEW x \in Int, NEW s \in Nat \ {0}
    PROVE  (x \div s) \in Int /\ (x \div s + 1) * s > x /\ (x \div s < 1 => 2 * s > x)
OBVIOUS

\* Whoever is refused asked too often itself, within the window, and is let
\* through when it waits as long as it is told and a second more (checkAuthRateLimit,
\* apiExceededRateLimit).
THEOREM RefusalsAreFairHolds == AccessSpec => []RefusalsAreFair
<1>1. LimitsInv => RefusalsAreFair
  <2> SUFFICES ASSUME LimitsInv, NEW a \in Addresses, Limits!Exhausted(a)
               PROVE  (Limits!RetryAfter(LoginWindow, Limits!Elapsed(failed, a)) + 1) * Second
                         > LoginWindow - Limits!Elapsed(failed, a)
    BY LimitsOf DEF RefusalsAreFair, Limits!RefusalsAreFair
  <2>1. PICK x : x = LoginWindow - Limits!Elapsed(failed, a)
    OBVIOUS
  <2>2. a \in DOMAIN failed /\ clock \in Nat /\ LoginOK(a)
    BY DEF Limits!Exhausted, LimitsInv
  <2>3. failed[a].first \in Nat
    BY <2>2 DEF LoginOK
  <2>4. x \in Int /\ Second \in Nat \ {0}
    BY <2>1, <2>2, <2>3, WindowsAssumption DEF Limits!Elapsed, Limits!LimitsAssumption
  <2>5. x \div Second \in Int /\ (x \div Second + 1) * Second > x /\ (x \div Second < 1 => 2 * Second > x)
    BY <2>4, WholeSeconds
  <2>6. Limits!RetryAfter(LoginWindow, Limits!Elapsed(failed, a))
           = IF x \div Second < 1 THEN 1 ELSE x \div Second
    BY <2>1 DEF Limits!RetryAfter
  <2> QED BY <2>1, <2>4, <2>5, <2>6
<1> QED BY <1>1, LimitsAlways, PTL

--------------------------------------------------------------------------------
\* What a request is answered with.

Distinct == INSTANCE SlugProofs

LEMMA RouteSteps == [AccessNext]_accessVars => [Routes!RoutesNext]_routeVars
  BY DEF AccessNext, accessVars

LEMMA SameSlugs ==
    ASSUME NEW bases PROVE Routes!SlugsFor(bases) = Distinct!SlugsFor(bases)
<1>1. \A slug, taken : Routes!FirstFree(slug, taken) = Distinct!FirstFree(slug, taken)
  BY DEF Routes!FirstFree, Distinct!FirstFree, Routes!Cardinality, Distinct!Cardinality
<1> QED BY <1>1 DEF Routes!SlugsFor, Distinct!SlugsFor

\* newApplication gives no slug twice, so a slug stands for one page.
LEMMA OnePagePerSlug ==
    ASSUME NEW c \in DOMAIN Settings, NEW i \in Routes!PagesOf(c), NEW j \in Routes!PagesOf(c),
           Routes!SlugsOf(c)[i] = Routes!SlugsOf(c)[j]
    PROVE  i = j
<1> DEFINE pages == Settings[c].pages
           n == Len(pages)
           bases == [k \in Routes!PagesOf(c) |-> pages[k].slug]
           wordsOf(slug) == {slug[p] : p \in DOMAIN slug}
           words == Nat \cup UNION {wordsOf(pages[k].slug) : k \in Routes!PagesOf(c)}
<1>1. Routes!PagesOf(c) = 1..n /\ n \in Nat
  BY SettingsAssumption DEF Routes!SettingsAssumption, Routes!Sequence, Routes!PagesOf
<1>2. ASSUME NEW k \in Routes!PagesOf(c) PROVE pages[k].slug \in Seq(words)
  <2>1. pages[k].slug \in Seq(wordsOf(pages[k].slug))
    BY SettingsAssumption DEF Routes!SettingsAssumption, Routes!Sequence
  <2>2. wordsOf(pages[k].slug) \subseteq words
    OBVIOUS
  <2> HIDE DEF words, wordsOf
  <2> QED BY <2>1, <2>2, Distinct!AmongWords
<1> Nat \subseteq words
  OBVIOUS
<1> HIDE DEF n, words
<1>3. bases \in Seq(Seq(words)) /\ Len(bases) = n
  BY <1>1, <1>2
<1>4. Distinct!GoodSlugs(Distinct!SlugsFor(bases), bases, n, words)
  BY <1>3, Distinct!SlugsAreDistinct
<1>5. Distinct!SlugsFor(bases) = Routes!SlugsOf(c)
  BY SameSlugs DEF Routes!SlugsOf
<1> QED BY <1>1, <1>4, <1>5 DEF Distinct!GoodSlugs

LEMMA SlugMeansPage ==
    ASSUME site.c \in DOMAIN Settings, NEW i \in Routes!PagesOf(site.c)
    PROVE  Routes!SlugToPage(Routes!SlugsOf(site.c)[i]) = {i}
<1> DEFINE slug == Routes!SlugsOf(site.c)[i]
           found == {j \in Routes!PagesOf(site.c) : Routes!SlugsOf(site.c)[j] = slug}
<1>1. found = {i}
  BY OnePagePerSlug
<1> QED BY <1>1 DEF Routes!SlugToPage

\* The two ways to say who may read a page.
LEMMA ReadersMayRead ==
    ASSUME NEW u, NEW i
    PROVE  /\ Routes!CanAccess(u, i) <=> Routes!MayRead(u, i)
           /\ Routes!ApiCanRead(u, i) <=>
                 (Routes!Restricted(site.c, i) /\ Routes!Config.enforce => Routes!MayRead(u, i))
  BY DEF Routes!CanAccess, Routes!MayRead, Routes!ApiCanRead, Routes!AllowedOnPage,
         Routes!RequiresAuth

\* todoListIDToPage has a page for every list that is on one.
LEMMA ListsHavePages ==
    ASSUME site.c \in DOMAIN Settings, NEW l, NEW i \in Routes!PagesOf(site.c), l \in Routes!ListsOn(i)
    PROVE  Routes!ListToPage(l) # {}
<1> DEFINE on == {j \in Routes!PagesOf(site.c) : l \in Routes!ListsOn(j)}
           n == Len(Settings[site.c].pages)
           T == {n - j : j \in on}
<1>1. Routes!PagesOf(site.c) = 1..n /\ n \in Nat
  BY SettingsAssumption DEF Routes!SettingsAssumption, Routes!Sequence, Routes!PagesOf
<1>2. i \in on /\ on \subseteq 1..n
  BY <1>1
<1> HIDE DEF n, on
<1>3. T # {} /\ T \subseteq Nat
  BY <1>1, <1>2
<1>4. PICK m \in T : \A y \in T : m <= y
  <2> HIDE DEF T
  <2> QED BY <1>3, Distinct!Least
<1>5. PICK k \in on : m = n - k
  BY <1>4
<1>6. \A j \in on : j <= k
  <2> TAKE j \in on
  <2>1. n - k <= n - j
    BY <1>4, <1>5
  <2> QED BY <1>1, <1>2, <2>1
<1> QED BY <1>5, <1>6 DEF Routes!ListToPage, on

--------------------------------------------------------------------------------
\* What a browser keeps of this application is true of it; what it keeps of an
\* earlier one has numbers that this one does not give.
ScreenOK(b) ==
    /\ screen[b] = Routes!NoPage \/ screen[b].gen \in 0..site.gen
    /\ screen[b] # Routes!NoPage =>
          /\ screen[b].c \in DOMAIN Settings /\ screen[b].first \in Nat
          /\ screen[b].gen # site.gen =>
                screen[b].first + Len(Settings[screen[b].c].order) <= site.first
          /\ Routes!Fresh(b) =>
                /\ screen[b].c = site.c /\ screen[b].first = site.first
                /\ screen[b].page \in Routes!PagesOf(site.c)
                /\ screen[b].links \subseteq Routes!PagesOf(site.c)

GoalOK(b) ==
    goal[b] # None =>
        /\ goal[b].gen \in 0..site.gen
        /\ goal[b].gen = site.gen => goal[b].page = Routes!SlugToPage(goal[b].slug)

RoutesInv ==
    /\ site = [c |-> site.c, first |-> site.first, gen |-> site.gen]
    /\ site.c \in DOMAIN Settings /\ site.first \in Nat /\ site.gen \in Nat
    /\ Settings[site.c].pages # << >>
    /\ screen = [b \in Visitors |-> screen[b]] /\ goal = [b \in Visitors |-> goal[b]]
    /\ \A b \in Visitors : ScreenOK(b) /\ GoalOK(b)
    /\ Routes!AnswersAreDeserved

LEMMA RoutesStart == ASSUME Routes!RoutesInit PROVE RoutesInv
<1>1. site = [c |-> 1, first |-> 0, gen |-> 0] /\ replies = {}
  BY DEF Routes!RoutesInit
<1>2. \A b \in Visitors : screen[b] = Routes!NoPage /\ goal[b] = None
  BY DEF Routes!RoutesInit
<1>3. Routes!AnswersAreDeserved
  BY <1>1 DEF Routes!AnswersAreDeserved
<1>4. 1 \in DOMAIN Settings /\ Settings[1].pages # << >>
  BY SettingsAssumption DEF Routes!SettingsAssumption
<1>5. \A b \in Visitors : ScreenOK(b) /\ GoalOK(b)
  BY <1>2 DEF ScreenOK, GoalOK
<1> QED BY <1>1, <1>3, <1>4, <1>5 DEF RoutesInv, Routes!RoutesInit

\* One answer is as it should be.
Deserved(r) ==
    /\ r.got \subseteq r.want
    /\ r.how = "refused" => Routes!Config.token
    /\ r.how = "api" => \A x \in r.want :
           LET on == IF x \in Routes!PagesOf(site.c) THEN {x} ELSE Routes!PagesWith("widget", x)
           IN x \in r.got <=>
                  \E i \in on :
                      /\ Routes!Exposed(i)
                      /\ Routes!Restricted(site.c, i) /\ Routes!Config.enforce => Routes!MayRead(r.by, i)
    /\ r.how \notin {"api", "refused"} => \A x \in r.want :
           /\ x \in r.got => \E i \in Routes!PagesWith(r.how, x) : Routes!MayRead(r.by, i)
           /\ (\A i \in Routes!PagesWith(r.how, x) : Routes!MayRead(r.by, i)) => x \in r.got

\* An answer of a running application, judged by what it is.
LEMMA Answering ==
    ASSUME site' = site, \A r \in replies' : Deserved(r)
    PROVE  Routes!AnswersAreDeserved'
<1>1. \A r : Deserved(r)' <=> Deserved(r)
  BY DEF Deserved, Routes!Config, Routes!PagesOf, Routes!PagesWith, Routes!Exposed,
         Routes!Restricted, Routes!MayRead, Routes!RequiresAuth, Routes!ListsOn, Routes!Widgets
<1>2. \A r \in replies' : Deserved(r)'
  BY <1>1
<1> QED BY <1>2 DEF Deserved, Routes!AnswersAreDeserved

\* A page is shown to those who may read it.
LEMMA PageIsDeserved ==
    ASSUME NEW u, NEW want, NEW how \in {"page", "content"}
    PROVE  Deserved([how |-> how, by |-> u, want |-> want,
                     got |-> {i \in want : Routes!CanAccess(u, i)}])
  BY ReadersMayRead DEF Deserved, Routes!PagesWith
\* Where a widget stands in the order of parsing, once.
LEMMA OrderFacts ==
    ASSUME NEW c \in DOMAIN Settings
    PROVE  /\ Len(Settings[c].order) \in Nat
           /\ DOMAIN Settings[c].order = 1..Len(Settings[c].order)
           /\ \A k \in DOMAIN Settings[c].order : k \in Nat /\ k <= Len(Settings[c].order)
<1> DEFINE order == Settings[c].order
<1>1. order \in Seq({order[k] : k \in DOMAIN order})
  BY SettingsAssumption DEF Routes!SettingsAssumption, Routes!Sequence
<1> QED BY <1>1

LEMMA WidgetIds ==
    ASSUME RoutesInv, NEW k \in DOMAIN Routes!Config.order
    PROVE  /\ Routes!Id(Routes!Config.order[k]) = site.first + k
           /\ Routes!WidgetById(site.first + k) = {Routes!Config.order[k]}
<1> DEFINE order == Routes!Config.order
<1>1. /\ \A j \in DOMAIN order : j \in Nat
      /\ \A i, j \in DOMAIN order : order[i] = order[j] => i = j
      /\ site.first \in Nat
  BY OrderFacts, SettingsAssumption DEF Routes!SettingsAssumption, RoutesInv, Routes!Config
<1> HIDE DEF order
<1>2. \A j \in DOMAIN order : (CHOOSE i \in DOMAIN order : order[i] = order[j]) = j
  BY <1>1
<1>3. \A j \in DOMAIN order : Routes!Id(order[j]) = site.first + j
  BY <1>2 DEF Routes!Id, order
<1>4. \A j \in DOMAIN order : site.first + j = site.first + k => j = k
  BY <1>1 DEF order
<1>5. Routes!WidgetById(site.first + k) = {w \in {order[j] : j \in DOMAIN order} : Routes!Id(w) = site.first + k}
  BY DEF Routes!WidgetById, order
<1>6. Routes!WidgetById(site.first + k) = {order[k]}
  BY <1>3, <1>4, <1>5 DEF order
<1> QED BY <1>3, <1>6 DEF order

\* Whoever asks for a widget of an earlier application gets none, and for one of
\* this gets that widget.
LEMMA WidgetIsDeserved ==
    ASSUME RoutesInv, NEW b \in Visitors, screen[b] # Routes!NoPage, NEW id \in Routes!IdsOn(b),
           NEW u, NEW how \in {"widget", "action"}
    PROVE  Deserved([how |-> how, by |-> u, want |-> Routes!WidgetMeant(b, id),
                     got |-> Routes!ServedWidget(u, id)])
<1> DEFINE r == [how |-> how, by |-> u, want |-> Routes!WidgetMeant(b, id),
                 got |-> Routes!ServedWidget(u, id)]
<1>1. ScreenOK(b) /\ site.first \in Nat /\ site.c \in DOMAIN Settings
  BY DEF RoutesInv
<1>2. PICK k \in DOMAIN Settings[screen[b].c].order :
          /\ id = screen[b].first + k
          /\ Settings[screen[b].c].order[k] \in Routes!Widgets(screen[b].c, screen[b].page)
  BY DEF Routes!IdsOn
<1>3. CASE Routes!Fresh(b)
  <2>1. PICK w : w = Routes!Config.order[k]
    OBVIOUS
  <2>2. screen[b].c = site.c /\ id = site.first + k /\ k \in DOMAIN Routes!Config.order
    BY <1>1, <1>2, <1>3 DEF ScreenOK, Routes!Config
  <2>3. Routes!WidgetById(id) = {w}
    BY <2>1, <2>2, WidgetIds
  <2>4. Routes!WidgetMeant(b, id) = {w}
    <3>1. id - site.first = k
      BY <1>1, <2>2, OrderFacts DEF Routes!Config
    <3> QED BY <1>3, <2>1, <3>1 DEF Routes!WidgetMeant
  <2>5. screen[b].page \in Routes!WidgetToPage(w)
    BY <1>1, <1>2, <1>3, <2>1, <2>2 DEF ScreenOK, Routes!WidgetToPage, Routes!Config
  <2>6. Routes!PagesWith(how, w) = Routes!WidgetToPage(w)
    BY DEF Routes!PagesWith, Routes!WidgetToPage
  <2>7. /\ w \in Routes!ServedWidget(u, id) <=>
             Routes!IsAuthorized(u) /\ \E i \in Routes!WidgetToPage(w) : Routes!CanAccess(u, i)
        /\ Routes!ServedWidget(u, id) \subseteq {w}
    BY <2>3 DEF Routes!ServedWidget
  <2>8. \A i : Routes!CanAccess(u, i) => Routes!IsAuthorized(u)
    BY DEF Routes!CanAccess, Routes!IsAuthorized
  <2>9. w \in r.got => \E i \in Routes!PagesWith(how, w) : Routes!MayRead(u, i)
    BY <2>6, <2>7, ReadersMayRead
  <2>10. (\A i \in Routes!PagesWith(how, w) : Routes!MayRead(u, i)) => w \in r.got
    BY <2>5, <2>6, <2>7, <2>8, ReadersMayRead
  <2>11. r.got \subseteq {w} /\ r.want = {w} /\ r.how = how /\ r.by = u
    BY <2>4, <2>7
  <2> HIDE DEF r
  <2>12. Deserved(r)
    BY <2>9, <2>10, <2>11 DEF Deserved
  <2> QED BY <2>12 DEF r
<1>4. CASE ~Routes!Fresh(b)
  <2>1. screen[b].gen # site.gen
    BY <1>4 DEF Routes!Fresh
  <2>2. id <= site.first /\ id \in Nat
    <3>1. screen[b].c \in DOMAIN Settings /\ screen[b].first \in Nat
      BY <1>1 DEF ScreenOK
    <3>2. PICK n \in Nat : n = Len(Settings[screen[b].c].order) /\ k <= n /\ k \in Nat
      BY <1>2, <3>1, OrderFacts
    <3>3. screen[b].first + n <= site.first
      BY <1>1, <2>1, <3>2 DEF ScreenOK
    <3>4. PICK first \in Nat, upto \in Nat : first = screen[b].first /\ upto = site.first
      BY <1>1, <3>1
    <3>5. first + n <= upto /\ id = first + k
      BY <1>2, <3>3, <3>4
    <3>6. id <= upto /\ id \in Nat
      BY <3>2, <3>5
    <3> QED BY <3>4, <3>6
  <2>3. Routes!WidgetById(id) = {}
    <3>1. \A j \in DOMAIN Routes!Config.order : j \in Nat /\ j # 0
      BY <1>1, OrderFacts DEF Routes!Config
    <3>2. \A j \in DOMAIN Routes!Config.order : Routes!Id(Routes!Config.order[j]) = site.first + j
      BY WidgetIds
    <3>3. \A j \in DOMAIN Routes!Config.order : Routes!Id(Routes!Config.order[j]) # id
      BY <1>1, <2>2, <3>1, <3>2
    <3> QED BY <3>3 DEF Routes!WidgetById
  <2>4. r.want = {} /\ r.got = {} /\ r.how = how
    BY <1>4, <2>3 DEF Routes!WidgetMeant, Routes!ServedWidget
  <2> HIDE DEF r
  <2>5. Deserved(r)
    BY <2>4 DEF Deserved
  <2> QED BY <2>5 DEF r
<1> QED BY <1>3, <1>4

LEMMA ListIsDeserved ==
    ASSUME RoutesInv, NEW u, NEW i \in Routes!PagesOf(site.c), NEW l \in Routes!ListsOn(i)
    PROVE  Deserved([how |-> "list", by |-> u, want |-> {l},
                     got |-> IF \E j \in Routes!ListToPage(l) : Routes!CanAccess(u, j) THEN {l} ELSE {}])
<1>1. Routes!PagesWith("list", l) = {j \in Routes!PagesOf(site.c) : l \in Routes!ListsOn(j)}
  BY DEF Routes!PagesWith
<1>2. Routes!ListToPage(l) \subseteq Routes!PagesWith("list", l)
  BY <1>1 DEF Routes!ListToPage
<1>3. Routes!ListToPage(l) # {}
  BY ListsHavePages DEF RoutesInv
<1> QED BY <1>2, <1>3, ReadersMayRead DEF Deserved

LEMMA PushIsDeserved ==
    ASSUME RoutesInv, NEW u, NEW k \in DOMAIN Routes!Config.order, NEW w, w = Routes!Config.order[k]
    PROVE  Deserved([how |-> "push", by |-> u, want |-> {w},
                     got |-> IF \E i \in Routes!WidgetToPage(w) : Routes!CanAccess(u, i) THEN {w} ELSE {}])
<1>1. Routes!PagesWith("push", w) = Routes!WidgetToPage(w)
  BY DEF Routes!PagesWith, Routes!WidgetToPage
<1>2. Routes!WidgetToPage(w) # {}
  BY SettingsAssumption DEF Routes!SettingsAssumption, RoutesInv, Routes!WidgetToPage, Routes!Config
<1> QED BY <1>1, <1>2, ReadersMayRead DEF Deserved

\* The API, which refuses only when there is a token.
LEMMA ApiIsDeserved ==
    ASSUME NEW u, NEW hasToken \in BOOLEAN, NEW want, NEW got, got \subseteq want,
           \A x \in want :
               LET on == IF x \in Routes!PagesOf(site.c) THEN {x} ELSE Routes!PagesWith("widget", x)
               IN x \in got <=> \E i \in on : Routes!ApiReads(u, i),
           NEW r, r = [how |-> IF Routes!ApiAuthenticated(u, hasToken) THEN "api" ELSE "refused",
                       by |-> u, want |-> want,
                       got |-> IF Routes!ApiAuthenticated(u, hasToken) THEN got ELSE {}]
    PROVE  Deserved(r)
<1>1. \A i : Routes!ApiReads(u, i) <=>
          /\ Routes!Exposed(i)
          /\ Routes!Restricted(site.c, i) /\ Routes!Config.enforce => Routes!MayRead(u, i)
  BY ReadersMayRead DEF Routes!ApiReads
<1>2. CASE Routes!ApiAuthenticated(u, hasToken)
  <2>1. r.how = "api" /\ r.by = u /\ r.want = want /\ r.got = got
    BY <1>2
  <2> QED BY <1>1, <2>1 DEF Deserved
<1>3. CASE ~Routes!ApiAuthenticated(u, hasToken)
  <2>1. r.how = "refused" /\ r.by = u /\ r.want = want /\ r.got = {}
    BY <1>3
  <2>2. Routes!Config.token
    BY <1>3 DEF Routes!ApiAuthenticated
  <2> QED BY <2>1, <2>2 DEF Deserved
<1> QED BY <1>2, <1>3
--------------------------------------------------------------------------------
\* What stays true of a browser while the application and what it keeps do.
LEMMA StillOK ==
    ASSUME site' = site, NEW b, screen'[b] = screen[b], goal'[b] = goal[b], ScreenOK(b), GoalOK(b)
    PROVE  ScreenOK(b)' /\ GoalOK(b)'
<1>1. Routes!NoPage' = Routes!NoPage
  BY DEF Routes!NoPage
<1>2. Routes!Fresh(b)' <=> Routes!Fresh(b)
  BY DEF Routes!Fresh
<1>3. Routes!PagesOf(site'.c) = Routes!PagesOf(site.c)
  OBVIOUS
<1>4. ScreenOK(b)'
  BY <1>1, <1>2 DEF ScreenOK, Routes!PagesOf
<1>5. \A slug : Routes!SlugToPage(slug)' = Routes!SlugToPage(slug)
  BY DEF Routes!SlugToPage, Routes!PagesOf, Routes!SlugsOf, Routes!Home
<1>6. GoalOK(b)'
  BY <1>5 DEF GoalOK
<1> QED BY <1>4, <1>6

\* A step that only answers.
LEMMA AnswerKeeps ==
    ASSUME RoutesInv, UNCHANGED <<site, screen, goal>>, \A r \in replies' : Deserved(r)
    PROVE  RoutesInv'
<1>1. ASSUME NEW b \in Visitors PROVE ScreenOK(b)' /\ GoalOK(b)'
  <2>1. screen'[b] = screen[b] /\ goal'[b] = goal[b] /\ ScreenOK(b) /\ GoalOK(b)
    BY DEF RoutesInv
  <2> QED BY <2>1, StillOK
<1>2. Routes!AnswersAreDeserved'
  BY Answering
<1> QED BY <1>1, <1>2 DEF RoutesInv

\* A step by which a browser goes to another page, or nowhere.
LEMMA BrowserMoves ==
    ASSUME RoutesInv, NEW b \in Visitors, site' = site, \A r \in replies' : Deserved(r),
           NEW s, screen' = [screen EXCEPT ![b] = s],
           \/ s = Routes!NoPage
           \/ \E u, i : i \in Routes!PagesOf(site.c) /\ s = Routes!Opened(u, i),
           NEW g, goal' = [goal EXCEPT ![b] = g],
           \/ g = goal[b] \/ g = None
           \/ g.gen = site.gen /\ g.page = Routes!SlugToPage(g.slug)
    PROVE  RoutesInv'
<1>1. \A v \in Visitors : /\ screen'[v] = IF v = b THEN s ELSE screen[v]
                          /\ goal'[v] = IF v = b THEN g ELSE goal[v]
  BY DEF RoutesInv
<1>2. ASSUME NEW v \in Visitors \ {b} PROVE ScreenOK(v)' /\ GoalOK(v)'
  <2>1. screen'[v] = screen[v] /\ goal'[v] = goal[v] /\ ScreenOK(v) /\ GoalOK(v)
    BY <1>1 DEF RoutesInv
  <2> QED BY <2>1, StillOK
<1>3. ScreenOK(b)'
  <2>1. CASE s = Routes!NoPage
    <3>1. screen'[b] = Routes!NoPage /\ site'.gen # None /\ Routes!NoPage' = Routes!NoPage
      BY <1>1, <2>1, NamesAssumption DEF RoutesInv, Routes!NoPage
    <3> QED BY <3>1 DEF ScreenOK
  <2>2. ASSUME NEW u, NEW i \in Routes!PagesOf(site.c), s = Routes!Opened(u, i) PROVE ScreenOK(b)'
    <3>1. Routes!Accessible(u) \subseteq Routes!PagesOf(site.c)
      BY DEF Routes!Accessible
    <3>2. /\ s.c = site.c /\ s.gen = site.gen /\ s.first = site.first /\ s.page = i
          /\ s.links \subseteq Routes!PagesOf(site.c)
      BY <2>2, <3>1 DEF Routes!Opened
    <3>3. screen'[b] = s /\ site.gen \in 0..site.gen
      BY <1>1 DEF RoutesInv
    <3>4. s # Routes!NoPage' => s.c \in DOMAIN Settings /\ s.first \in Nat
      BY <3>2 DEF RoutesInv
    <3> QED BY <3>2, <3>3, <3>4 DEF ScreenOK, Routes!Fresh, Routes!PagesOf
  <2> QED BY <2>1, <2>2
<1>4. GoalOK(b)'
  <2>1. \A slug : Routes!SlugToPage(slug)' = Routes!SlugToPage(slug)
    BY DEF Routes!SlugToPage, Routes!PagesOf, Routes!SlugsOf, Routes!Home
  <2>2. goal'[b] = g /\ site.gen \in 0..site.gen /\ GoalOK(b)
    BY <1>1 DEF RoutesInv
  <2> QED BY <2>1, <2>2 DEF GoalOK
<1>5. Routes!AnswersAreDeserved'
  BY Answering
<1> QED BY <1>2, <1>3, <1>4, <1>5 DEF RoutesInv

LEMMA FoundPages ==
    ASSUME RoutesInv, NEW slug
    PROVE  Routes!SlugToPage(slug) \subseteq Routes!PagesOf(site.c)
<1>1. 1 \in Routes!PagesOf(site.c)
  <2> DEFINE pages == Settings[site.c].pages
  <2>1. pages \in Seq({pages[i] : i \in DOMAIN pages}) /\ pages # << >>
    BY SettingsAssumption DEF Routes!SettingsAssumption, Routes!Sequence, RoutesInv
  <2>2. 1 \in DOMAIN pages
    <3> HIDE DEF pages
    <3>1. PICK S : S = {pages[i] : i \in DOMAIN pages}
      OBVIOUS
    <3>2. pages \in Seq(S)
      BY <2>1, <3>1
    <3>3. DOMAIN pages = 1..Len(pages) /\ Len(pages) \in Nat
      BY <3>2
    <3>4. Len(pages) # 0
      BY <2>1, <3>2
    <3> QED BY <3>3, <3>4
  <2> QED BY <2>2 DEF Routes!PagesOf
<1> QED BY <1>1 DEF Routes!SlugToPage

LEMMA OpenSlugKeeps ==
    ASSUME RoutesInv, NEW b \in Visitors, NEW u, NEW slug, NEW want, site' = site,
           Routes!OpenSlug(b, u, slug, want), want = Routes!SlugToPage(slug)
    PROVE  RoutesInv'
<1> DEFINE shown == {i \in want : Routes!CanAccess(u, i)}
           s == IF shown = {} THEN Routes!NoPage ELSE Routes!Opened(u, CHOOSE i \in shown : TRUE)
           reply == [how |-> "page", by |-> u, want |-> want, got |-> shown]
<1>1. replies' = {reply} /\ Deserved(reply)
  BY PageIsDeserved DEF Routes!OpenSlug, Routes!Reply
<1>2. screen' = [screen EXCEPT ![b] = s]
  BY DEF Routes!OpenSlug
<1>3. s = Routes!NoPage \/ \E v, i : i \in Routes!PagesOf(site.c) /\ s = Routes!Opened(v, i)
  BY FoundPages
<1>4. PICK g : /\ goal' = [goal EXCEPT ![b] = g]
               /\ g = goal[b] \/ g = [slug |-> slug, gen |-> site.gen, page |-> want]
  BY DEF Routes!OpenSlug
<1>5. \/ g = goal[b] \/ g = None
      \/ g.gen = site.gen /\ g.page = Routes!SlugToPage(g.slug)
  BY <1>4
<1>6. \A r \in replies' : Deserved(r)
  BY <1>1
<1> HIDE DEF s, reply
<1> QED BY <1>2, <1>3, <1>4, <1>5, <1>6, BrowserMoves

LEMMA HomeIsFound == Routes!HomePages = Routes!SlugToPage(Routes!Home)
  BY DEF Routes!HomePages, Routes!SlugToPage

LEMMA FollowKeeps ==
    ASSUME RoutesInv, NEW b \in Visitors, NEW i, Routes!Follow(b, i) PROVE RoutesInv'
<1> DEFINE slug == Routes!SlugsOf(screen[b].c)[i]
           want == IF Routes!Fresh(b) THEN {i} ELSE Routes!SlugToPage(slug)
<1>1. Routes!OpenSlug(b, Routes!User(b), slug, want) /\ site' = site
  BY DEF Routes!Follow
<1>2. want = Routes!SlugToPage(slug)
  BY SlugMeansPage DEF Routes!Follow, RoutesInv, ScreenOK
<1> HIDE DEF slug, want
<1> QED BY <1>1, <1>2, OpenSlugKeeps

LEMMA ContentKeeps ==
    ASSUME RoutesInv, NEW b \in Visitors, Routes!PageContent(b) PROVE RoutesInv'
<1> DEFINE slug == Routes!SlugsOf(screen[b].c)[screen[b].page]
           found == Routes!SlugToPage(slug)
           reply == [how |-> "content", by |-> Routes!User(b), want |-> found,
                     got |-> {i \in found : Routes!CanAccess(Routes!User(b), i)}]
<1>1. (IF Routes!Fresh(b) THEN {screen[b].page} ELSE found) = found
  BY SlugMeansPage DEF Routes!PageContent, RoutesInv, ScreenOK
<1>2. replies' = {reply}
  BY <1>1 DEF Routes!PageContent, Routes!Reply
<1>3. Deserved(reply)
  BY PageIsDeserved
<1> HIDE DEF reply
<1> QED BY <1>2, <1>3, AnswerKeeps DEF Routes!PageContent

LEMMA LogsInKeeps ==
    ASSUME RoutesInv, NEW b \in Visitors, NEW u, Routes!LogsIn(b, u) PROVE RoutesInv'
<1> DEFINE slug == IF goal[b] = None THEN Routes!Home ELSE goal[b].slug
           meant == IF goal[b] = None THEN Routes!HomePages
                    ELSE IF goal[b].gen = site.gen THEN goal[b].page ELSE Routes!SlugToPage(slug)
           found == Routes!SlugToPage(slug)
           shown == {i \in found : Routes!CanAccess(u, i)}
           s == IF shown = {} THEN Routes!NoPage ELSE Routes!Opened(u, CHOOSE i \in shown : TRUE)
           reply == [how |-> "page", by |-> u, want |-> meant, got |-> shown]
<1>1. meant = found
  BY HomeIsFound DEF RoutesInv, GoalOK
<1>2. replies' = {reply} /\ screen' = [screen EXCEPT ![b] = s] /\ site' = site
      /\ goal' = [goal EXCEPT ![b] = None]
  BY DEF Routes!LogsIn, Routes!Reply
<1>3. Deserved(reply)
  <2> HIDE DEF found, meant
  <2> QED BY <1>1, PageIsDeserved
<1>4. s = Routes!NoPage \/ \E v, i : i \in Routes!PagesOf(site.c) /\ s = Routes!Opened(v, i)
  BY FoundPages
<1> HIDE DEF s, reply
<1>5. \A r \in replies' : Deserved(r)
  BY <1>2, <1>3
<1> QED BY <1>2, <1>4, <1>5, BrowserMoves

\* A reload makes every page that is open one of an earlier application, and gives
\* its numbers to none.
LEMMA SwapKeeps == ASSUME RoutesInv, NEW c \in DOMAIN Settings, Routes!Swap(c) PROVE RoutesInv'
<1> USE DEF Routes!Swap
<1>1. site' = [c |-> c, gen |-> site.gen + 1, first |-> site.first + Len(Settings[site.c].order)]
  BY DEF Routes!Config
<1>2. PICK n \in Nat : n = Len(Settings[site.c].order)
  BY OrderFacts DEF RoutesInv
<1>3. Settings[c].pages # << >>
  BY DEF Routes!Serviceable
<1>4. replies' = {} /\ screen' = screen /\ goal' = goal
  OBVIOUS
<1>5. Routes!AnswersAreDeserved'
  BY <1>4 DEF Routes!AnswersAreDeserved
<1>6. ASSUME NEW b \in Visitors PROVE ScreenOK(b)' /\ GoalOK(b)'
  <2>1. ScreenOK(b) /\ GoalOK(b) /\ site.gen \in Nat /\ site.first \in Nat
    BY DEF RoutesInv
  <2>2. site'.gen = site.gen + 1 /\ site'.first = site.first + n
    BY <1>1, <1>2
  <2>3. GoalOK(b)'
    BY <1>4, <2>1, <2>2 DEF GoalOK
  <2>4. CASE screen[b] = Routes!NoPage
    BY <1>4, <2>3, <2>4 DEF ScreenOK, Routes!NoPage
  <2>5. CASE screen[b] # Routes!NoPage
    <3>1. screen[b].gen \in 0..site.gen /\ screen[b].c \in DOMAIN Settings /\ screen[b].first \in Nat
      BY <2>1, <2>5 DEF ScreenOK
    <3>2. PICK m \in Nat : m = Len(Settings[screen[b].c].order)
      BY <3>1, OrderFacts
    <3>3. screen[b].first + m <= site.first + n
      <4>1. CASE screen[b].gen = site.gen
        <5>1. screen[b].c = site.c /\ screen[b].first = site.first
          BY <2>1, <2>5, <4>1 DEF ScreenOK, Routes!Fresh
        <5> QED BY <1>2, <2>1, <3>2, <5>1
      <4>2. CASE screen[b].gen # site.gen
        <5>1. screen[b].first + m <= site.first
          BY <2>1, <2>5, <3>2, <4>2 DEF ScreenOK
        <5>2. PICK first \in Nat, upto \in Nat : first = screen[b].first /\ upto = site.first
          BY <2>1, <3>1
        <5>3. first + m <= upto + n
          <6>1. first + m <= upto
            BY <5>1, <5>2
          <6> QED BY <6>1
        <5> QED BY <5>2, <5>3
      <4> QED BY <4>1, <4>2
    <3>4. screen[b].gen \in 0..site'.gen /\ screen[b].gen # site'.gen
      BY <2>1, <2>2, <3>1
    <3> QED BY <1>4, <2>2, <2>3, <3>1, <3>2, <3>3, <3>4 DEF ScreenOK, Routes!Fresh
  <2> QED BY <2>4, <2>5
<1>7. site'.first \in Nat /\ site'.gen \in Nat /\ site'.c = c
      /\ site' = [c |-> site'.c, first |-> site'.first, gen |-> site'.gen]
  BY <1>1, <1>2 DEF RoutesInv
<1> QED BY <1>3, <1>4, <1>5, <1>6, <1>7 DEF RoutesInv

LEMMA ApiKeeps ==
    ASSUME RoutesInv, NEW u, NEW hasToken \in BOOLEAN,
           \/ Routes!ApiPages(u, hasToken)
           \/ \E i \in Routes!PagesOf(site.c) : Routes!ApiPage(u, hasToken, i)
           \/ \E w \in DOMAIN Routes!Config.apiId : Routes!ApiWidget(u, hasToken, Routes!Config.apiId[w])
    PROVE  RoutesInv'
<1>1. ASSUME NEW want, NEW got, got \subseteq want, Routes!ApiReply(u, hasToken, want, got),
             \A x \in want :
                 LET on == IF x \in Routes!PagesOf(site.c) THEN {x} ELSE Routes!PagesWith("widget", x)
                 IN x \in got <=> \E i \in on : Routes!ApiReads(u, i)
      PROVE  RoutesInv'
  <2> DEFINE r == [how |-> IF Routes!ApiAuthenticated(u, hasToken) THEN "api" ELSE "refused",
                   by |-> u, want |-> want,
                   got |-> IF Routes!ApiAuthenticated(u, hasToken) THEN got ELSE {}]
  <2>1. Deserved(r)
    <3>1. PICK x : x = r
      OBVIOUS
    <3>2. Deserved(x)
      BY <1>1, <3>1, ApiIsDeserved
    <3> QED BY <3>1, <3>2
  <2>2. replies' = {r} /\ UNCHANGED <<site, screen, goal>>
    BY <1>1 DEF Routes!ApiReply, Routes!Reply
  <2> HIDE DEF r
  <2> QED BY <2>1, <2>2, AnswerKeeps
<1>2. CASE Routes!ApiPages(u, hasToken)
  BY <1>1, <1>2 DEF Routes!ApiPages
<1>3. ASSUME NEW i \in Routes!PagesOf(site.c), Routes!ApiPage(u, hasToken, i) PROVE RoutesInv'
  <2>1. Routes!SlugToPage(Routes!SlugsOf(site.c)[i]) = {i}
    BY SlugMeansPage DEF RoutesInv
  <2> QED BY <1>1, <1>3, <2>1 DEF Routes!ApiPage
<1>4. ASSUME NEW id, Routes!ApiWidget(u, hasToken, id) PROVE RoutesInv'
  <2>1. PICK found : found = Routes!WidgetByApiId(id)
    OBVIOUS
  <2>2. \A w \in found : w \notin Routes!PagesOf(site.c)
    <3>1. \A w \in found : w \notin Nat
      BY <2>1, SettingsAssumption DEF Routes!SettingsAssumption, Routes!WidgetByApiId, Routes!Config, RoutesInv
    <3>2. PICK n \in Nat : Routes!PagesOf(site.c) = 1..n
      <4> DEFINE m == Len(Settings[site.c].pages)
      <4>1. Routes!PagesOf(site.c) = 1..m /\ m \in Nat
        BY SettingsAssumption DEF Routes!SettingsAssumption, Routes!Sequence, Routes!PagesOf, RoutesInv
      <4> QED BY <4>1
    <3> QED BY <3>1, <3>2
  <2>3. \A w : Routes!PagesWith("widget", w) = Routes!WidgetToPage(w)
    BY DEF Routes!PagesWith, Routes!WidgetToPage
  <2> QED BY <1>1, <1>4, <2>1, <2>2, <2>3 DEF Routes!ApiWidget
<1> QED BY <1>2, <1>3, <1>4

LEMMA RoutesStepKeeps == ASSUME RoutesInv, [Routes!RoutesNext]_routeVars PROVE RoutesInv'
<1>1. CASE UNCHANGED routeVars
  <2>1. UNCHANGED <<site, screen, goal, replies>>
    BY <1>1 DEF routeVars
  <2>2. \A r \in replies' : Deserved(r)
    BY <2>1 DEF RoutesInv, Routes!AnswersAreDeserved, Deserved
  <2> QED BY <2>1, <2>2, AnswerKeeps
<1>2. ASSUME NEW b \in Visitors, Routes!OpenHome(b) PROVE RoutesInv'
  BY <1>2, HomeIsFound, OpenSlugKeeps DEF Routes!OpenHome
<1>3. ASSUME NEW b \in Visitors, Routes!PageContent(b) PROVE RoutesInv'
  BY <1>3, ContentKeeps
<1>4. ASSUME NEW b \in Visitors, NEW i, Routes!Follow(b, i) PROVE RoutesInv'
  BY <1>4, FollowKeeps
<1>5. ASSUME UNCHANGED <<site, screen, goal, replies>> PROVE RoutesInv'
  <2>1. \A r \in replies' : Deserved(r)
    BY <1>5 DEF RoutesInv, Routes!AnswersAreDeserved, Deserved
  <2> QED BY <1>5, <2>1, AnswerKeeps
<1>6. ASSUME NEW b \in Visitors, Routes!LogsOut(b) PROVE RoutesInv'
  <2>1. \A r \in replies' : Deserved(r)
    BY <1>6 DEF RoutesInv, Routes!AnswersAreDeserved, Deserved, Routes!LogsOut
  <2>2. goal' = [goal EXCEPT ![b] = goal[b]]
    BY <1>6 DEF RoutesInv, Routes!LogsOut
  <2> QED BY <1>6, <2>1, <2>2, BrowserMoves DEF Routes!LogsOut
<1>7. ASSUME NEW b \in Visitors, screen[b] # Routes!NoPage, NEW id \in Routes!IdsOn(b),
             Routes!WidgetContent(b, id) \/ Routes!WidgetAction(b, id)
      PROVE  RoutesInv'
  <2>1. \A r \in replies' : Deserved(r)
    <3>1. ASSUME NEW how \in {"widget", "action"},
                 replies' = {[how |-> how, by |-> Routes!User(b), want |-> Routes!WidgetMeant(b, id),
                              got |-> Routes!ServedWidget(Routes!User(b), id)]}
          PROVE  \A r \in replies' : Deserved(r)
      <4>1. Deserved([how |-> how, by |-> Routes!User(b), want |-> Routes!WidgetMeant(b, id),
                      got |-> Routes!ServedWidget(Routes!User(b), id)])
        BY <1>7, WidgetIsDeserved
      <4> QED BY <3>1, <4>1
    <3>2. CASE Routes!WidgetContent(b, id)
      BY <3>1, <3>2 DEF Routes!WidgetContent, Routes!Reply
    <3>3. CASE Routes!WidgetAction(b, id)
      BY <3>1, <3>3 DEF Routes!WidgetAction, Routes!Reply
    <3> QED BY <1>7, <3>2, <3>3
  <2>2. UNCHANGED <<site, screen, goal>>
    BY <1>7 DEF Routes!WidgetContent, Routes!WidgetAction
  <2> QED BY <2>1, <2>2, AnswerKeeps
<1>8. ASSUME NEW b \in Visitors, NEW l, Routes!TodoList(b, l) PROVE RoutesInv'
  <2>1. screen[b] # Routes!NoPage
    BY <1>8, NamesAssumption DEF Routes!TodoList, Routes!Fresh, Routes!NoPage, RoutesInv
  <2>2. screen[b].page \in Routes!PagesOf(site.c)
    BY <1>8, <2>1 DEF Routes!TodoList, RoutesInv, ScreenOK
  <2>3. \A r \in replies' : Deserved(r)
    BY <1>8, <2>2, ListIsDeserved DEF Routes!TodoList, Routes!Reply
  <2>4. UNCHANGED <<site, screen, goal>>
    BY <1>8 DEF Routes!TodoList
  <2> QED BY <2>3, <2>4, AnswerKeeps
<1>9. ASSUME NEW k \in DOMAIN Routes!Config.order, Routes!Push(Routes!Config.order[k]) PROVE RoutesInv'
  <2>1. PICK w : w = Routes!Config.order[k]
    OBVIOUS
  <2>2. \A r \in replies' : \E u :
            r = [how |-> "push", by |-> u, want |-> {w},
                 got |-> IF \E i \in Routes!WidgetToPage(w) : Routes!CanAccess(u, i) THEN {w} ELSE {}]
    BY <1>9, <2>1 DEF Routes!Push
  <2>3. \A r \in replies' : Deserved(r)
    BY <2>1, <2>2, PushIsDeserved
  <2>4. UNCHANGED <<site, screen, goal>>
    BY <1>9 DEF Routes!Push
  <2> QED BY <2>3, <2>4, AnswerKeeps
<1>10. ASSUME NEW b \in Visitors, Routes!Connect(b) \/ \E u : Routes!Recheck(b, u) PROVE RoutesInv'
  BY <1>5, <1>10 DEF Routes!Connect, Routes!Recheck
<1>11. CASE \E b \in Visitors :
              \/ Routes!OpenHome(b) \/ Routes!PageContent(b) \/ Routes!Connect(b) \/ Routes!LogsOut(b)
              \/ \E i \in IF screen[b] = Routes!NoPage THEN {} ELSE screen[b].links : Routes!Follow(b, i)
              \/ \E id \in IF screen[b] = Routes!NoPage THEN {} ELSE Routes!IdsOn(b) :
                    Routes!WidgetContent(b, id) \/ Routes!WidgetAction(b, id)
              \/ \E l \in {Routes!Config.list[w] : w \in DOMAIN Routes!Config.list} : Routes!TodoList(b, l)
              \/ \E u \in streams[b] : Routes!Recheck(b, u)
              \/ \E u \in Users : Routes!LogsIn(b, u)
  BY <1>2, <1>3, <1>4, <1>6, <1>7, <1>8, <1>10, <1>11, LogsInKeeps
<1> QED BY <1>1, <1>9, <1>11, ApiKeeps, SwapKeeps DEF Routes!RoutesNext

LEMMA RoutesAlways == AccessSpec => []RoutesInv
<1>1. AccessInit => RoutesInv
  BY RoutesStart DEF AccessInit
<1>2. RoutesInv /\ [AccessNext]_accessVars => RoutesInv'
  BY RouteSteps, RoutesStepKeeps
<1> QED BY <1>1, <1>2, PTL DEF AccessSpec

\* Whatever pages, widgets, lists and users a config has, and whichever earlier
\* application made the page a browser has open: an answer is what was meant, all of
\* it for those who may read it and nothing for the others, on every route
\* (newApplication's tables, the handlers, the API and the stream of updates).
THEOREM AnswersAreDeservedHolds == AccessSpec => []AnswersAreDeserved
<1>1. RoutesInv => AnswersAreDeserved
  BY DEF RoutesInv, AnswersAreDeserved
<1> QED BY <1>1, RoutesAlways, PTL
=============================================================================
