---------------------------- MODULE Tokens_proofs ----------------------------
(***************************************************************************)
(* Theorems about Tokens.  With a service that rotates, a holder that has  *)
(* the accepted refresh token in hand is alone with it: neither the file   *)
(* nor another holder has it.  That is what keeps two processes off the    *)
(* temporary file they share, and off each other's refresh tokens.         *)
(***************************************************************************)
EXTENDS Tokens, TLAPS

USE TokensAssumption, NoneIsNoFile

-----------------------------------------------------------------------------
\* A token that was written to a file, or may be.
FileToken(t) == t \in Token /\ t.refresh <= current

HolderOK(h) ==
  /\ cached[h] # None => FileToken(cached[h])
  /\ pc[h] \in {"ask"} \cup InHand => FileToken(hand[h])
  /\ store = "codex" /\ pc[h] # "down" =>
       cached[h] # None /\ cached[h].refresh = seen[h]
  /\ pc[h] = "ask" => hand[h].refresh = seen[h]

FilesOK ==
  store # "aws" =>
    /\ file # Torn => FileToken(file)
    /\ tmp \notin {Torn, None} => FileToken(tmp)
    /\ \A h \in Holders : HolderOK(h)

\* Who has the accepted token in hand is alone with it.
Alone(h) ==
  /\ hand[h].refresh = current
  /\ file # Torn => file.refresh # current
  /\ \A g \in Holders \ {h} :
       /\ pc[g] \notin InHand
       /\ pc[g] = "ask" => hand[g].refresh # current
       /\ store = "codex" /\ pc[g] # "down" => cached[g].refresh # current

StoredOrInHand ==
  file # Torn => file.refresh = current \/ \E h \in Holders : pc[h] \in InHand

ClaudeInv ==
  store = "claude" /\ rotates =>
    /\ file # Torn
    /\ ~lost => StoredOrInHand
    /\ \A h \in Holders :
         /\ pc[h] # "down"
         /\ pc[h] \in InHand => Alone(h)
         /\ fd[h] = IF pc[h] = "write" THEN "tmp" ELSE "none"
         /\ pc[h] = "write" => tmp = Torn
         /\ pc[h] = "rename" => tmp = hand[h]

CodexInv ==
  store = "codex" /\ rotates /\ ~lost =>
    /\ StoredOrInHand
    /\ \A h \in Holders :
         /\ pc[h] \in InHand => Alone(h)
         /\ fd[h] = IF pc[h] = "write" THEN "file" ELSE "none"
         /\ pc[h] = "write" => cached[h] = hand[h]
         /\ pc[h] # "rename"

Within(t) == t \in AwsToken /\ t.expires <= t.until

AwsInv ==
  store = "aws" =>
    /\ current = 0 /\ file = [refresh |-> 0, expires |-> 0]
    /\ \A h \in Holders :
         /\ pc[h] \in {"idle", "answered"}
         /\ cached[h] # None => Within(cached[h])
         /\ pc[h] = "answered" => Within(hand[h])

IInv == TypeOK /\ FilesOK /\ ClaudeInv /\ CodexInv /\ AwsInv

-----------------------------------------------------------------------------
LEMMA TornIsNoToken == Torn \notin Token /\ None # Torn /\ None \notin Token /\ None \notin AwsToken
<1>1. \A t \in Token : DOMAIN t = {"refresh", "expires"}
  BY DEF Token
<1>2. DOMAIN Torn = {"torn"}
  BY DEF Torn
<1>3. QED  BY <1>1, <1>2

LEMMA InitHolds == Init => IInv
<1>1. SUFFICES ASSUME Init PROVE IInv
  OBVIOUS
<1>2. [refresh |-> 0, expires |-> 0] \in Token
  BY DEF Token, Times
<1>3. TypeOK
  <2>1. rotates \in BOOLEAN /\ lost \in BOOLEAN
    BY <1>1, Zenon DEF Init
  <2>2. pc \in [Holders -> {"down", "idle", "ask"} \cup InHand]
    BY <1>1 DEF Init, NewPlace
  <2>3. QED  BY <1>1, <1>2, <2>1, <2>2 DEF Init, TypeOK
<1>4. FilesOK /\ ClaudeInv /\ CodexInv /\ AwsInv
  BY <1>1, <1>2, TornIsNoToken DEF Init, FilesOK, HolderOK, FileToken, ClaudeInv, CodexInv,
     StoredOrInHand, AwsInv, NewPlace, InHand
<1>5. QED  BY <1>3, <1>4 DEF IInv

-----------------------------------------------------------------------------
LEMMA TypeStep ==
  ASSUME IInv, [Next]_vars
  PROVE  TypeOK'
<1>0. /\ TypeOK
      /\ file \in Token \cup {Torn} /\ tmp \in Token \cup {Torn, None}
      /\ Token \subseteq [refresh : 0..MaxRefresh, expires : Times]
  BY DEF IInv, TypeOK, Token
<1> USE <1>0, TornIsNoToken DEF IInv, TypeOK, InHand, At, GoTo, Remember, Return, service, disk, memory
<1>1. CASE UNCHANGED vars
  BY <1>1 DEF vars
<1>2. ASSUME NEW h \in Holders, Claude(h) PROVE TypeOK'
  <2>1. CASE ServeCached(h)  BY <2>1 DEF ServeCached
  <2>2. CASE LoadFails(h)  BY <2>2 DEF LoadFails
  <2>3. CASE LoadUsable(h)  BY <2>3 DEF LoadUsable
  <2>4. CASE LoadExpired(h)  BY <2>4 DEF LoadExpired, Token
  <2>5. CASE SaveOpens(h)  BY <2>5 DEF SaveOpens, OpenTmp
  <2>6. CASE SaveWrites(h)  BY <2>6 DEF SaveWrites, Write, FilesOK, HolderOK, FileToken
  <2>7. CASE SaveRenames(h)
    <3>1. fd' \in [Holders -> {"none", "file", "tmp", "gone"}]
      BY <2>7 DEF SaveRenames, Rename, Renamed
    <3>2. QED  BY <2>7, <3>1 DEF SaveRenames, Rename
  <2>8. CASE SaveFails(h)  BY <2>8 DEF SaveFails, LosesAnswer
  <2>9. QED  BY <1>2, <2>1, <2>2, <2>3, <2>4, <2>5, <2>6, <2>7, <2>8 DEF Claude
<1>3. ASSUME NEW h \in Holders, Codex(h) PROVE TypeOK'
  <2>1. CASE LoadAuth(h)  BY <2>1 DEF LoadAuth, Token
  <2>2. CASE ServeHeld(h)  BY <2>2 DEF ServeHeld
  <2>3. CASE RefreshHeld(h)  BY <2>3 DEF RefreshHeld
  <2>4. CASE KeepAnswer(h)
    BY <2>4 DEF KeepAnswer, OpenFile, FilesOK, HolderOK, FileToken, Token
  <2>5. CASE KeepUnsaved(h)
    BY <2>5 DEF KeepUnsaved, LosesAnswer, FilesOK, HolderOK, FileToken, Token
  <2>6. CASE SaveHeld(h)  BY <2>6 DEF SaveHeld, Write, FilesOK, HolderOK, FileToken
  <2>7. CASE SaveHeldFails(h)  BY <2>7 DEF SaveHeldFails, LosesAnswer
  <2>8. QED  BY <1>3, <2>1, <2>2, <2>3, <2>4, <2>5, <2>6, <2>7 DEF Codex
<1>4. ASSUME NEW h \in Holders, Aws(h) PROVE TypeOK'
  <2>1. CASE ServeShared(h)  BY <2>1 DEF ServeShared
  <2>2. CASE Presign(h)
    <3>1. PICK until \in now..(MaxTime + Life) :
            hand' = [hand EXCEPT ![h] = Presigned(until)]
      BY <2>2 DEF Presign
    <3>2. Presigned(until) \in AwsToken
      BY <3>1 DEF Presigned, TokenTTL, AwsToken, Times
    <3>3. QED  BY <2>2, <3>1, <3>2 DEF Presign
  <2>3. CASE Share(h)  BY <2>3 DEF Share
  <2>4. CASE PresignFails(h)  BY <2>4 DEF PresignFails
  <2>5. QED  BY <1>4, <2>1, <2>2, <2>3, <2>4 DEF Aws
<1>5. ASSUME NEW h \in Holders, Granted(h) PROVE TypeOK'
  <2>1. [refresh |-> current', expires |-> now + Life] \in Token
    BY <1>5 DEF Granted, Token, Times
  <2>2. QED  BY <1>5, <2>1 DEF Granted
<1>6. ASSUME NEW h \in Holders, Refused(h) PROVE TypeOK'
  BY <1>6 DEF Refused
<1>7. ASSUME NEW h \in Holders, Unanswered(h) PROVE TypeOK'
  <2>1. lost' \in BOOLEAN
    BY <1>7, Zenon DEF Unanswered
  <2>2. current' \in 0..MaxRefresh
    BY <1>7 DEF Unanswered
  <2>3. QED  BY <1>7, <2>1, <2>2 DEF Unanswered
<1>8. ASSUME NEW h \in Holders, Crash(h) PROVE TypeOK'
  BY <1>8 DEF Crash, LosesAnswer, NewPlace
<1>9. CASE Tick
  BY <1>9 DEF Tick
<1>10. QED
  BY <1>1, <1>2, <1>3, <1>4, <1>5, <1>6, <1>7, <1>8, <1>9 DEF Next

LEMMA FilesStep ==
  ASSUME IInv, [Next]_vars
  PROVE  FilesOK'
<1>0. TypeOK /\ TypeOK' /\ FilesOK /\ FilesOK
  BY TypeStep DEF IInv
<1> USE <1>0, TornIsNoToken
    DEF At, GoTo, Remember, Return, service, disk, memory, FilesOK, HolderOK, FileToken, InHand, TypeOK
<1>1. CASE UNCHANGED vars
  BY <1>1 DEF vars
<1>2. ASSUME NEW h \in Holders, Claude(h) PROVE FilesOK'
  <2>1. CASE ServeCached(h)  BY <2>1 DEF ServeCached
  <2>2. CASE LoadFails(h)  BY <2>2 DEF LoadFails
  <2>3. CASE LoadUsable(h)  BY <2>3 DEF LoadUsable
  <2>4. CASE LoadExpired(h)  BY <2>4 DEF LoadExpired
  <2>5. CASE SaveOpens(h)  BY <2>5 DEF SaveOpens, OpenTmp
  <2>6. CASE SaveWrites(h)  BY <2>6 DEF SaveWrites, Write
  <2>7. CASE SaveRenames(h)  BY <2>7 DEF SaveRenames, Rename, Renamed
  <2>8. CASE SaveFails(h)  BY <2>8 DEF SaveFails, LosesAnswer
  <2>9. QED  BY <1>2, <2>1, <2>2, <2>3, <2>4, <2>5, <2>6, <2>7, <2>8 DEF Claude
<1>3. ASSUME NEW h \in Holders, Codex(h) PROVE FilesOK'
  <2>1. CASE LoadAuth(h)  BY <2>1 DEF LoadAuth
  <2>2. CASE ServeHeld(h)  BY <2>2 DEF ServeHeld
  <2>3. CASE RefreshHeld(h)  BY <2>3 DEF RefreshHeld
  <2>4. CASE KeepAnswer(h)  BY <2>4 DEF KeepAnswer, OpenFile
  <2>5. CASE KeepUnsaved(h)  BY <2>5 DEF KeepUnsaved, LosesAnswer
  <2>6. CASE SaveHeld(h)  BY <2>6 DEF SaveHeld, Write
  <2>7. CASE SaveHeldFails(h)  BY <2>7 DEF SaveHeldFails, LosesAnswer
  <2>8. QED  BY <1>3, <2>1, <2>2, <2>3, <2>4, <2>5, <2>6, <2>7 DEF Codex
<1>4. ASSUME NEW h \in Holders, Aws(h) PROVE FilesOK'
  BY <1>4 DEF Aws, ServeShared, Presign, Share, PresignFails
<1>5. ASSUME NEW h \in Holders, Granted(h) PROVE FilesOK'
  <2>1. [refresh |-> current', expires |-> now + Life] \in Token
    BY <1>5 DEF Granted, Token, Times
  <2>2. current \in Nat /\ current' \in Nat /\ current <= current'
    BY <1>5 DEF Granted
  <2>3. \A t \in Token : t.refresh \in Nat /\ (t.refresh <= current => t.refresh <= current')
    BY <2>2 DEF Token
  <2>4. QED  BY <1>5, <2>1, <2>2, <2>3 DEF Granted
<1>6. ASSUME NEW h \in Holders, Refused(h) PROVE FilesOK'
  BY <1>6 DEF Refused
<1>7. ASSUME NEW h \in Holders, Unanswered(h) PROVE FilesOK'
  <2>1. current \in Nat /\ current' \in Nat /\ current <= current'
    BY <1>7 DEF Unanswered
  <2>2. \A t \in Token : t.refresh \in Nat /\ (t.refresh <= current => t.refresh <= current')
    BY <2>1 DEF Token
  <2>3. QED  BY <1>7, <2>1, <2>2 DEF Unanswered
<1>8. ASSUME NEW h \in Holders, Crash(h) PROVE FilesOK'
  BY <1>8 DEF Crash, LosesAnswer, NewPlace
<1>9. CASE Tick
  BY <1>9 DEF Tick
<1>10. QED
  BY <1>1, <1>2, <1>3, <1>4, <1>5, <1>6, <1>7, <1>8, <1>9 DEF Next

LEMMA ClaudeStep ==
  ASSUME IInv, [Next]_vars
  PROVE  ClaudeInv'
<1>0. TypeOK /\ TypeOK' /\ FilesOK /\ ClaudeInv
  BY TypeStep DEF IInv
<1> USE <1>0, TornIsNoToken
    DEF At, GoTo, Remember, Return, service, disk, memory, ClaudeInv, StoredOrInHand, Alone, FilesOK, HolderOK, FileToken, InHand, TypeOK
<1>1. CASE UNCHANGED vars
  BY <1>1 DEF vars
<1>2. ASSUME NEW h \in Holders, Claude(h) PROVE ClaudeInv'
  <2>1. CASE ServeCached(h)  BY <2>1 DEF ServeCached
  <2>2. CASE LoadFails(h)  BY <2>2 DEF LoadFails
  <2>3. CASE LoadUsable(h)  BY <2>3 DEF LoadUsable
  <2>4. CASE LoadExpired(h)  BY <2>4 DEF LoadExpired
  <2>5. CASE SaveOpens(h)  BY <2>5 DEF SaveOpens, OpenTmp
  <2>6. CASE SaveWrites(h)  BY <2>6 DEF SaveWrites, Write
  <2>7. CASE SaveRenames(h)  BY <2>7 DEF SaveRenames, Rename, Renamed
  <2>8. CASE SaveFails(h)
    <3>1. lost' \/ (~lost /\ (rotates => pc[h] \notin {"answered", "write", "rename"}))
      BY <2>8, Zenon DEF SaveFails, LosesAnswer
    <3>2. CASE pc[h] = "rename"  BY <2>8, <3>1, <3>2 DEF SaveFails
    <3>3. CASE pc[h] # "rename"  BY <2>8, <3>1, <3>3 DEF SaveFails
    <3>4. QED  BY <3>2, <3>3
  <2>9. QED  BY <1>2, <2>1, <2>2, <2>3, <2>4, <2>5, <2>6, <2>7, <2>8 DEF Claude
<1>3. ASSUME NEW h \in Holders, Codex(h) PROVE ClaudeInv'
  BY <1>3 DEF Codex, LoadAuth, ServeHeld, RefreshHeld, KeepAnswer, KeepUnsaved, SaveHeld, SaveHeldFails
<1>4. ASSUME NEW h \in Holders, Aws(h) PROVE ClaudeInv'
  BY <1>4 DEF Aws, ServeShared, Presign, Share, PresignFails
<1>5. ASSUME NEW h \in Holders, Granted(h) PROVE ClaudeInv'
  BY <1>5 DEF Granted, Token
<1>6. ASSUME NEW h \in Holders, Refused(h) PROVE ClaudeInv'
  BY <1>6 DEF Refused
<1>7. ASSUME NEW h \in Holders, Unanswered(h) PROVE ClaudeInv'
  BY <1>7 DEF Unanswered
<1>8. ASSUME NEW h \in Holders, Crash(h) PROVE ClaudeInv'
  <2>1. lost' \/ (~lost /\ (rotates => pc[h] \notin {"answered", "write", "rename"}))
    BY <1>8, Zenon DEF Crash, LosesAnswer
  <2>2. QED  BY <1>8, <2>1 DEF Crash, NewPlace
<1>9. CASE Tick
  BY <1>9 DEF Tick
<1>10. QED
  BY <1>1, <1>2, <1>3, <1>4, <1>5, <1>6, <1>7, <1>8, <1>9 DEF Next

LEMMA CodexStep ==
  ASSUME IInv, [Next]_vars
  PROVE  CodexInv'
<1>0. TypeOK /\ TypeOK' /\ FilesOK /\ CodexInv
  BY TypeStep DEF IInv
<1> USE <1>0, TornIsNoToken
    DEF At, GoTo, Remember, Return, service, disk, memory, CodexInv, StoredOrInHand, Alone, FilesOK, HolderOK, FileToken, InHand, TypeOK
<1>1. CASE UNCHANGED vars
  BY <1>1 DEF vars
<1>2. ASSUME NEW h \in Holders, Claude(h) PROVE CodexInv'
  BY <1>2 DEF Claude, ServeCached, LoadFails, LoadUsable, LoadExpired, SaveOpens, SaveWrites, SaveRenames, SaveFails
<1>3. ASSUME NEW h \in Holders, Codex(h) PROVE CodexInv'
  <2>1. CASE LoadAuth(h)  BY <2>1 DEF LoadAuth
  <2>2. CASE ServeHeld(h)  BY <2>2 DEF ServeHeld
  <2>3. CASE RefreshHeld(h)  BY <2>3 DEF RefreshHeld
  <2>4. CASE KeepAnswer(h)  BY <2>4 DEF KeepAnswer, OpenFile
  <2>5. CASE KeepUnsaved(h)  BY <2>5 DEF KeepUnsaved, LosesAnswer
  <2>6. CASE SaveHeld(h)
    <3>1. CASE rotates /\ ~lost
      <4>1. file' \in {hand[h], Torn} /\ hand[h].refresh = current
        BY <2>6, <3>1 DEF SaveHeld, Write
      <4>2. QED  BY <2>6, <3>1, <4>1 DEF SaveHeld, Write
    <3>2. CASE ~(rotates /\ ~lost)  BY <2>6, <3>2 DEF SaveHeld
    <3>3. QED  BY <3>1, <3>2
  <2>7. CASE SaveHeldFails(h)  BY <2>7 DEF SaveHeldFails, LosesAnswer
  <2>8. QED  BY <1>3, <2>1, <2>2, <2>3, <2>4, <2>5, <2>6, <2>7 DEF Codex
<1>4. ASSUME NEW h \in Holders, Aws(h) PROVE CodexInv'
  BY <1>4 DEF Aws, ServeShared, Presign, Share, PresignFails
<1>5. ASSUME NEW h \in Holders, Granted(h) PROVE CodexInv'
  BY <1>5 DEF Granted, Token
<1>6. ASSUME NEW h \in Holders, Refused(h) PROVE CodexInv'
  BY <1>6 DEF Refused
<1>7. ASSUME NEW h \in Holders, Unanswered(h) PROVE CodexInv'
  BY <1>7 DEF Unanswered
<1>8. ASSUME NEW h \in Holders, Crash(h) PROVE CodexInv'
  <2>1. lost' \/ (~lost /\ (rotates => pc[h] \notin {"answered", "write", "rename"}))
    BY <1>8, Zenon DEF Crash, LosesAnswer
  <2>2. QED  BY <1>8, <2>1 DEF Crash, NewPlace
<1>9. CASE Tick
  BY <1>9 DEF Tick
<1>10. QED
  BY <1>1, <1>2, <1>3, <1>4, <1>5, <1>6, <1>7, <1>8, <1>9 DEF Next

LEMMA AwsStep ==
  ASSUME IInv, [Next]_vars
  PROVE  AwsInv'
<1>0. TypeOK /\ TypeOK' /\ FilesOK /\ AwsInv
  BY TypeStep DEF IInv
<1> USE <1>0, TornIsNoToken
    DEF At, GoTo, Remember, Return, service, disk, memory, AwsInv, Within, InHand, TypeOK
<1>1. CASE UNCHANGED vars
  BY <1>1 DEF vars
<1>2. ASSUME NEW h \in Holders, Claude(h) PROVE AwsInv'
  BY <1>2 DEF Claude, ServeCached, LoadFails, LoadUsable, LoadExpired, SaveOpens, SaveWrites, SaveRenames, SaveFails
<1>3. ASSUME NEW h \in Holders, Codex(h) PROVE AwsInv'
  BY <1>3 DEF Codex, LoadAuth, ServeHeld, RefreshHeld, KeepAnswer, KeepUnsaved, SaveHeld, SaveHeldFails
<1>4. ASSUME NEW h \in Holders, Aws(h) PROVE AwsInv'
  <2>1. CASE ServeShared(h)  BY <2>1 DEF ServeShared
  <2>2. CASE Presign(h)
    <3>1. PICK until \in now..(MaxTime + Life) :
            hand' = [hand EXCEPT ![h] = Presigned(until)]
      BY <2>2 DEF Presign
    <3>2. Within(Presigned(until))
      BY <3>1 DEF Presigned, TokenTTL, AwsToken, Times
    <3>3. QED  BY <2>2, <3>1, <3>2 DEF Presign
  <2>3. CASE Share(h)  BY <2>3 DEF Share
  <2>4. CASE PresignFails(h)  BY <2>4 DEF PresignFails
  <2>5. QED  BY <1>4, <2>1, <2>2, <2>3, <2>4 DEF Aws
<1>5. ASSUME NEW h \in Holders, Granted(h) PROVE AwsInv'
  BY <1>5 DEF Granted, Token
<1>6. ASSUME NEW h \in Holders, Refused(h) PROVE AwsInv'
  BY <1>6 DEF Refused
<1>7. ASSUME NEW h \in Holders, Unanswered(h) PROVE AwsInv'
  BY <1>7 DEF Unanswered
<1>8. ASSUME NEW h \in Holders, Crash(h) PROVE AwsInv'
  BY <1>8 DEF Crash, LosesAnswer, NewPlace
<1>9. CASE Tick
  BY <1>9 DEF Tick
<1>10. QED
  BY <1>1, <1>2, <1>3, <1>4, <1>5, <1>6, <1>7, <1>8, <1>9 DEF Next
-----------------------------------------------------------------------------
LEMMA InvariantHolds == Spec => []IInv
<1>1. IInv /\ [Next]_vars => IInv'
  BY TypeStep, FilesStep, ClaudeStep, CodexStep, AwsStep DEF IInv
<1>2. QED  BY InitHolds, <1>1, PTL DEF Spec

\* Every variable has its type: no expiry passes the clock's bound, none but whole tokens
\* are written (oauth.go, codex/auth.go, mantleauth/token.go).
THEOREM TypeCorrect == Spec => []TypeOK
<1>1. IInv => TypeOK
  BY DEF IInv
<1>2. QED  BY InvariantHolds, <1>1, PTL

\* With a service that rotates, any number of processes that save, stop or fail leave the
\* credentials file whole: the one with a token to write is alone on <path>.tmp
\* (oauth.go:232-241).
THEOREM CredentialsSafe == Spec => []CredentialsWhole
<1>1. IInv => CredentialsWhole
  BY DEF IInv, ClaudeInv, CredentialsWhole
<1>2. QED  BY InvariantHolds, <1>1, PTL

\* Unless an answer was lost, the accepted refresh token is in the file or in the hand of
\* who will write it, for any number of processes of either kind (oauth.go:88-97,
\* codex/auth.go:178-198).
THEOREM StoredSafe == Spec => []StoredUnlessLost
<1>1. ASSUME IInv, rotates, file # Torn
      PROVE  \/ file.refresh = current
             \/ lost
             \/ \E h \in Holders : pc[h] \in InHand /\ hand[h].refresh = current
  <2>1. CASE store = "claude"
    BY <1>1, <2>1 DEF IInv, ClaudeInv, StoredOrInHand, Alone
  <2>2. CASE store = "codex"
    BY <1>1, <2>2 DEF IInv, CodexInv, StoredOrInHand, Alone
  <2>3. CASE store = "aws"
    BY <1>1, <2>3 DEF IInv, AwsInv
  <2>4. QED  BY <1>1, <2>1, <2>2, <2>3 DEF IInv, TypeOK
<1>2. IInv => StoredUnlessLost
  BY <1>1 DEF StoredUnlessLost
<1>3. QED  BY InvariantHolds, <1>2, PTL

\* Of any number of concurrent calls, whichever keeps its token last, none is kept beyond
\* the credentials it was made with (mantleauth/token.go:87-100).
THEOREM CachedSafe == Spec => []CachedWithinCredentials
<1>1. IInv => CachedWithinCredentials
  BY DEF IInv, AwsInv, Within, CachedWithinCredentials
<1>2. QED  BY InvariantHolds, <1>1, PTL

\* A holder is refused only if its refresh token was spent since it looked at the file
\* (oauth.go:77-91, codex/auth.go:178-187).
THEOREM RefusedSafe == Spec => RefusedOnlyIfOvertaken
<1>1. ASSUME IInv, [Next]_vars, NEW h \in Holders,
             pc[h] = "ask", pc'[h] = "idle", result'[h] = "refused"
      PROVE  seen[h] # current
  <2>1. store # "aws" /\ hand[h].refresh = seen[h]
    BY <1>1 DEF IInv, AwsInv, FilesOK, HolderOK
  <2> USE <1>1, <2>1 DEF IInv, TypeOK, At, GoTo, Return, InHand
  <2>2. CASE UNCHANGED vars
    BY <2>2 DEF vars
  <2>3. ASSUME NEW g \in Holders, Claude(g) \/ Codex(g) \/ Aws(g) PROVE FALSE
    BY <2>3 DEF Claude, Codex, Aws, ServeCached, LoadFails, LoadUsable, LoadExpired, SaveOpens,
       SaveWrites, SaveRenames, SaveFails, LoadAuth, ServeHeld, RefreshHeld, KeepAnswer,
       KeepUnsaved, SaveHeld, SaveHeldFails, ServeShared, Presign, Share, PresignFails
  <2>4. ASSUME NEW g \in Holders, Granted(g) PROVE FALSE
    BY <2>4 DEF Granted
  <2>5. ASSUME NEW g \in Holders, Unanswered(g) \/ Crash(g) PROVE FALSE
    BY <2>5 DEF Unanswered, Crash
  <2>6. ASSUME NEW g \in Holders, Refused(g) PROVE seen[h] # current
    BY <2>6 DEF Refused
  <2>7. CASE Tick
    BY <2>7 DEF Tick
  <2>8. QED  BY <2>2, <2>3, <2>4, <2>5, <2>6, <2>7 DEF Next
<1>2. IInv /\ [Next]_vars =>
        [\A h \in Holders : pc[h] = "ask" /\ pc'[h] = "idle" /\ result'[h] = "refused"
           => seen[h] # current]_vars
  BY <1>1
<1>3. QED  BY InvariantHolds, <1>2, PTL DEF Spec, RefusedOnlyIfOvertaken
=============================================================================
