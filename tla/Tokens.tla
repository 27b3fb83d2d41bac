------------------------------- MODULE Tokens --------------------------------
(***************************************************************************)
(* The tokens that clients authenticate with.  A holder is a provider of   *)
(* tokens in a process of its own; all of them share one account:          *)
(*                                                                         *)
(*   claude  ManagedTokenProvider over LocalTokenStore (oauth.go): loads   *)
(*           the credentials file when its cached token has expired and,   *)
(*           after a refresh, replaces it by way of <path>.tmp             *)
(*   codex   Auth (codex/auth.go): loads the auth file once, refreshes     *)
(*           from memory, overwrites the file in place                     *)
(*   aws     AWSTokenProvider (mantleauth): no file; here the holders are  *)
(*           concurrent calls of one provider, unlocked while they presign *)
(*                                                                         *)
(* A token has the number of its refresh token and the time it counts as   *)
(* expired.  The service knows one refresh token; a service that rotates   *)
(* spends it by its use and answers with the next.                         *)
(***************************************************************************)
EXTENDS Naturals

CONSTANTS Holders,
          Stores,       \* those of claude, codex and aws that are looked at
          Life,         \* how long an access token lasts
          Skew,         \* how long before its end it is no longer used
          MaxRefresh,   \* bound on the refresh tokens the service issues
          MaxTime,      \* bound on the clock
          None

ASSUME TokensAssumption ==
  /\ Stores \subseteq {"claude", "codex", "aws"}
  /\ Life \in Nat /\ Skew \in Nat /\ Skew < Life
  /\ MaxRefresh \in Nat /\ MaxTime \in Nat

Times == 0..(MaxTime + Life)
Token == [refresh : 0..MaxRefresh, expires : Times]
AwsToken == [expires : Times, until : Times]
Torn == [torn |-> TRUE]

ASSUME NoneIsNoFile == None \notin Token \cup AwsToken \cup {Torn}

VARIABLES store,    \* whose holders these are
          now,
          rotates,  \* whether the service rotates refresh tokens
          current,  \* the refresh token it accepts
          lost,     \* whether its answer to a refresh was lost, or never stored
          file,     \* the credentials file: a token, or Torn
          tmp,      \* <path>.tmp, or None
          fd,       \* the file each holder is writing, by its present name
          pc,       \* where its call of Token is
          cached,   \* the token it has in memory
          hand,     \* the token its call works with
          seen,     \* the refresh token that was stored when it last looked
          result    \* how its last call ended

service == <<rotates, current, lost>>
disk == <<file, tmp, fd>>
memory == <<cached, hand, seen>>
vars == <<store, now, service, disk, pc, result, memory>>

NewPlace == IF store = "codex" THEN "down" ELSE "idle"

Init ==
  /\ store \in Stores
  /\ rotates \in BOOLEAN
  /\ now = 0 /\ current = 0 /\ lost = FALSE
  /\ file = [refresh |-> 0, expires |-> 0] /\ tmp = None
  /\ fd = [h \in Holders |-> "none"]
  /\ pc = [h \in Holders |-> NewPlace]
  /\ cached = [h \in Holders |-> None]
  /\ hand = [h \in Holders |-> None]
  /\ seen = [h \in Holders |-> 0]
  /\ result = [h \in Holders |-> "none"]

At(h, s, place) == store = s /\ pc[h] = place

GoTo(h, place) == pc' = [pc EXCEPT ![h] = place]

Remember(h, token) == cached' = [cached EXCEPT ![h] = token]

\* A call of Token returns, and the mutex of its provider is free.
Return(h, res) ==
  /\ GoTo(h, "idle")
  /\ hand' = [hand EXCEPT ![h] = None]
  /\ result' = [result EXCEPT ![h] = res]

\* oauth.go counts the last moment as usable, auth.go and token.go do not.
Expired(token) ==
  IF store = "claude" THEN now + Skew > token.expires ELSE now + Skew >= token.expires
Usable(token) == token # None /\ ~Expired(token)

-----------------------------------------------------------------------------
\* os.WriteFile truncates what it opens, then writes; a holder that has a file open
\* goes on with it under the name that a rename gives it.
OpenFile(h) == fd' = [fd EXCEPT ![h] = "file"] /\ file' = Torn /\ UNCHANGED tmp
OpenTmp(h) == fd' = [fd EXCEPT ![h] = "tmp"] /\ tmp' = Torn /\ UNCHANGED file

\* Two writers of one file leave the one's bytes, or the end of the longer behind the shorter.
Write(h, token) ==
  LET Over(old) == IF old = Torn THEN {token} ELSE {token, Torn}
  IN  /\ fd' = [fd EXCEPT ![h] = "none"]
      /\ file' \in IF fd[h] = "file" THEN Over(file) ELSE {file}
      /\ tmp' \in IF fd[h] = "tmp" THEN Over(tmp) ELSE {tmp}

Renamed == [tmp |-> "file", file |-> "gone", none |-> "none", gone |-> "gone"]

Rename ==
  /\ tmp # None
  /\ file' = tmp /\ tmp' = None
  /\ fd' = [g \in Holders |-> Renamed[fd[g]]]

-----------------------------------------------------------------------------
\* The refresh token is posted: the service answers with a new access token ...
Granted(h) ==
  /\ pc[h] = "ask" /\ hand[h].refresh = current
  /\ current < MaxRefresh
  /\ current' = IF rotates THEN current + 1 ELSE current
  /\ hand' = [hand EXCEPT ![h] = [refresh |-> current', expires |-> now + Life]]
  /\ GoTo(h, "answered")
  /\ UNCHANGED <<store, now, rotates, lost, disk, cached, seen, result>>

\* ... refuses ...
Refused(h) ==
  /\ pc[h] = "ask" /\ hand[h].refresh # current
  /\ Return(h, "refused")
  /\ UNCHANGED <<store, now, service, disk, cached, seen>>

\* ... or is not heard, though it may have spent the refresh token.
Unanswered(h) ==
  /\ pc[h] = "ask"
  /\ \/ UNCHANGED <<current, lost>>
     \/ /\ rotates /\ hand[h].refresh = current /\ current < MaxRefresh
        /\ current' = current + 1 /\ lost' = TRUE
  /\ Return(h, "error")
  /\ UNCHANGED <<store, now, rotates, disk, cached, seen>>

\* What a holder was granted and has not stored is gone for good.
LosesAnswer(h) == lost' = (lost \/ (rotates /\ pc[h] \in {"answered", "write", "rename"}))

\* The process stops at any point; claude's starts anew, codex's must load the file again.
Crash(h) ==
  /\ store # "aws"
  /\ LosesAnswer(h)
  /\ fd' = [fd EXCEPT ![h] = "none"]
  /\ GoTo(h, NewPlace)
  /\ Remember(h, None)
  /\ hand' = [hand EXCEPT ![h] = None]
  /\ seen' = [seen EXCEPT ![h] = 0]
  /\ result' = [result EXCEPT ![h] = "none"]
  /\ UNCHANGED <<store, now, rotates, current, file, tmp>>

-----------------------------------------------------------------------------
\* claude.  Token: the cached token, or the file's, or a refresh of the file's.
ServeCached(h) ==
  /\ At(h, "claude", "idle") /\ Usable(cached[h])
  /\ Return(h, "ok")
  /\ UNCHANGED <<store, now, service, disk, cached, seen>>

LoadFails(h) ==
  /\ At(h, "claude", "idle") /\ ~Usable(cached[h])
  /\ file = Torn
  /\ Return(h, "error")
  /\ UNCHANGED <<store, now, service, disk, cached, seen>>

LoadUsable(h) ==
  /\ At(h, "claude", "idle") /\ ~Usable(cached[h])
  /\ file # Torn /\ ~Expired(file)
  /\ Return(h, "ok")
  /\ Remember(h, file)
  /\ UNCHANGED <<store, now, service, disk, seen>>

\* Bug: an expired token is refreshed from memory, whatever the file holds by now.
LoadExpiredCached(h) ==
  /\ At(h, "claude", "idle") /\ ~Usable(cached[h])
  /\ file # Torn /\ Expired(file)
  /\ hand' = [hand EXCEPT ![h] = IF cached[h] = None THEN file ELSE cached[h]]
  /\ seen' = [seen EXCEPT ![h] = file.refresh]
  /\ GoTo(h, "ask")
  /\ UNCHANGED <<store, now, service, disk, cached, result>>

LoadExpired(h) ==
  /\ At(h, "claude", "idle") /\ ~Usable(cached[h])
  /\ file # Torn /\ Expired(file)
  /\ hand' = [hand EXCEPT ![h] = file]
  /\ seen' = [seen EXCEPT ![h] = file.refresh]
  /\ GoTo(h, "ask")
  /\ UNCHANGED <<store, now, service, disk, cached, result>>

\* Bug: the credentials are written where they are read.
SaveOpensInPlace(h) ==
  /\ At(h, "claude", "answered") /\ file # Torn
  /\ OpenFile(h)
  /\ GoTo(h, "write")
  /\ UNCHANGED <<store, now, service, memory, result>>

\* Save reads the file for its other fields, and gives up on one it cannot parse.
SaveOpens(h) ==
  /\ At(h, "claude", "answered") /\ file # Torn
  /\ OpenTmp(h)
  /\ GoTo(h, "write")
  /\ UNCHANGED <<store, now, service, memory, result>>

SaveWrites(h) ==
  /\ At(h, "claude", "write")
  /\ Write(h, hand[h])
  /\ GoTo(h, "rename")
  /\ UNCHANGED <<store, now, service, memory, result>>

SaveRenames(h) ==
  /\ At(h, "claude", "rename")
  /\ Rename
  /\ Return(h, "ok")
  /\ Remember(h, hand[h])
  /\ UNCHANGED <<store, now, service, seen>>

\* A step of Save fails, and Token keeps nothing.  A rename that fails, if only because
\* another has renamed the file, removes it.
SaveFails(h) ==
  /\ store = "claude" /\ pc[h] \in {"answered", "write", "rename"}
  /\ LosesAnswer(h)
  /\ IF pc[h] = "rename"
     THEN /\ tmp' = None
          /\ fd' = [g \in Holders |-> IF fd[g] = "tmp" THEN "gone" ELSE fd[g]]
     ELSE /\ UNCHANGED tmp
          /\ fd' = [fd EXCEPT ![h] = "none"]
  /\ Return(h, "error")
  /\ UNCHANGED <<store, now, rotates, current, file, cached, seen>>

-----------------------------------------------------------------------------
\* codex.  LoadAuth, which fails on a file it cannot parse.
LoadAuth(h) ==
  /\ At(h, "codex", "down") /\ file # Torn
  /\ Remember(h, file)
  /\ seen' = [seen EXCEPT ![h] = file.refresh]
  /\ GoTo(h, "idle")
  /\ UNCHANGED <<store, now, service, disk, hand, result>>

ServeHeld(h) ==
  /\ At(h, "codex", "idle") /\ Usable(cached[h])
  /\ Return(h, "ok")
  /\ UNCHANGED <<store, now, service, disk, cached, seen>>

\* refreshLocked, with the refresh token in memory.
RefreshHeld(h) ==
  /\ At(h, "codex", "idle") /\ Expired(cached[h])
  /\ hand' = [hand EXCEPT ![h] = cached[h]]
  /\ GoTo(h, "ask")
  /\ UNCHANGED <<store, now, service, disk, cached, seen, result>>

\* Bug: the refresh token of the answer is dropped.
KeepAccessOnly(h) ==
  /\ At(h, "codex", "answered")
  /\ OpenFile(h)
  /\ Remember(h, [cached[h] EXCEPT !.expires = hand[h].expires])
  /\ seen' = [seen EXCEPT ![h] = hand[h].refresh]
  /\ GoTo(h, "write")
  /\ UNCHANGED <<store, now, service, hand, result>>

\* The answer is in memory when saveLocked opens the file.
KeepAnswer(h) ==
  /\ At(h, "codex", "answered")
  /\ OpenFile(h)
  /\ Remember(h, hand[h])
  /\ seen' = [seen EXCEPT ![h] = hand[h].refresh]
  /\ GoTo(h, "write")
  /\ UNCHANGED <<store, now, service, hand, result>>

SaveHeld(h) ==
  /\ At(h, "codex", "write")
  /\ Write(h, cached[h])
  /\ Return(h, "ok")
  /\ UNCHANGED <<store, now, service, cached, seen>>

\* WriteFile fails behind its truncation, or before it opens the file; nobody is told.
SaveHeldFails(h) ==
  /\ At(h, "codex", "write")
  /\ LosesAnswer(h)
  /\ fd' = [fd EXCEPT ![h] = "none"]
  /\ Return(h, "ok")
  /\ UNCHANGED <<store, now, rotates, current, file, tmp, cached, seen>>

KeepUnsaved(h) ==
  /\ At(h, "codex", "answered")
  /\ LosesAnswer(h)
  /\ Return(h, "ok")
  /\ Remember(h, hand[h])
  /\ seen' = [seen EXCEPT ![h] = hand[h].refresh]
  /\ UNCHANGED <<store, now, rotates, current, disk>>

-----------------------------------------------------------------------------
\* aws.  What the calls share is cached of each of them.
ServeShared(h) ==
  /\ At(h, "aws", "idle") /\ Usable(cached[h])
  /\ Return(h, "ok")
  /\ UNCHANGED <<store, now, service, disk, cached, seen>>

\* tokenTTL: credentials that have ended do not shorten it.
TokenTTL(until) == IF until \in (now + 1)..(now + Life - 1) THEN until - now ELSE Life

\* Bug: the lifetime has been shortened for the credentials already.
PresignedForTTL(until) == [expires |-> now + TokenTTL(until), until |-> until]

\* The token counts as expired when it is or, before that, its credentials are.
Presigned(until) ==
  [expires |-> IF until < now + TokenTTL(until) THEN until ELSE now + TokenTTL(until),
   until |-> until]

\* With the mutex free, the credentials are read and the token is made with them.
Presign(h) ==
  /\ At(h, "aws", "idle") /\ ~Usable(cached[h])
  /\ \E until \in now..(MaxTime + Life) : hand' = [hand EXCEPT ![h] = Presigned(until)]
  /\ GoTo(h, "answered")
  /\ UNCHANGED <<store, now, service, disk, cached, seen, result>>

\* The mutex again: the last to get here is whose token is kept.
Share(h) ==
  /\ At(h, "aws", "answered")
  /\ Return(h, "ok")
  /\ cached' = [g \in Holders |-> hand[h]]
  /\ UNCHANGED <<store, now, service, disk, seen>>

PresignFails(h) ==
  /\ At(h, "aws", "answered")
  /\ Return(h, "error")
  /\ UNCHANGED <<store, now, service, disk, cached, seen>>

Tick ==
  /\ now < MaxTime
  /\ now' = now + 1
  /\ UNCHANGED <<store, service, disk, pc, result, memory>>

-----------------------------------------------------------------------------
Claude(h) ==
  \/ ServeCached(h) \/ LoadFails(h) \/ LoadUsable(h) \/ LoadExpired(h)
  \/ SaveOpens(h) \/ SaveWrites(h) \/ SaveRenames(h) \/ SaveFails(h)

Codex(h) ==
  \/ LoadAuth(h) \/ ServeHeld(h) \/ RefreshHeld(h) \/ KeepAnswer(h)
  \/ KeepUnsaved(h) \/ SaveHeld(h) \/ SaveHeldFails(h)

Aws(h) == ServeShared(h) \/ Presign(h) \/ Share(h) \/ PresignFails(h)

Next ==
  \/ \E h \in Holders :
       \/ Claude(h) \/ Codex(h) \/ Aws(h)
       \/ Granted(h) \/ Refused(h) \/ Unanswered(h) \/ Crash(h)
  \/ Tick

Spec == Init /\ [][Next]_vars
-----------------------------------------------------------------------------
InHand == {"answered", "write", "rename"}

\* Types of all variables.
TypeOK ==
  /\ store \in Stores /\ rotates \in BOOLEAN /\ lost \in BOOLEAN
  /\ now \in 0..MaxTime /\ current \in 0..MaxRefresh
  /\ file \in Token \cup {Torn}
  /\ tmp \in Token \cup {Torn, None}
  /\ fd \in [Holders -> {"none", "file", "tmp", "gone"}]
  /\ pc \in [Holders -> {"down", "idle", "ask"} \cup InHand]
  /\ cached \in [Holders -> Token \cup AwsToken \cup {None}]
  /\ hand \in [Holders -> Token \cup AwsToken \cup {None}]
  /\ seen \in [Holders -> 0..MaxRefresh]
  /\ result \in [Holders -> {"none", "ok", "refused", "error"}]

\* A credentials file that is replaced by a rename is whole at every moment, whatever
\* process stops or fails in Save: though all of them use the same temporary file, with
\* a service that rotates only one at a time can have a token to write (oauth.go:232-241).
CredentialsWhole == store = "claude" /\ rotates => file # Torn

\* The refresh token that is stored is the one the service accepts, but for the time in
\* which a holder has the new one in hand, and unless an answer was lost: two processes
\* that refresh at once do not lose it between them (oauth.go:88-97, auth.go:178-198).
StoredUnlessLost ==
  rotates /\ file # Torn =>
    \/ file.refresh = current
    \/ lost
    \/ \E h \in Holders : pc[h] \in InHand /\ hand[h].refresh = current

\* No token is cached beyond the credentials it was made with (token.go:87-100).
CachedWithinCredentials ==
  store = "aws" => \A h \in Holders :
    cached[h] # None => cached[h].expires <= cached[h].until

\* A holder is refused only because the refresh token has been spent since this one looked
\* at the file, claude in the same call, codex when it started or refreshed last: what was
\* already overtaken then is never posted (oauth.go:77-91, auth.go:178-187).
RefusedOnlyIfOvertaken ==
  [][\A h \in Holders : pc[h] = "ask" /\ pc'[h] = "idle" /\ result'[h] = "refused"
       => seen[h] # current]_vars
=============================================================================
