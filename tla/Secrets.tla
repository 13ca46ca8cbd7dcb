-------------------------------- MODULE Secrets --------------------------------
(***************************************************************************)
(* Where credentials are kept (packages/institutions/src/secrets.ts and    *)
(* secrets-windows.ts): the environment first, then the platform's store.  *)
(* Windows' Credential Manager holds 2560 bytes per item, so a longer      *)
(* value is cut into pieces behind a sentinel; where its shim does not     *)
(* compile a file of protected blobs stands in.  Every touch of the        *)
(* Credential Manager is a process of its own, which may fail, and the    *)
(* host may die between two of them.                                       *)
(***************************************************************************)
EXTENDS Naturals, Sequences, FiniteSets

CONSTANTS Targets,    \* <service>/<account>
          SecretValues, \* what may be stored
          Pieces,     \* how many pieces a value needs, 0 when one item holds it
          Platforms,  \* of {"manager", "file", "keychain"}
          NoValue,    \* nothing stored, nothing read
          Unread,       \* not in the cache
          Torn,       \* bytes that nobody stored
          FromEnv,    \* the environment's value
          MaxCallUpsets   \* bound on failed calls and deaths

ASSUME PiecesAssumption == Pieces \in [SecretValues -> Nat \ {1}]
ASSUME LongestAssumption == \E v \in SecretValues : \A w \in SecretValues : Pieces[w] <= Pieces[v]
ASSUME SentinelsAssumption ==
  /\ NoValue # Unread /\ NoValue # Torn /\ NoValue # FromEnv /\ Unread # Torn /\ Unread # FromEnv
  /\ {NoValue, Unread, Torn, FromEnv} \cap SecretValues = {}
  /\ NoValue \notin [of : SecretValues, piece : Nat] \cup [pieces : Nat]
ASSUME CallUpsetsAssumption == MaxCallUpsets \in Nat

MaxPieces == CHOOSE n \in {Pieces[v] : v \in SecretValues} : \A v \in SecretValues : Pieces[v] <= n

(* An item: the piece of a value (0, all of it), or the count of pieces.   *)
StoreItems == [of : SecretValues, piece : 0 .. MaxPieces] \cup [pieces : 2 .. MaxPieces] \cup {NoValue}

VARIABLES
  platform,
  envSecrets,  \* targets the environment gives a value
  held,        \* per target: item 0 under its name, the pieces under name#i
  blobsParse,  \* does the blob file parse?
  secretCache, \* in the process: a value, NoValue for none, or Unread
  call,        \* the call under way
  readAs,      \* the last answer of get: whether a call failed on the way
  mayHold,     \* what each target may truly hold
  torn,      \* targets whose pieces were being replaced when a write was cut
  callUpsets

SecretsVars ==
  <<platform, envSecrets, held, blobsParse, secretCache, call, readAs, mayHold, torn, callUpsets>>

NoCall == [kind |-> "none", target |-> NoValue, value |-> NoValue, at |-> 0, got |-> <<>>, sweep |-> {}]
BetweenCalls == call.kind = "none"
NothingHeld == [i \in 0 .. MaxPieces |-> NoValue]

SecretsTypeOK ==
  /\ platform \in Platforms
  /\ envSecrets \subseteq Targets /\ torn \subseteq Targets
  /\ held \in [Targets -> [0 .. MaxPieces -> StoreItems]]
  /\ blobsParse \in BOOLEAN
  /\ secretCache \in [Targets -> SecretValues \cup {NoValue, Torn, Unread}]
  /\ call.kind \in {"none", "get", "set", "tail", "delete", "sweep"}
  /\ call.at \in 0 .. MaxPieces + 1 /\ call.sweep \subseteq Targets
  /\ readAs.value \in SecretValues \cup {NoValue, Torn, FromEnv}
  /\ mayHold \in [Targets -> SUBSET (SecretValues \cup {NoValue})]
  /\ callUpsets \in 0 .. MaxCallUpsets

(* A store that holds v and nothing else, whole.                           *)
StoreOf(v, platf) ==
  [i \in 0 .. MaxPieces |->
     IF v = NoValue THEN NoValue
     ELSE IF platf # "manager" \/ Pieces[v] = 0 THEN IF i = 0 THEN [of |-> v, piece |-> 0] ELSE NoValue
     ELSE IF i = 0 THEN [pieces |-> Pieces[v]]
     ELSE IF i <= Pieces[v] THEN [of |-> v, piece |-> i] ELSE NoValue]

(* The process starts with what earlier ones have stored.                  *)
SecretsInit ==
  /\ platform \in Platforms
  /\ envSecrets \in {{}} \cup {{t} : t \in Targets}
  /\ \E before \in [Targets -> SecretValues \cup {NoValue}] :
       /\ held = [t \in Targets |-> StoreOf(before[t], platform)]
       /\ mayHold = [t \in Targets |-> {before[t]}]
  /\ blobsParse = TRUE
  /\ secretCache = [t \in Targets |-> Unread]
  /\ call = NoCall
  /\ readAs = [target |-> NoValue, value |-> NoValue, failed |-> FALSE]
  /\ torn = {}
  /\ callUpsets = 0

-----------------------------------------------------------------------------
(* What a whole chain of pieces decodes to.                                *)

WholeOf(got) ==
  LET is(v) == Len(got) = Pieces[v] /\ \A i \in 1 .. Len(got) : got[i] = [of |-> v, piece |-> i]
  IN IF \E v \in SecretValues : is(v) THEN CHOOSE v \in SecretValues : is(v) ELSE Torn

IsSentinel(item) == item # NoValue /\ "pieces" \in DOMAIN item

(* What the store holds for t, read with no call failing.                  *)
FreshRead(t) ==
  LET bare == held[t][0] IN
  IF bare = NoValue \/ ~blobsParse THEN NoValue
  ELSE IF ~IsSentinel(bare) THEN bare.of
  ELSE IF \E i \in 1 .. bare.pieces : held[t][i] = NoValue THEN NoValue
  ELSE WholeOf([i \in 1 .. bare.pieces |-> held[t][i]])

globMatches(t) == blobsParse /\ held[t][0] # NoValue     \* enumerate("fin-*")

-----------------------------------------------------------------------------
(* Steps of calls.  A failed call is an upset.                             *)

CallUpset == callUpsets < MaxCallUpsets /\ callUpsets' = callUpsets + 1
NoUpset == UNCHANGED callUpsets
SamePlatform == UNCHANGED <<platform, envSecrets>>

(* A call is over: with a sweep under way, on to its next target.          *)
CallOver == call' = [NoCall EXCEPT !.kind = IF call.sweep = {} THEN "none" ELSE "sweep", !.sweep = call.sweep]

ReadsAs(t, v, failed) ==
  /\ readAs' = [target |-> t, value |-> v, failed |-> failed]
  /\ call' = NoCall

(* Mutant of Cached: a read that failed is remembered as nothing.          *)
CachedAnyway(t, v, failed) == secretCache' = [secretCache EXCEPT ![t] = v]

(* Windows' stores remember what they read or wrote; a failure is          *)
(* transient and is not remembered.                                        *)
Cached(t, v, failed) ==
  secretCache' = IF failed \/ platform = "keychain" THEN secretCache ELSE [secretCache EXCEPT ![t] = v]

GetSecret(t) ==
  /\ BetweenCalls
  /\ IF t \in envSecrets
     THEN ReadsAs(t, FromEnv, FALSE)
     ELSE IF secretCache[t] # Unread
     THEN ReadsAs(t, secretCache[t], FALSE)
     ELSE call' = [NoCall EXCEPT !.kind = "get", !.target = t] /\ UNCHANGED readAs
  /\ UNCHANGED <<held, blobsParse, secretCache, mayHold, torn>> /\ NoUpset /\ SamePlatform

(* A spawn of a read that fails: null, and not remembered.                 *)
ReadFails ==
  /\ call.kind = "get" /\ CallUpset
  /\ ReadsAs(call.target, NoValue, TRUE)
  /\ Cached(call.target, NoValue, TRUE)
  /\ UNCHANGED <<held, blobsParse, mayHold, torn>> /\ SamePlatform

(* The item under the name: the value, or how many pieces to ask for.      *)
ReadBare ==
  LET bare == held[call.target][0] IN
  /\ call.kind = "get" /\ call.at = 0
  /\ IF blobsParse /\ IsSentinel(bare)
     THEN call' = [call EXCEPT !.at = 1] /\ UNCHANGED <<readAs, secretCache>>
     ELSE /\ ReadsAs(call.target, FreshRead(call.target), FALSE)
          /\ Cached(call.target, FreshRead(call.target), FALSE)
  /\ UNCHANGED <<held, blobsParse, mayHold, torn>> /\ NoUpset /\ SamePlatform

(* The next piece.  A missing one counts as none: null, unremembered.      *)
ReadPiece ==
  LET t == call.target
      n == held[t][0].pieces
      got == Append(call.got, held[t][call.at])
  IN
  /\ call.kind = "get" /\ call.at > 0
  /\ IF held[t][call.at] = NoValue
     THEN ReadsAs(t, NoValue, FALSE) /\ UNCHANGED secretCache
     ELSE IF call.at < n
     THEN call' = [call EXCEPT !.at = @ + 1, !.got = got] /\ UNCHANGED <<readAs, secretCache>>
     ELSE ReadsAs(t, WholeOf(got), FALSE) /\ secretCache' = [secretCache EXCEPT ![t] = WholeOf(got)]
  /\ UNCHANGED <<held, blobsParse, mayHold, torn>> /\ NoUpset /\ SamePlatform

(* Pieces are written before the sentinel that counts them.                *)
FirstWrite(v) == IF Pieces[v] > 0 THEN 1 ELSE 0

SetSecret(t, v) ==
  /\ BetweenCalls
  /\ call' = [NoCall EXCEPT !.kind = "set", !.target = t, !.value = v,
                        !.at = IF platform = "manager" THEN FirstWrite(v) ELSE 0]
  /\ UNCHANGED <<held, blobsParse, secretCache, readAs, mayHold, torn>> /\ NoUpset /\ SamePlatform

(* The call that stores is over: this is what the target holds now.        *)
SecretStored(t, v) ==
  /\ Cached(t, v, FALSE)
  /\ mayHold' = [mayHold EXCEPT ![t] = {v}]
  /\ torn' = torn \ {t}

WritePiece ==
  LET t == call.target IN
  /\ call.kind = "set" /\ call.at > 0
  /\ held' = [held EXCEPT ![t][call.at] = [of |-> call.value, piece |-> call.at]]
  /\ call' = [call EXCEPT !.at = IF @ < Pieces[call.value] THEN @ + 1 ELSE 0]
  /\ torn' = IF IsSentinel(held[t][0]) THEN torn \cup {t} ELSE torn
  /\ UNCHANGED <<blobsParse, secretCache, readAs, mayHold>> /\ NoUpset /\ SamePlatform

(* Mutant of TailFrom: the last piece of the new value goes with the tail. *)
TailFromLast(v) == IF Pieces[v] = 0 THEN 1 ELSE Pieces[v]

(* A longer value may have left pieces past those of this one.             *)
TailFrom(v) == Pieces[v] + 1

(* The item under the name.  On Windows, then the tail of an older value.  *)
WriteBare ==
  LET t == call.target  v == call.value IN
  /\ call.kind = "set" /\ call.at = 0 /\ platform = "manager"
  /\ held' = [held EXCEPT ![t][0] =
                 IF Pieces[v] > 0 THEN [pieces |-> Pieces[v]] ELSE [of |-> v, piece |-> 0]]
  /\ mayHold' = [mayHold EXCEPT ![t] = {v}]
  /\ call' = [call EXCEPT !.kind = "tail", !.at = TailFrom(v)]
  /\ torn' = torn \ {t}
  /\ UNCHANGED <<blobsParse, secretCache, readAs>> /\ NoUpset /\ SamePlatform

(* deleteChunkTail: piece after piece until one is not there.              *)
DeleteTail ==
  LET t == call.target
      last == call.at > MaxPieces \/ held[t][call.at] = NoValue
  IN
  /\ call.kind = "tail"
  /\ IF last
     THEN /\ CallOver
          /\ IF call.value = NoValue THEN UNCHANGED <<secretCache, mayHold, torn>> ELSE SecretStored(t, call.value)
          /\ UNCHANGED held
     ELSE /\ held' = [held EXCEPT ![t][call.at] = NoValue]
          /\ call' = [call EXCEPT !.at = @ + 1]
          /\ UNCHANGED <<secretCache, mayHold, torn>>
  /\ UNCHANGED <<blobsParse, readAs>> /\ NoUpset /\ SamePlatform

(* A delete that fails ends the tail where it is; the call itself goes on. *)
TailFails ==
  /\ call.kind = "tail" /\ CallUpset
  /\ CallOver
  /\ IF call.value = NoValue THEN UNCHANGED <<secretCache, mayHold, torn>> ELSE SecretStored(call.target, call.value)
  /\ UNCHANGED <<held, blobsParse, readAs>> /\ SamePlatform

(* A write that fails throws; what earlier writes left stays.              *)
WriteFails ==
  /\ call.kind = "set" /\ CallUpset
  /\ call' = NoCall
  /\ UNCHANGED <<held, blobsParse, secretCache, readAs, mayHold, torn>> /\ SamePlatform

(* Mutant of Entries: a file is written with what this process has seen.   *)
EntriesCached == [t \in Targets |-> IF secretCache[t] \in SecretValues THEN held[t] ELSE NothingHeld]

(* A file that does not parse counts as an empty one.                      *)
Entries == IF blobsParse THEN held ELSE [t \in Targets |-> NothingHeld]

(* The blob file is read, changed and written over; the keychain replaces  *)
(* one item.                                                               *)
WriteEntry ==
  LET t == call.target  v == call.value IN
  /\ call.kind = "set" /\ platform # "manager"
  /\ held' = [Entries EXCEPT ![t][0] = [of |-> v, piece |-> 0]]
  /\ blobsParse' = TRUE
  /\ call' = NoCall
  /\ SecretStored(t, v)
  /\ UNCHANGED readAs /\ NoUpset /\ SamePlatform

ForgetSecret(t) == secretCache' = [secretCache EXCEPT ![t] = Unread]

(* delete drops the cached value first, then the item and its pieces.      *)
DeleteSecretOf(t, rest) ==
  /\ ForgetSecret(t)
  /\ IF platform = "manager"
     THEN /\ \/ /\ held' = [held EXCEPT ![t][0] = NoValue]
                /\ mayHold' = [mayHold EXCEPT ![t] = {NoValue}] /\ torn' = torn \ {t} /\ NoUpset
             \/ /\ CallUpset
                /\ mayHold' = [mayHold EXCEPT ![t] = @ \cup {NoValue}] /\ UNCHANGED <<held, torn>>
          /\ call' = [NoCall EXCEPT !.kind = "tail", !.target = t, !.at = 1, !.sweep = rest]
          /\ UNCHANGED blobsParse
     ELSE /\ \/ /\ held' = [Entries EXCEPT ![t][0] = NoValue]
                /\ blobsParse' = (blobsParse \/ Entries[t][0] # NoValue)
                /\ mayHold' = [mayHold EXCEPT ![t] = {NoValue}] /\ NoUpset
             \/ /\ platform = "keychain" /\ CallUpset
                /\ mayHold' = [mayHold EXCEPT ![t] = @ \cup {NoValue}] /\ UNCHANGED <<held, blobsParse>>
          /\ call' = [NoCall EXCEPT !.kind = IF rest = {} THEN "none" ELSE "sweep", !.sweep = rest]
          /\ UNCHANGED torn
  /\ UNCHANGED readAs /\ SamePlatform

DeleteSecret(t) == BetweenCalls /\ DeleteSecretOf(t, {})

(* Everything goes: what the store lists under fin-*, one delete each.  A  *)
(* listing that fails is an empty one.                                     *)
SweepSecrets ==
  /\ BetweenCalls /\ platform # "keychain"
  /\ \E all \in {{t \in Targets : globMatches(t)}, {}} :
       /\ IF all = {} /\ \E t \in Targets : globMatches(t) THEN CallUpset ELSE NoUpset
       /\ call' = [NoCall EXCEPT !.kind = IF all = {} THEN "none" ELSE "sweep", !.sweep = all]
  /\ UNCHANGED <<held, blobsParse, secretCache, readAs, mayHold, torn>> /\ SamePlatform

SweepNextSecret == call.kind = "sweep" /\ \E t \in call.sweep : DeleteSecretOf(t, call.sweep \ {t})

(* The host dies.  A blob file being written over is cut.                  *)
KillSecrets ==
  /\ CallUpset
  /\ call' = NoCall
  /\ secretCache' = [t \in Targets |-> Unread]
  /\ \/ UNCHANGED <<blobsParse, held, torn>>
     \/ /\ platform = "file" /\ call.kind \in {"set", "sweep"}
        /\ blobsParse' = FALSE
        /\ torn' = Targets
        /\ UNCHANGED held
  /\ UNCHANGED <<readAs, mayHold>> /\ SamePlatform

SecretsNext ==
  \/ \E t \in Targets : GetSecret(t) \/ DeleteSecret(t) \/ \E v \in SecretValues : SetSecret(t, v)
  \/ ReadFails \/ ReadBare \/ ReadPiece
  \/ WritePiece \/ WriteBare \/ WriteEntry \/ WriteFails
  \/ DeleteTail \/ TailFails
  \/ SweepSecrets \/ SweepNextSecret
  \/ KillSecrets

-----------------------------------------------------------------------------
(* Properties.                                                             *)

(* Whatever calls fail and whenever the host dies, get answers with what   *)
(* was last stored, whole, and with null only where nothing is stored or a *)
(* call of that very read failed -- except for a value of several pieces   *)
(* that was being replaced by another such value when the writing was cut, *)
(* whose sentinel then counts pieces of two values, and for a blob file    *)
(* cut while it was written.                                               *)
ReadsWhole ==
  [][readAs' # readAs =>
       LET t == readAs'.target IN
       \/ t \in envSecrets /\ readAs'.value = FromEnv
       \/ readAs'.value \in mayHold[t]
       \/ readAs'.failed /\ readAs'.value = NoValue
       \/ t \in torn]_SecretsVars

(* Between calls the process remembers only what a fresh read would give;  *)
(* no failure hides a stored credential for the life of the process.       *)
CacheTrue ==
  BetweenCalls => \A t \in Targets \ torn : secretCache[t] \in {Unread, FreshRead(t)}

(* Where no call failed, replacing and deleting leave no piece of an older *)
(* value behind: the pieces there are those the sentinel counts.           *)
NoPieceLeft ==
  BetweenCalls /\ callUpsets = 0 =>
    \A t \in Targets :
      {i \in 1 .. MaxPieces : held[t][i] # NoValue} =
        IF IsSentinel(held[t][0]) THEN 1 .. held[t][0].pieces ELSE {}
=============================================================================
