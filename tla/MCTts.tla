------------------------------- MODULE MCTts --------------------------------
(***************************************************************************)
(* Speech of an answer: the gateway's synthesis service, its file cache,   *)
(* the response of the service it calls, and the mini program that reads   *)
(* the answer aloud. One run explores each of them.                        *)
(***************************************************************************)
EXTENDS TtsService, MiniSpeech

CONSTANTS k1, k2, k3, c1, p1, p2, j1, j2

VARIABLES
    part,  \* the component this behaviour is of
    \* TtsAudio
    fileAudio, fileMeta, order, stale, proc, missed, mixed, puts, crashes, sse, sent,
    body, buffer, chunks, finish, result

\* Bodies of the speech service: several events in one block run, both kinds of
\* line end, a last block without its blank line, and JSON objects whose
\* strings hold braces, escaped quotes and backslashes.
Line(p) == <<"data", p>>
LF2 == <<"LF", "LF">>
CRLF2 == <<"CR", "LF", "CR", "LF">>
Sse ==
  { Line("a1") \o LF2 \o Line("a2") \o LF2 \o Line("finish") \o LF2,
    Line("a1") \o CRLF2 \o Line("sentence") \o CRLF2 \o Line("a2") \o CRLF2,
    Line("a2") \o CRLF2 \o Line("error") \o CRLF2 \o Line("a1") \o CRLF2,
    Line("a1") \o LF2 \o <<"LF">> \o Line("finish") \o <<"LF">> \o LF2 \o Line("a2") }

Obj(p) == <<"{", p, "}">>
Quoted(p, q) == <<"{", p, "\"", q, "\"", "}">>
Json ==
  { Obj("a1") \o Obj("a2") \o Obj("finish"),
    Quoted("a1", "}") \o Quoted("a2", "{") \o Obj("finish"),
    <<"{", "a2", "\"", "\\", "\"", "}", "\"", "}">> \o Obj("a1"),
    <<"{", "a1", "\"", "\\", "\\", "\"", "}">> \o <<"{", "{", "}", "error", "}">> }

Audio == INSTANCE TtsAudio WITH
    Keys <- {k1, k2}, Procs <- {p1, p2}, Sizes <- {2, 3}, MaxTotal <- 4, MaxPuts <- 2,
    MaxCrash <- 1, audio <- fileAudio, meta <- fileMeta, SseBodies <- Sse,
    JsonBodies <- Json

cacheVars == <<fileAudio, fileMeta, order, stale, proc, missed, mixed, puts, crashes>>
streamVars == <<sse, sent, body, buffer, chunks, finish, result>>

\* One component runs, the others stay as they start.
Parts == {"service", "cache", "stream", "reading"}
all == <<part, vars, cacheVars, streamVars, readingVars, dictationVars>>

SpeechInit ==
  /\ part \in Parts
  /\ Init
  /\ Audio!CacheInit
  /\ Audio!StreamInit
  /\ part # "stream" => sse /\ body = (CHOOSE b \in Sse : TRUE)
  /\ ReadingInit
  /\ DictationInit

SpeechNext ==
  /\ UNCHANGED part
  /\ IF part = "service" THEN Next ELSE UNCHANGED vars
  /\ IF part = "cache" THEN Audio!CacheNext ELSE UNCHANGED cacheVars
  /\ IF part = "stream" THEN Audio!StreamNext ELSE UNCHANGED streamVars
  /\ IF part = "reading" THEN ReadingNext ELSE UNCHANGED readingVars
  /\ UNCHANGED dictationVars

SpeechSpec == SpeechInit /\ [][SpeechNext]_all

-----------------------------------------------------------------------------
\* However the service's response is cut, the audio is put together once and in
\* order, and an error in it is not stored as speech; a put nobody disturbs then
\* leaves its entry whole and evicts no more than it must, and puts that overlap
\* leave a cache within its limit (volcengine.ts; cache.ts, put, prune).
AudioIsKeptWhole ==
    /\ [](Audio!AudioIsSplitFree /\ Audio!ErrorIsHeard)
    /\ [](Audio!PutsFit) /\ Audio!StoredIsKept /\ Audio!NeverEmptied
=============================================================================
