--------------------------- MODULE Announcements ---------------------------
(***************************************************************************)
(* How an announcement is made: AnnouncementsService.generateAndQueue and  *)
(* AiClientService of the backend, and behind them the AI service: its     *)
(* controller, response cache, text providers, quality gate, speech and    *)
(* voice files.                                                            *)
(*                                                                         *)
(* The AI service does not notice that the backend gave up: a generation   *)
(* runs to its end and fills the cache.  One action is one awaited call: a *)
(* voice file may be removed between the lookup that found it and the save *)
(* of the row that names it.  A text is a record of what the gate and the  *)
(* row depend on; a tick is half a day, and may fall anywhere.             *)
(***************************************************************************)
EXTENDS Integers, Sequences, FiniteSets, SequencesExt

CONSTANTS Jobs,          \* calls of generateAndQueue at a time
          Gens,          \* generations the AI service runs at a time
          Types,         \* the types somebody asks for
          Configured,    \* providers that have a key
          Primary,       \* AI_PROVIDER
          Lengths,       \* lengths of a model's reply, or of its message
          TokenRequired, \* the AI service has an INTERNAL_API_TOKEN
          ATTEMPTS,      \* tries of withRetry, and of the backend (both 3)
          MAX_ENTRIES,   \* announcement-cache.service.ts:42 (500)
          VOICE_TTL,     \* VOICE_CACHE_TTL_HOURS, in ticks
          MaxJobs, MaxTime, MaxFailures \* bounds

Provider == {"openai", "claude", "ollama"}
ANNOUNCEMENT_TYPES == {"status_report", "pressure_escalation", "behavioral_analysis",
                       "recovery_offer", "ambient_presence", "operational_update"}

ASSUME AnnouncementsAssumption ==
    /\ Types \subseteq ANNOUNCEMENT_TYPES \cup {"state_transition"}
    /\ Configured \subseteq Provider /\ Primary \in Provider /\ Lengths \subseteq Nat
    /\ TokenRequired \in BOOLEAN /\ {ATTEMPTS, MAX_ENTRIES} \subseteq Nat \ {0} /\ VOICE_TTL \in Nat
    /\ {MaxJobs, MaxTime, MaxFailures} \subseteq Nat

VARIABLES now,
          cache,  \* the AI service's responses, least recently used first
          files,  \* the voice files: text |-> when it was written
          gen,    \* the generations that run
          job,    \* the calls of generateAndQueue
          rows,   \* how many rows the announcements table has
          emitted,\* how many times announcement.generated was emitted
          jobs, failures

generationVars == <<now, cache, files, gen, job, rows, emitted, jobs, failures>>

----------------------------------------------------------------------------
(* The backend's templates.  A type it has no template for gets the one of *)
(* ambient_presence, and so its category.                                  *)

TEMPLATES == [status_report       |-> "status_report",
              behavioral_analysis |-> "behavioral_analysis",
              pressure_escalation |-> "pressure_escalation",
              recovery_offer      |-> "recovery_offer",
              ambient_presence    |-> "ambient_presence",
              state_transition    |-> "operational_update"]

category(type) == IF type \in DOMAIN TEMPLATES THEN TEMPLATES[type] ELSE "ambient_presence"

(* A text: who wrote it, for what type, how long it is, and whether it     *)
(* holds an emoji, markdown or a banned phrase.                            *)
Text(from, type, length, banned) ==
    [from |-> from, type |-> type, length |-> length, banned |-> banned]
TEMPLATE_LENGTH == 80
PREFIX_LENGTH == 15

(* FallbackTemplatesService.build, and AnnouncementTemplatesService.render *)
Template(from, type) == Text(from, type, TEMPLATE_LENGTH, FALSE)

(* stripLeadingPrefix and the prefix: an answer that only repeats it       *)
(* leaves no tail.                                                         *)
composed(text) == [text EXCEPT !.length = PREFIX_LENGTH + (IF @ = 0 THEN 0 ELSE @ + 1)]

MIN_LENGTH == 5
MAX_LENGTH == 300

(* QualityGatesService.check *)
check(text) == text.length \in MIN_LENGTH..MAX_LENGTH /\ ~text.banned

(* TTL_BY_TYPE, in ticks *)
TTL_BY_TYPE == [t \in ANNOUNCEMENT_TYPES |->
                   CASE t \in {"behavioral_analysis", "recovery_offer"} -> 2
                     [] t = "ambient_presence" -> 14
                     [] OTHER -> 1]

(* buildChain: the configured provider, then the others in their order.    *)
(* One without a key is passed over; ollama needs none.  `left` are those  *)
(* that have not been asked yet.                                           *)
PROVIDER_CHAIN == [openai |-> 1, claude |-> 2, ollama |-> 3]
Unconfigured(provider) == provider # "ollama" /\ provider \notin Configured
buildChain == {provider \in Provider : ~Unconfigured(provider)}
Place(provider) == IF provider = Primary THEN 0 ELSE PROVIDER_CHAIN[provider]
IsNext(provider, left) ==
    provider \in left /\ \A other \in left : Place(provider) <= Place(other)

(* A model's reply: its length, and the length of its message field if it  *)
(* is the JSON object it was asked for.                                    *)
NotJson == -1
Replies == {r \in [raw: Lengths, message: Lengths \cup {NotJson}] : r.message < r.raw}

(* OpenAIClient.generate: the message, or a reply that is no JSON as it    *)
(* is.  No text stands for an error.                                       *)
openai(reply) ==
    IF reply.raw = 0 THEN {} ELSE {IF reply.message = NotJson THEN reply.raw ELSE reply.message}

(* callClaude: the same, once a code fence is taken off. *)
callClaude(reply) == openai(reply)

(* callOllama passes the schema on to nobody, and takes the reply whole. *)
callOllama(reply) == {reply.raw} \ {0}

callProvider(provider, reply) ==
    CASE provider = "openai" -> openai(reply)
      [] provider = "claude" -> callClaude(reply)
      [] provider = "ollama" -> callOllama(reply)

----------------------------------------------------------------------------
(* AnnouncementCacheService: at most MAX_ENTRIES; an entry is gone when    *)
(* the time to live of its type is over.  The key is the type and the      *)
(* compact context; the model has one context.                             *)

Of(c, type) == {i \in DOMAIN c : c[i].type = type}

Without(c, type) == IF Of(c, type) = {} THEN c ELSE RemoveAt(c, CHOOSE i \in Of(c, type) : TRUE)

get(c, type) ==
    {c[i] : i \in {i \in Of(c, type) : now - c[i].at < TTL_BY_TYPE[type]}}

set(c, entry) ==
    LET kept == Without(c, entry.type) IN
    Append(IF Len(kept) = MAX_ENTRIES THEN Tail(kept) ELSE kept, entry)

Resting == [at |-> "idle"]
NoText == Text("none", "none", 0, FALSE)

(* voiceUrl: null, or when the file it names was written. *)
NoVoice == -1

GenerationInit ==
    /\ now = 0 /\ cache = <<>> /\ files = <<>>
    /\ gen = [g \in Gens |-> Resting] /\ job = [j \in Jobs |-> Resting]
    /\ rows = 0 /\ emitted = 0 /\ jobs = 0 /\ failures = 0

----------------------------------------------------------------------------
(* The backend: generateAndQueue and requestWithRetry. *)

GenerateAndQueue(j) ==
    /\ job[j] = Resting /\ jobs < MaxJobs
    /\ \E t \in Types : job' = [job EXCEPT ![j] = [at |-> "send", type |-> t, attempt |-> 1,
                                                   gen |-> "none"]]
    /\ jobs' = jobs + 1
    /\ UNCHANGED <<now, cache, files, gen, rows, emitted, failures>>

(* The next attempt after a pause; after the last the client returns null, *)
(* and the templates are used.                                             *)
AfterError(q) ==
    IF q.attempt < ATTEMPTS
    THEN [at |-> "send", type |-> q.type, attempt |-> q.attempt + 1, gen |-> "none"]
    ELSE [at |-> "render", type |-> q.type, attempt |-> q.attempt, gen |-> "none"]

(* InternalTokenGuard: the backend's client sends no X-Internal-Token. *)
canActivate == ~TokenRequired

(* The request starts a generation.  The AI service refuses a type that    *)
(* its DTO does not list, which is an error like any other.                *)
Send(j) ==
    /\ job[j].at = "send"
    /\ IF ~canActivate \/ job[j].type \notin ANNOUNCEMENT_TYPES
       THEN job' = [job EXCEPT ![j] = AfterError(@)] /\ UNCHANGED gen
       ELSE \E g \in Gens :
              /\ gen[g] = Resting
              /\ gen' = [gen EXCEPT ![g] = [at |-> "lookup", type |-> job[j].type, left |-> buildChain,
                                            attempt |-> 1, message |-> NoText, voice |-> NoVoice]]
              /\ job' = [job EXCEPT ![j].at = "wait", ![j].gen = g]
    /\ UNCHANGED <<now, cache, files, rows, emitted, jobs, failures>>

(* The AbortController's timer, or an answer that is not ok or gets lost.  *)
RequestFails(j) ==
    /\ job[j].at \in {"wait", "answer"}
    /\ job' = [job EXCEPT ![j] = AfterError(@)]
    /\ UNCHANGED <<now, cache, files, gen, rows, emitted, jobs, failures>>

(* A fault for the runs: the AI service's own template counts as its text. *)
UsableFault(q) == q.at = "answer"

(* A text the AI service took from its templates is not used.              *)
Usable(q) == q.at = "answer" /\ ~q.response.fallbackUsed

Row(q, message, ai, voice, age) ==
    [message |-> message, category |-> category(q.type), ai |-> ai, voice |-> voice, age |-> age,
     silent |-> voice # NoVoice /\ message \notin DOMAIN files]

(* The answer is saved, or, without one that can be used, a template.      *)
SaveRow(j) ==
    LET q == job[j]
        saved == IF Usable(q) THEN Row(q, q.response.message, TRUE, q.response.voice, q.age)
                 ELSE Row(q, Template("backend", q.type), FALSE, NoVoice, 0)
    IN  /\ q.at \in {"answer", "render"}
        /\ rows' = rows + 1
        /\ job' = [job EXCEPT ![j] = [at |-> "emit", type |-> q.type, saved |-> saved]]
        /\ UNCHANGED <<now, cache, files, gen, emitted, jobs, failures>>

Emit(j) ==
    /\ job[j].at = "emit"
    /\ emitted' = emitted + 1
    /\ job' = [job EXCEPT ![j] = Resting]
    /\ UNCHANGED <<now, cache, files, gen, rows, jobs, failures>>

(* The save or the emit is rejected. *)
Reject(j) ==
    /\ job[j].at \in {"answer", "render", "emit"} /\ failures < MaxFailures
    /\ failures' = failures + 1
    /\ job' = [job EXCEPT ![j] = Resting]
    /\ UNCHANGED <<now, cache, files, gen, rows, emitted, jobs>>

----------------------------------------------------------------------------
(* The AI service: AnnouncementsController.generate. *)

(* The response goes to the call that still waits for it, if there is one. *)
AnswerCall(g, entry) ==
    job' = [j \in Jobs |->
              IF job[j].at = "wait" /\ job[j].gen = g
              THEN [at |-> "answer", type |-> job[j].type, attempt |-> job[j].attempt,
                    response |-> entry.response, age |-> now - entry.at]
              ELSE job[j]]

Lookup(g) ==
    /\ gen[g].at = "lookup"
    /\ UNCHANGED <<now, files, rows, emitted, jobs, failures>>
    /\ \/ \E hit \in get(cache, gen[g].type) :
             /\ cache' = Append(Without(cache, hit.type), hit)
             /\ gen' = [gen EXCEPT ![g] = Resting]
             /\ AnswerCall(g, hit)
       \/ /\ get(cache, gen[g].type) = {}
          /\ cache' = Without(cache, gen[g].type)
          /\ gen' = [gen EXCEPT ![g].at = "text"]
          /\ UNCHANGED job

(* The next provider of the chain; after the last, a template. *)
NextProvider(q, provider) ==
    IF q.left = {provider}
    THEN [q EXCEPT !.at = "voice", !.message = Template("ai", q.type)]
    ELSE [q EXCEPT !.left = @ \ {provider}, !.attempt = 1]

(* withRetry: a rejected call is made again, ATTEMPTS times in all. *)
withRetry(q, provider) ==
    IF q.attempt < ATTEMPTS THEN [q EXCEPT !.attempt = @ + 1] ELSE NextProvider(q, provider)

CallFails(g) ==
    /\ gen[g].at = "text"
    /\ \E provider \in Provider :
         /\ IsNext(provider, gen[g].left)
         /\ gen' = [gen EXCEPT ![g] = withRetry(@, provider)]
    /\ UNCHANGED <<now, cache, files, job, rows, emitted, jobs, failures>>

(* A provider replies.  An empty reply is not asked for again, and what    *)
(* the gate refuses is replaced by a template.                             *)
Provide(g) ==
    /\ gen[g].at = "text"
    /\ \E provider \in Provider, reply \in Replies, banned \in BOOLEAN :
         /\ IsNext(provider, gen[g].left)
         /\ LET lengths == callProvider(provider, reply)
                Gated(n) == LET text == composed(Text(provider, gen[g].type, n, banned)) IN
                            IF check(text) THEN text ELSE Template("ai", gen[g].type)
            IN  \/ lengths = {} /\ gen' = [gen EXCEPT ![g] = NextProvider(@, provider)]
                \/ \E n \in lengths : gen' = [gen EXCEPT ![g].at = "voice", ![g].message = Gated(n)]
    /\ UNCHANGED <<now, cache, files, job, rows, emitted, jobs, failures>>

(* VoiceStorageService.lookup and store: a file's name is a hash of the    *)
(* text.                                                                   *)
lookup(text) == text \in DOMAIN files
store(text)  == [t \in DOMAIN files \cup {text} |-> IF t = text THEN now ELSE files[t]]

(* synthesize: is there a file? *)
VoiceLookup(g) ==
    LET text == gen[g].message IN
    /\ gen[g].at = "voice"
    /\ gen' = [gen EXCEPT ![g] = IF lookup(text) THEN [@ EXCEPT !.at = "finish", !.voice = files[text]]
                                 ELSE [@ EXCEPT !.at = "speech"]]
    /\ UNCHANGED <<now, cache, files, job, rows, emitted, jobs, failures>>

(* One of the two speech providers speaks and the file is written, or      *)
(* neither does.                                                           *)
Speech(g) ==
    /\ gen[g].at = "speech"
    /\ \/ /\ files' = store(gen[g].message)
          /\ gen' = [gen EXCEPT ![g] = [@ EXCEPT !.at = "finish", !.voice = now]]
       \/ /\ gen' = [gen EXCEPT ![g] = [@ EXCEPT !.at = "finish", !.voice = NoVoice]]
          /\ UNCHANGED files
    /\ UNCHANGED <<now, cache, job, rows, emitted, jobs, failures>>

(* The response is cached, a template's too, and sent.                     *)
Finish(g) ==
    LET text  == gen[g].message
        entry == [type |-> gen[g].type, at |-> now,
                  response |-> [message |-> text, fallbackUsed |-> text.from = "ai",
                                voice |-> gen[g].voice]]
    IN  /\ gen[g].at = "finish"
        /\ cache' = set(cache, entry)
        /\ AnswerCall(g, entry)
        /\ gen' = [gen EXCEPT ![g] = Resting]
        /\ UNCHANGED <<now, files, rows, emitted, jobs, failures>>

(* VoiceStorageService.cleanup, every 30 minutes, comes to a file that is  *)
(* old.  Between its stat and its unlink nobody writes that file: who does *)
(* has found none, and speaks for less time than a file is kept.           *)
Cleanup ==
    /\ \E old \in {t \in DOMAIN files : now - files[t] > VOICE_TTL} :
         files' = [t \in DOMAIN files \ {old} |-> files[t]]
    /\ UNCHANGED <<now, cache, gen, job, rows, emitted, jobs, failures>>

(* The AI service restarts: the cache and what ran are gone, files stay. *)
Restart ==
    /\ failures < MaxFailures
    /\ failures' = failures + 1
    /\ cache' = <<>> /\ gen' = [g \in Gens |-> Resting]
    /\ job' = [j \in Jobs |-> IF job[j].at = "wait" THEN AfterError(job[j]) ELSE job[j]]
    /\ UNCHANGED <<now, files, rows, emitted, jobs>>

Tick ==
    /\ now < MaxTime
    /\ now' = now + 1
    /\ UNCHANGED <<cache, files, gen, job, rows, emitted, jobs, failures>>

GenerationNext ==
        \/ Tick \/ Cleanup \/ Restart
        \/ \E g \in Gens : \/ Lookup(g) \/ CallFails(g) \/ Provide(g)
                           \/ VoiceLookup(g) \/ Speech(g) \/ Finish(g)
        \/ \E j \in Jobs : \/ GenerateAndQueue(j) \/ Send(j) \/ RequestFails(j)
                           \/ SaveRow(j) \/ Emit(j) \/ Reject(j)

GenerationSpec == GenerationInit /\ [][GenerationNext]_generationVars

(* The generations are alike. *)
AlikeGens == Permutations(Gens)

----------------------------------------------------------------------------

(* announcements.service.ts:38-104, announcements.controller.ts:46-128,    *)
(* voice-storage.service.ts:57-89.  Whatever the providers answer and      *)
(* however late, an announcement that counts as the AI's was written by a  *)
(* provider that was asked, passed the gate, and was younger than its      *)
(* type's time to live when the AI service answered; any other is the      *)
(* backend's own template, without a voice.  A row names a voice file that *)
(* is not there only when that file had outlived the cleanup's limit by    *)
(* the time of the save: in the cache, or on the way from the lookup.      *)
(* Unless the database fails, each call leaves one row and one event.  The *)
(* cache holds a type once and no more than it may.                        *)
StoredIsVetted ==
    /\ \A j \in Jobs : job[j].at = "emit" =>
         LET saved == job[j].saved IN
         /\ IF saved.ai
            THEN /\ ~Unconfigured(saved.message.from) /\ saved.message.from \in Provider
                 /\ saved.message.length \in 5..300 /\ ~saved.message.banned
                 /\ saved.age < TTL_BY_TYPE[saved.message.type]
            ELSE saved.message = Template("backend", job[j].type) /\ saved.voice = NoVoice
         /\ saved.silent => now - saved.voice > VOICE_TTL
    /\ failures = 0 /\ (\A j \in Jobs : job[j] = Resting) => rows = jobs /\ emitted = jobs
    /\ Len(cache) <= MAX_ENTRIES
    /\ \A i, k \in DOMAIN cache : cache[i].type = cache[k].type => i = k

----------------------------------------------------------------------------
(* The inductive invariant behind StoredIsVetted.                          *)

TextType == [from : Provider \cup {"ai", "backend", "none"},
             type : ANNOUNCEMENT_TYPES \cup {"state_transition", "none"},
             length : Nat, banned : BOOLEAN]

(* A text that a provider was asked for, and that passed the gate. *)
Vetted(text, type) ==
    text \in TextType /\ text.from \in buildChain /\ text.type = type /\ check(text)

Response == [message : TextType, fallbackUsed : BOOLEAN, voice : Int]
Entry == [type : ANNOUNCEMENT_TYPES, at : Nat, response : Response]

EntryOK(e) == e.at <= now /\ (e.response.fallbackUsed \/ Vetted(e.response.message, e.type))

(* A cache holds no type twice, no more than it may, and nothing but       *)
(* vetted texts and templates.                                             *)
CacheOK(c) ==
    /\ c \in Seq(Entry)
    /\ \A i \in DOMAIN c : EntryOK(c[i])
    /\ Len(c) <= MAX_ENTRIES
    /\ \A i, k \in DOMAIN c : c[i].type = c[k].type => i = k

(* A generation asks what is left of the chain; what it will answer with   *)
(* is vetted, or the template.                                             *)
GenOK(q) ==
    /\ q.type \in ANNOUNCEMENT_TYPES
    /\ q.at \in {"lookup", "text"} => q.left # {} /\ q.left \subseteq buildChain
    /\ q.at \in {"voice", "speech", "finish"} =>
          q.message = Template("ai", q.type) \/ Vetted(q.message, q.type)

Fresh(message, age) == Vetted(message, message.type) /\ age < TTL_BY_TYPE[message.type]

AnswerOK(q) == q.response.fallbackUsed \/ Fresh(q.response.message, q.age)

RowOK(saved, type) ==
    IF saved.ai THEN Fresh(saved.message, saved.age)
    ELSE saved.message = Template("backend", type) /\ saved.voice = NoVoice

GenState == [at : {"lookup", "text", "voice", "speech", "finish"}, type : ANNOUNCEMENT_TYPES,
             left : SUBSET Provider, attempt : Nat, message : TextType, voice : Int]
RowType == [message : TextType, category : ANNOUNCEMENT_TYPES,
            ai : BOOLEAN, voice : Int, age : Int, silent : BOOLEAN]
Calling == [at : {"send", "wait", "render"}, type : Types, attempt : Nat, gen : Gens \cup {"none"}]
Answered == [at : {"answer"}, type : Types, attempt : Nat, response : Response, age : Int]
Unsaved == Calling \cup Answered
Saved == [at : {"emit"}, type : Types, saved : RowType]

GensOK == /\ gen \in [Gens -> GenState \cup {Resting}]
          /\ \A g \in Gens : gen[g] # Resting => GenOK(gen[g])

JobOK(q) == /\ q.at = "answer" => AnswerOK(q)
            /\ q.at = "emit" => RowOK(q.saved, q.type)

JobsOK == /\ job \in [Jobs -> Unsaved \cup Saved \cup {Resting}]
          /\ \A j \in Jobs : JobOK(job[j])

(* A voice on the way: its file is there, as old or newer, or it was old   *)
(* enough for the cleanup.                                                 *)
VoiceOK(text, voice, dir, time) ==
    \/ voice = NoVoice
    \/ /\ voice \in 0..time
       /\ IF text \in DOMAIN dir THEN dir[text] >= voice ELSE time - voice > VOICE_TTL

VoicesOK ==
    /\ \A t \in DOMAIN files : files[t] \in 0..now
    /\ \A g \in Gens : gen[g].at = "finish" => VoiceOK(gen[g].message, gen[g].voice, files, now)
    /\ \A i \in DOMAIN cache :
         VoiceOK(cache[i].response.message, cache[i].response.voice, files, now)
    /\ \A j \in Jobs :
         /\ job[j].at = "answer" =>
               VoiceOK(job[j].response.message, job[j].response.voice, files, now)
         /\ job[j].at = "emit" /\ job[j].saved.silent => now - job[j].saved.voice > VOICE_TTL

Asked == {j \in Jobs : job[j] # Resting}
Waiting == {j \in Jobs : job[j] \in Unsaved}

(* Without a failure a call has left its row once it is past the save, and *)
(* its event once it is over.                                              *)
CallsCounted ==
    /\ {rows, emitted, jobs, failures} \subseteq Nat /\ IsFiniteSet(Asked)
    /\ failures = 0 => /\ rows = jobs - Cardinality(Waiting)
                       /\ emitted = jobs - Cardinality(Asked)

AllSound == now \in Nat /\ CacheOK(cache) /\ GensOK /\ JobsOK /\ CallsCounted

GenerationInv == AllSound /\ VoicesOK
=============================================================================
