------------------------------- MODULE SQLGate -------------------------------
(* The statement policy of the Postgres proxy: postgres/sql.go classifies the *)
(* text of a Query or Parse (through a cache all upstreams share), policy.go  *)
(* decides it against the settings the upstream pins, config.go compiles the  *)
(* upstreams. What is forwarded runs in the upstream session, which is the    *)
(* database's side of the model: it may set settings, and store routines that *)
(* set them when a later statement calls one.                                 *)
(*                                                                            *)
(* A text is a batch: a sequence of statements. A statement has a shape and   *)
(* the set of nodes of its syntax tree that matter, wherever they are nested; *)
(* a routine definition also has a language and a body, a batch again.        *)
EXTENDS Naturals, Sequences, FiniteSets, SequencesExt

CONSTANTS
    Names,        \* setting names as they may be spelled
    Lower,        \* strings.ToLower on them
    Configs,      \* [file, managed]: sequences of [database, settings]
    Texts,        \* what clients send
    CacheSize     \* 1024 in the code

ASSUME GateAssumption ==
    /\ Lower \in [Names -> Names]
    /\ \A n \in Names : Lower[Lower[n]] = Lower[n]
    /\ {"role", "session_authorization", ""} \subseteq Names
    /\ CacheSize \in Nat \ {0}

Managed == {"role", "session_authorization"}
Settings == {Lower[n] : n \in Names} \ {""}

Node(kind, name) == [node |-> kind, name |-> name]
Plain(nodes) == [shape |-> "plain", nodes |-> nodes, language |-> "", form |-> "", body |-> <<>>]
Transaction == [Plain({}) EXCEPT !.shape = "transaction"]
Do == [Plain({}) EXCEPT !.shape = "do"]
Routine(nodes, language, form, body) ==
    [shape |-> "routine", nodes |-> nodes, language |-> language, form |-> form, body |-> body]
SyntaxError == <<[Plain({}) EXCEPT !.shape = "error"]>>

VARIABLES
    listener,     \* database -> its upstream, [settings, pinned]
    cache,        \* classifyCache: set of [text, op]
    touched,      \* per database: settings its session has changed
    stored,       \* per database: settings its stored routines may change
    refused       \* the last refusal: [database, text], or none

gateVars == <<listener, cache, touched, stored, refused>>

None == [database |-> "none", text |-> <<>>]

----------------------------------------------------------------------------
(* config.go *)

\* Names are compared, and pinned, in lower case; the managed ones cannot be pinned.
compileSettings(settings) ==
    [ok |-> /\ \A i \in DOMAIN settings : settings[i] # "" /\ Lower[settings[i]] \notin Managed
            /\ \A i, j \in DOMAIN settings : Lower[settings[i]] = Lower[settings[j]] => i = j,
     pinned |-> {Lower[settings[i]] : i \in DOMAIN settings}]

Upstream(uc) == [settings |-> uc.settings, pinned |-> compileSettings(uc.settings).pinned]

UpstreamsOf(ucs) ==
    [db \in {ucs[i].database : i \in DOMAIN ucs} |->
        Upstream(ucs[CHOOSE i \in DOMAIN ucs : ucs[i].database = db])]

\* Compile, for the upstreams of the file: no two for one database.
Compile(ucs) ==
    [ok |-> /\ ucs # <<>>
            /\ \A i \in DOMAIN ucs : compileSettings(ucs[i].settings).ok
            /\ \A i, j \in DOMAIN ucs : ucs[i].database = ucs[j].database => i = j,
     upstreams |-> UpstreamsOf(ucs)]

\* An upstream of the control plane does not replace one of the file.
WithUpstreams(upstreams, extra) == upstreams @@ extra

\* Managed upstreams that do not compile are left out.
NewManagedUpstreams(ucs) == SelectSeq(ucs, LAMBDA uc : compileSettings(uc.settings).ok)

GateInit ==
    /\ \E c \in Configs :
        /\ Compile(c.file).ok
        /\ listener = WithUpstreams(Compile(c.file).upstreams,
                                    UpstreamsOf(NewManagedUpstreams(c.managed)))
    /\ cache = {}
    /\ touched = [db \in DOMAIN listener |-> {}]
    /\ stored = [db \in DOMAIN listener |-> {}]
    /\ refused = None

----------------------------------------------------------------------------
(* sql.go: an op is the kinds found (the walk reports the first one it meets,  *)
(* which of them is not told apart), the names written, and the two resets.    *)

NoOp == [kinds |-> {}, setGUCs |-> {}, resetAll |-> FALSE, discard |-> FALSE]
OfKind(k) == [NoOp EXCEPT !.kinds = {k}]

mergeMutations(a, b) ==
    [kinds |-> a.kinds \union b.kinds, setGUCs |-> a.setGUCs \union b.setGUCs,
     resetAll |-> a.resetAll \/ b.resetAll, discard |-> a.discard \/ b.discard]

roleKindFor(n) == IF n.name \in Names /\ Lower[n.name] \in Managed THEN {"role_change"} ELSE {}

\* The kinds of one node: SET and RESET of the managed names, set_config, writes to
\* pg_settings and views or rules over it, and definitions that bind callbacks.
kindsOf(n) ==
    CASE n.node \in {"set", "reset"} -> roleKindFor(n)
      [] n.node \in {"set_config", "set_config_dynamic"} -> {"set_config"}
      [] n.node \in {"write_pg_settings", "view_pg_settings"} -> {"settings_catalog"}
      [] n.node = "callback" -> {"callback"}
      [] OTHER -> {}

scanMutations(nodes) ==
    [kinds |-> UNION {kindsOf(n) : n \in nodes},
     setGUCs |-> {Lower[n.name] : n \in {x \in nodes : x.node \in {"set", "reset", "set_config"}}}
                 \ {""},
     resetAll |-> \E n \in nodes : n.node = "reset_all",
     discard |-> \E n \in nodes : n.node = "discard_all"]

RECURSIVE classifyUncached(_, _)

Cached(c, text) == {e \in c : e.text = text}

Classify(c, text) ==
    IF Cached(c, text) # {} THEN (CHOOSE e \in Cached(c, text) : TRUE).op
    ELSE classifyUncached(c, text)

\* A body that is text is classified in turn, and so is every expression of a
\* plpgsql one; whatever cannot be read is uninspectable.
classifyRoutineDefinition(c, s) ==
    LET m == scanMutations(s.nodes)
        body == Classify(c, s.body)
    IN
    CASE m.kinds # {} -> m
      [] m.kinds = {} /\ s.language \notin {"sql", "plpgsql"} ->
            mergeMutations(m, OfKind("uninspectable"))
      [] m.kinds = {} /\ s.language = "plpgsql" /\ s.form = "dynamic" ->
            mergeMutations(m, OfKind("uninspectable"))
      [] m.kinds = {} /\ s.language = "sql" /\ s.form = "parsed" ->
            mergeMutations(m, scanMutations(UNION {s.body[i].nodes : i \in DOMAIN s.body}))
      [] OTHER ->
            mergeMutations(m, IF body.kinds \intersect {"empty", "parse_error"} # {}
                              THEN OfKind("uninspectable") ELSE body)

classifyStmt(c, s) ==
    CASE s.shape = "transaction" -> NoOp
      [] s.shape = "do" -> OfKind("do_block")
      [] s.shape = "routine" -> classifyRoutineDefinition(c, s)
      [] OTHER -> scanMutations(s.nodes)

classifyFirst(c, text) ==
    IF text = <<>> THEN OfKind("empty") ELSE classifyStmt(c, text[1])

\* A batch does what its statements do.
classifyUncached(c, text) ==
    IF text = <<>> THEN OfKind("empty")
    ELSE IF text = SyntaxError THEN OfKind("parse_error")
    ELSE FoldLeft(LAMBDA op, s : mergeMutations(op, classifyStmt(c, s)), NoOp, text)

\* The texts a call of Classify adds: itself, and the bodies it classifies.
Classified(c, text) ==
    {t \in {text} \union {text[i].body : i \in {j \in DOMAIN text :
                                /\ text[j].shape = "routine" /\ scanMutations(text[j].nodes).kinds = {}
                                /\ text[j].form = "string"
                                /\ text[j].language \in {"sql", "plpgsql"}}} :
        Cached(c, t) = {} /\ Cached(c, text) = {}}

\* The LRU keeps CacheSize of them; which older ones is not told apart.
Remember(c, text) ==
    LET all == c \union {[text |-> t, op |-> Classify(c, t)] : t \in Classified(c, text)} IN
    IF Cardinality(all) <= CacheSize THEN {all}
    ELSE {kept \in kSubset(CacheSize, all) : Cached(kept, text) # {}}

ClassifyClientStatementAnyPin(op, pinned) ==
    /\ op.kinds \subseteq {"empty", "parse_error"}
    /\ ~op.resetAll /\ ~op.discard
    /\ op.setGUCs \intersect UNION {listener[db].pinned : db \in DOMAIN listener} = {}

\* policy.go: may the statement be forwarded?
ClassifyClientStatement(op, pinned) ==
    /\ op.kinds \subseteq {"empty", "parse_error"}
    /\ ~op.resetAll /\ ~op.discard
    /\ op.setGUCs \intersect pinned = {}

----------------------------------------------------------------------------
(* The database: which settings a statement may change when it runs, and which *)
(* ones a routine, view, rule or callback it defines may change when used.     *)

NodeChanges(db, n) ==
    CASE n.node \in {"set", "reset", "set_config"} -> {Lower[n.name]} \ {""}
      [] n.node \in {"reset_all", "discard_all", "set_config_dynamic", "write_pg_settings"} -> Settings
      [] n.node = "use" -> stored[db]
      [] OTHER -> {}

Changes(db, text) ==
    IF text = SyntaxError THEN {}
    ELSE UNION {
        CASE text[i].shape = "do" -> Settings
          [] text[i].shape = "plain" -> UNION {NodeChanges(db, n) : n \in text[i].nodes}
          [] OTHER -> {} : i \in DOMAIN text}

\* A routine with a SET clause changes the setting while it runs.
Defines(db, text) ==
    UNION {
        (IF \E n \in text[i].nodes : n.node \in {"view_pg_settings", "callback"} THEN Settings ELSE {})
        \union
        (CASE text[i].shape # "routine" -> {}
           [] text[i].shape = "routine" /\ (\/ text[i].language \notin {"sql", "plpgsql"}
                                            \/ text[i].form = "dynamic"
                                            \/ text[i].body \in {<<>>, SyntaxError}) -> Settings
           [] OTHER -> Changes(db, text[i].body) \union UNION {NodeChanges(db, n) : n \in text[i].nodes}) :
        i \in DOMAIN text}

Run(db, text) ==
    /\ touched' = [touched EXCEPT ![db] = @ \union Changes(db, text)]
    /\ stored' = [stored EXCEPT ![db] = @ \union Defines(db, text)]

\* A Query or a Parse on a session of db (session.go forwards it, or answers).
Statement(db, text) ==
    LET allowed == ClassifyClientStatement(Classify(cache, text), listener[db].pinned) IN
    /\ cache' \in Remember(cache, text)
    /\ \/ allowed /\ Run(db, text) /\ refused' = None
       \/ ~allowed /\ refused' = [database |-> db, text |-> text] /\ UNCHANGED <<touched, stored>>
    /\ UNCHANGED listener

GateNext == \E db \in DOMAIN listener, text \in Texts : Statement(db, text)

GateSpec == GateInit /\ [][GateNext]_gateVars

----------------------------------------------------------------------------
(* Properties *)

Guarded(db) == Managed \union {Lower[n] : n \in ToSet(listener[db].settings)}

\* However its clients batch statements, spell names, define routines and call
\* them, and whatever texts other upstreams had cached before, a session never
\* changes its managed role or a setting its upstream pins
\* (ClassifyClientStatement, Classify, compileSettings).
SettingsHeld == \A db \in DOMAIN listener : touched[db] \intersect Guarded(db) = {}

Wholesale(text) ==
    \E i \in DOMAIN text : \E n \in text[i].nodes \union UNION {s.nodes : s \in ToSet(text[i].body)} :
        n.node \in {"set_config", "set_config_dynamic"}

\* The policy is no wider than that: apart from set_config, which is refused
\* wholesale, a refused batch could have changed, or stored a change of, a setting
\* that this upstream, not another one, guards.
RefusedForCause ==
    refused # None =>
        \/ Wholesale(refused.text)
        \/ (Changes(refused.database, refused.text) \union Defines(refused.database, refused.text))
                \intersect Guarded(refused.database) # {}
=============================================================================
