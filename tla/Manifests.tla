------------------------------- MODULE Manifests -------------------------------
(***************************************************************************)
(* The package manifests: which documents are manifests, which directories *)
(* of them load, and what is read off one (src/api/src/manifest.ts); which *)
(* package a request gets (package.ts); and which sets of manifests the    *)
(* gate before a release accepts (src/api/tools/validate-manifests.ts).    *)
(*                                                                         *)
(* A document is the function from its keys to their values.  Junk stands  *)
(* for a value of the wrong type: an empty string, a list or mapping with  *)
(* such a string in it, a digest that is not 64 hex digits, a version that *)
(* is not semver, and for a document that is no mapping at all.            *)
(***************************************************************************)
EXTENDS Naturals, Sequences

CONSTANTS
    Limits,     \* LIMIT_KEYS
    Junk,
    Undefined

Get(doc, key) == IF key \in DOMAIN doc THEN doc[key] ELSE Undefined

RequireString(value) == value \notin {Undefined, Junk}

Optional(value) == value # Junk

OptionalLimits(value) ==
    value # Undefined =>
        /\ value # Junk
        /\ DOMAIN value \subseteq Limits
        /\ \A limit \in DOMAIN value : value[limit] # Junk

ArchiveFormats == {"tar.gz", "tar.xz", "tar.bz2", "tar.zst", "tar", "zip"}

\* A url is a record: its format is what the suffix of its path tells.
InferFormat(url) == url.format

Format(source) == IF "format" \in DOMAIN source THEN source.format ELSE InferFormat(source.url)

Strip(source) == IF "strip" \in DOMAIN source THEN source.strip ELSE 0

\* `into` is the sequence of a path's parts, of which an absolute one starts with "/".
ParsesSource(source) ==
    /\ source # Junk
    /\ RequireString(Get(source, "url"))
    /\ RequireString(Get(source, "sha256"))
    /\ Strip(source) \in Nat
    /\ "into" \in DOMAIN source =>
        /\ source.into # Junk
        /\ \A i \in DOMAIN source.into : source.into[i] \notin {"/", ".."}
    /\ Format(source) \in ArchiveFormats

ParsesProvided(entry) ==
    /\ entry # Junk
    /\ RequireString(Get(entry, "language"))
    /\ Optional(Get(entry, "aliases"))
    /\ OptionalLimits(Get(entry, "limit_overrides"))

ParsesTest(test) ==
    /\ test # Junk
    /\ RequireString(Get(test, "source"))
    /\ Optional(Get(test, "expect")) /\ Optional(Get(test, "language"))

KnownKeys == {"language", "version", "aliases", "provides", "limit_overrides", "sources", "build",
              "post_install", "glibc", "env", "env_script", "compile", "run", "test"}

Sources(doc) == IF "sources" \in DOMAIN doc THEN doc.sources ELSE <<>>

\* Whether parse_manifest returns.
Parses(doc) ==
    /\ doc # Junk
    /\ DOMAIN doc \subseteq KnownKeys
    /\ \A key \in {"language", "version", "run"} : RequireString(Get(doc, key))
    /\ \A key \in {"aliases", "build", "post_install", "glibc", "env", "env_script", "compile"} :
        Optional(Get(doc, key))
    /\ OptionalLimits(Get(doc, "limit_overrides"))
    /\ "provides" \in DOMAIN doc =>
        /\ doc.provides \notin {Junk, <<>>}
        /\ \A i \in DOMAIN doc.provides : ParsesProvided(doc.provides[i])
        /\ "aliases" \notin DOMAIN doc
    /\ Sources(doc) # Junk
    /\ \A i \in DOMAIN Sources(doc) : ParsesSource(Sources(doc)[i])
    /\ Sources(doc) # <<>> \/ "build" \in DOMAIN doc
    /\ "test" \in DOMAIN doc => ParsesTest(doc.test)

\* A file lies in a directory of the manifest directory and is named for what
\* it holds; files of other kinds are not looked at.
Read(files) == {file \in files : file.yaml}

\* Whether load_manifests returns: one file amiss and nothing is loaded.
Loads(files) ==
    \A file \in Read(files) :
        /\ Parses(file.doc)
        /\ file.doc.language = file.directory
        /\ file.doc.version = file.name

LoadManifests(files) == {file.doc : file \in Read(files)}

IsEngineInstallable(manifest) ==
    /\ Sources(manifest) # <<>>
    /\ DOMAIN manifest \cap {"build", "post_install"} = {}

Strings(value) == IF value = Undefined THEN {} ELSE value

\* What the package registers: its own language, or each of its `provides`.
Entries(manifest) ==
    IF "provides" \in DOMAIN manifest THEN manifest.provides ELSE <<manifest>>

ProvidedLanguages(manifest) == {Entries(manifest)[i].language : i \in DOMAIN Entries(manifest)}

-------------------------------------------------------------------------------
(* package.ts: which package a request names *)

GetPackageList(catalogue, allowed) == {m \in catalogue : m.language \in allowed}

\* The exact language, and the highest version in the range.
GetPackage(catalogue, allowed, language, range) ==
    LET candidates == {m \in GetPackageList(catalogue, allowed) :
                        m.language = language /\ m.version \in range}
    IN  IF candidates = {} THEN Undefined
        ELSE CHOOSE m \in candidates : \A n \in candidates : n.version <= m.version

-------------------------------------------------------------------------------
(* validate-manifests.ts *)

\* The aliases a manifest gives a language: those of the first entry for it.
AliasesFor(manifest, language) ==
    LET entries == Entries(manifest)
        first == CHOOSE i \in DOMAIN entries :
                    /\ entries[i].language = language
                    /\ \A j \in 1..(i - 1) : entries[j].language # language
    IN  Strings(Get(entries[first], "aliases"))

AnswersTo(manifest) ==
    ProvidedLanguages(manifest) \cup
    UNION {Strings(Get(Entries(manifest)[i], "aliases")) : i \in DOMAIN Entries(manifest)}

ValidManifest(manifest) ==
    /\ "test" \in DOMAIN manifest
    /\ IsEngineInstallable(manifest) => "glibc" \in DOMAIN manifest
    /\ (IF "language" \in DOMAIN manifest.test THEN manifest.test.language ELSE manifest.language)
            \in AnswersTo(manifest)

\* Several versions of one package are one engine, and their aliases are taken together.
Engines(catalogue, language) ==
    {m.language : m \in {n \in catalogue : language \in ProvidedLanguages(n)}}

EngineAliases(catalogue, engine, language) ==
    UNION {AliasesFor(m, language) :
        m \in {n \in catalogue : n.language = engine /\ language \in ProvidedLanguages(n)}}

\* Every engine of a language that has several declares an alias, and no two
\* of them declare the same.
EnginesAreNamed(catalogue) ==
    \A language \in UNION {ProvidedLanguages(m) : m \in catalogue} :
        \A a, b \in Engines(catalogue, language) :
            a # b =>
                /\ EngineAliases(catalogue, a, language) # {}
                /\ EngineAliases(catalogue, a, language) \cap EngineAliases(catalogue, b, language) = {}

\* Without --fetch, and but for the list of languages in the readme.
Validated(files) ==
    /\ Loads(files)
    /\ \A m \in LoadManifests(files) : ValidManifest(m)
    /\ EnginesAreNamed(LoadManifests(files))
===============================================================================
