------------------------------ MODULE MCProvision ------------------------------
(***************************************************************************)
(* An old python that is installed from its source, a new one, with an     *)
(* alias, that is built or served prebuilt, and pypy, from two sources; of *)
(* which an instance has two, or allows one language; and manifest         *)
(* directories in which one file has something amiss.                      *)
(***************************************************************************)
EXTENDS Provision, TLC

CONSTANTS py1, py2, pypy, other

Url(content) == [format |-> "tar.gz", serves |-> {content, "tampered"}]

Source(content) == [url |-> Url(content), sha256 |-> content]

Python1 == [language |-> "python", version |-> 1, run |-> "text",
            sources |-> <<Source("a")>>, glibc |-> "text", test |-> [source |-> "text"]]

Python2 == [language |-> "python", version |-> 2, aliases |-> {"cpython"}, run |-> "text",
            sources |-> <<Source("b")>>, build |-> "text", post_install |-> "text",
            compile |-> "text", test |-> [source |-> "text"]]

Pypy == [language |-> "pypy", version |-> 1, run |-> "text",
         provides |-> <<[language |-> "python", aliases |-> {"pypy3"}]>>,
         sources |-> <<Source("c"),
                       [url |-> [format |-> Undefined, serves |-> {"d"}], sha256 |-> "d",
                        strip |-> 1, into |-> <<"lib">>, format |-> "zip"]>>,
         glibc |-> "text", test |-> [source |-> "text", language |-> "python"]]

File(doc) == [directory |-> doc.language, name |-> doc.version, yaml |-> TRUE, doc |-> doc]

Good == py1 :> File(Python1) @@ py2 :> File(Python2) @@ pypy :> File(Pypy)

\* Python1 with a source that is not as it must be.
WithSource(changes) == [Python1 EXCEPT !.sources = <<changes @@ Source("a")>>]

BadDocs ==
    {Junk, [Python1 EXCEPT !.run = Junk], [Python1 EXCEPT !.version = Junk],
     "aliases" :> Junk @@ Python1, [Python1 EXCEPT !.test = Junk],
     [Python1 EXCEPT !.sources = <<>>], [Python1 EXCEPT !.sources = Junk],
     "colour" :> "text" @@ Python1, "provides" :> <<>> @@ Python1,
     "provides" :> <<[language |-> "python"]>> @@ "aliases" :> {"py"} @@ Python1,
     "limit_overrides" :> ("colour" :> 1) @@ Python1,
     "limit_overrides" :> ("run_timeout" :> Junk) @@ Python1,
     [Pypy EXCEPT !.provides = <<[aliases |-> {"pypy3"}]>>],
     [Pypy EXCEPT !.test = [language |-> "python"]]}
    \cup {WithSource(c) : c \in {"sha256" :> Junk, "strip" :> Junk, "into" :> <<"..", "lib">>,
                                 "format" :> "rar", "url" :> [format |-> Undefined, serves |-> {"a"}]}}

BadFiles ==
    {[File(Python1) EXCEPT !.doc = doc] : doc \in BadDocs} \cup
    {[File(Python1) EXCEPT !.directory = "perl"], [File(Python1) EXCEPT !.name = 2],
     [File(Python1) EXCEPT !.doc = Python2]}

Config(files, builds) == [files |-> files, allowed |-> {"python", "pypy"}, allow_source_builds |-> builds]

Allowing(languages, config0) == [config0 EXCEPT !.allowed = languages]

Without(p) == [Good EXCEPT ![p].yaml = FALSE]

MCConfigs ==
    {Config(Without(pypy), TRUE)} \cup
    {Allowing({language}, Config(Without(py1), FALSE)) : language \in {"python", "pypy"}} \cup
    {Config([Good EXCEPT ![py1] = file], FALSE) : file \in BadFiles}

MCAliasConfigs == {Config(Good, FALSE)}

MCIndex ==
    <<[language |-> "python", version |-> 2, sha256 |-> Undefined, url |-> Url("e")],
      [language |-> "python", version |-> 1, sha256 |-> "a", url |-> Url("a")],
      [language |-> "python", version |-> 2, sha256 |-> "e", url |-> Url("e")],
      [language |-> "python", version |-> 2, sha256 |-> "b", url |-> Url("b")]>>

Line(mark, languages, versions) ==
    [mark |-> mark, indented |-> FALSE, languages |-> languages, versions |-> versions]

All == {"python", "pypy"}

MCSpecFiles ==
    {<<Line("!", {"python"}, {1, 2}), Line("", {"python"}, {1, 2}), Line("#", All, {1, 2})>>,
     <<Line("", All, {1, 2}), Line("", {"python"}, {1}), Line("!", {"python"}, {1, 2})>>,
     <<Line("", All, {1, 2}), [Line("!", {"pypy"}, {1, 2}) EXCEPT !.indented = TRUE]>>}
===============================================================================
