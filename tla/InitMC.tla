------------------------------- MODULE InitMC -------------------------------
(***************************************************************************)
(* Instances of InitMigration for TLC: a monorepo ~/p with two packages    *)
(* whose directories have the same last segment, an environment file for   *)
(* production, and files a scan must not take.                             *)
(***************************************************************************)
EXTENDS InitMigration, TLC

CONSTANTS v, w

P    == <<"home", "p">>
Api  == <<"home", "p", "apps", "api">>
Svc  == <<"home", "p", "services", "api">>

File(d, s) == [dir |-> d, suffix |-> s]

MCTree == {File(Api, ""), File(Svc, ""), File(Api, "production")}
MCHome == <<"home">>
MCMarkers == {<<"home">>, P}
MCCwd == {Api}
MCPaths == <<P, Api, Svc>>
MCWords == <<"MODE", "NODE_ENV", "TOKEN", "example", "local", "production">>
MCShape == (v :> "plain") @@ (w :> "plain")
(* TOKEN and MODE stand for two names of more than 64 letters that begin   *)
(* alike: they are cut to one key.                                         *)
Cut == <<NoSlug, "long">>
MCCoerced == (<<NoSlug, "TOKEN">> :> Cut) @@ (<<NoSlug, "MODE">> :> Cut)
MCJoined ==
  (<<"api">> :> "api") @@ (<<"apps", "api">> :> "apps-api") @@ (<<"services", "api">> :> "services-api")
T(x) == "TOKEN" :> x
TM == ("TOKEN" :> w) @@ ("MODE" :> v) @@ ("NODE_ENV" :> v)
MCContents == {Garbled, T(v), TM}

MCEdits == {TM}

(* The same name in two directories, and in one directory for two          *)
(* environments next to a file that does not parse.                        *)
On(here) == [f \in Tree |-> IF f \in DOMAIN here THEN here[f] ELSE Missing]
MCDisks ==
  {On((File(Api, "") :> T(v)) @@ (File(Svc, "") :> TM)),
   On((File(Api, "") :> T(v)) @@ (File(Api, "production") :> TM)
      @@ (File(Svc, "") :> Garbled))}
(* The backup of a run before, so that the next of that file is stamped.   *)
MCOldBackups ==
  {[f \in Tree |-> IF f = File(Api, "") THEN (<<0, 1>> :> TM) ELSE <<>>]}
Pkg(tool) == [dev |-> [tool |-> tool, wraps |-> 0], lint |-> [tool |-> "eslint", wraps |-> 0]]
MCScripts == {Pkg("next"), Pkg("vite")}

(* The directories have slugs of their own: what AliasesMean asks for. *)
ASSUME SlugsApart
=============================================================================
