------------------------------ MODULE MCPlugins ------------------------------
(* Instances of Plugins: a plugin that needs a library. *)
EXTENDS Plugins

TwoFiles == <<"app", "lib">>

Good == [app |-> "ok", lib |-> "ok"]
AppNeedsLib == [app |-> {"lib"}, lib |-> {}]

\* Both files are good; the library's is rejected; the two need each other.
AnySetup ==
    {[kind |-> [app |-> "ok", lib |-> k], needs |-> AppNeedsLib] : k \in Kinds}
        \cup {[kind |-> Good, needs |-> [AppNeedsLib EXCEPT !.lib = {"app"}]]}
=============================================================================
