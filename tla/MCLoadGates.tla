------------------------------ MODULE MCLoadGates ------------------------------
EXTENDS LoadGates, TLC

CONSTANTS app, dep, cap, t1, t2

On(m, accepts) == [name |-> m, malformed |-> FALSE, range |-> "range", accepts |-> accepts]
Pkg(path, version, major, deps) ==
    [path |-> path, version |-> version, major |-> major, deps |-> deps]

MCAppPlugin == Pkg("plugin.so", 1, 1, <<[On(cap, {}) EXCEPT !.range = "none"], On(dep, {1})>>)
MCDepPlugin == Pkg("plugin.so", 1, 1, <<>>)
MCDepImage == Pkg("image.so", 2, 1, <<>>)

\* Images of two versions at one path, one of them unstamped, images and plugins
\* of another major, a dependency whose version cannot be read, and constraints
\* that cannot be.
MCPackages ==
    app :> {MCAppPlugin,
            Pkg("image.so", 2, Legacy, <<On(dep, {1, 2})>>),
            Pkg("plugin.so", 2, 2, <<>>),
            Pkg("index.html", 1, Legacy, <<[On(dep, {}) EXCEPT !.malformed = TRUE]>>),
            Pkg("plugin.so", 3, 1, <<[On(dep, {}) EXCEPT !.range = "unparseable"]>>)}
    @@ dep :> {MCDepPlugin, MCDepImage,
               Pkg("image.so", 1, Legacy, <<>>),
               Pkg("image.so", 2, 2, <<>>),
               Pkg("index.html", 0, Legacy, <<>>)}
    @@ cap :> {MCDepPlugin}

MCInstalled == app :> MCAppPlugin @@ dep :> MCDepImage @@ cap :> MCDepPlugin
MCSymmetry == Permutations(Threads)

=============================================================================
