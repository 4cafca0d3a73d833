---------------------------- MODULE MCBuildStamps ----------------------------
(* A small package tree: a library that is built for the host and the       *)
(* target, an addon without sources that needs both, and the virtual        *)
(* package that is installed.  Names begin with each other, as vdr-addon    *)
(* does with vdr: "v" is the virtual one, "v-l" the library, "v-l-a" the    *)
(* addon.                                                                   *)
EXTENDS BuildStamps, TLC

CONSTANTS lib, addon, all, v1, v2

Host(p)   == [pkg |-> p, tgt |-> "host"]
Target(p) == [pkg |-> p, tgt |-> "target"]

MCVersions == {v1, v2}
Symmetric  == Permutations(MCVersions)

MCPackages == {lib, addon, all}
MCItems    == {Host(lib), Target(lib), Target(addon), Target(all)}
MCDeps     == [i \in MCItems |->
                CASE i = Target(all)   -> {Target(addon)}
                  [] i = Target(addon) -> {Host(lib), Target(lib)}
                  [] i = Target(lib)   -> {Host(lib)}
                  [] i = Host(lib)     -> {}]
MCShadowed == [p \in MCPackages |-> CASE p = all   -> {lib, addon}
                                     [] p = lib   -> {addon}
                                     [] p = addon -> {}]
MCRoots    == {Target(all)}

MCVirtual   == {all}
MCNoSources == {addon, all}
MCHostTools == {Host(lib)}
=============================================================================
