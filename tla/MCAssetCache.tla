---------------------------- MODULE MCAssetCache ----------------------------
\* Two compilers sharing one cache of two assets, laid out as the release
\* stages them (bin/ld.lld, lib/...), so no asset is at the top level.
EXTENDS AssetCache

CONSTANTS p1, p2

MCProcs == {p1, p2}
MCAssets == <<"linker", "import_lib">>
=============================================================================
