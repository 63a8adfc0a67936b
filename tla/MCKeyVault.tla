---------------------------- MODULE MCKeyVault ----------------------------
EXTENDS KeyVault

\* One key, unversioned, pinned to each version, and "latest" in two cases
MCKeyStrings == {<<"k">>, <<"k", "/", "1">>, <<"k", "/", "2">>,
                 <<"k", "/", "l", "a", "t", "e", "s", "t">>,
                 <<"k", "/", "L", "A", "T", "E", "S", "T">>}
MCMaxVersion == 2
=============================================================================
