-------------------------- MODULE MCKeyReferences --------------------------
EXTENDS KeyReferences

\* A letter and the separator; strings up to six characters
MCChars == {"a", "/"}
MCMaxLen == 6
\* defaultNamespace unset, or set to "n"
MCNamespaces == {<<>>, <<"n">>}
=============================================================================
