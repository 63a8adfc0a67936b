CONSTANTS
    Chars <- MCChars
    MaxLen <- MCMaxLen
    Namespaces <- MCNamespaces
SPECIFICATION Spec
INVARIANT ParseKeyStringFollowsFormat
