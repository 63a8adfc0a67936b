\* One key with two versions, reached by every form of key argument
CONSTANTS
    NULL = NULL
    KeyStrings <- MCKeyStrings
    MaxVersion <- MCMaxVersion
SPECIFICATION Spec
PROPERTY UsesServedVersion
PROPERTY NoUseOfExpiredKey
