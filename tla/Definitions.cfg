SPECIFICATION Spec
CONSTANTS
    Constants <- KConConstants
    Names = {"a", "b"}
    Values = {0}
    MAX_TAG = 4
INVARIANTS TypeOK TagsAreUnique NamesAgree
