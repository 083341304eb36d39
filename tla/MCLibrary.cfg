SPECIFICATION Spec
INVARIANTS KeepsWhatIsAsked ActsAsSet MergeIsUnion LiteralsStand WalksInOrder FindsAsDeclared SplitsAsWritten MatchIsInstance SpellsUnicode WritesWhereTold
PROPERTIES StreamsAreIntStream TextIsAsEdited SelectsByPath SharesEquals KeepsLatest
CHECK_DEADLOCK FALSE
