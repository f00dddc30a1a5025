\* A project directory that comes, changes and goes, and a user who rescans or changes the
\* lint configuration whenever he likes.
SPECIFICATION LiveSpec
CONSTANTS
  Dirs = {d1}
  Git = git
  Kinds = {"source"}
  MaxInbox = 2
CONSTRAINT NotExposed
INVARIANTS NoChangeForgotten TreeFollowsDisk
PROPERTIES ChangesRefreshed
